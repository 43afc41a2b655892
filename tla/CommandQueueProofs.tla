------------------------ MODULE CommandQueueProofs ------------------------
(***************************************************************************)
(* The lock-free queue for every capacity and any number of producers: its *)
(* memory accesses are ordered well enough that no item is torn, the item  *)
(* that was peeked is the one that is popped, and the queue is a bounded   *)
(* first-in first-out queue.                                               *)
(***************************************************************************)
EXTENDS CommandQueue, TLAPS

\* The oldest position whose node has not been given back.
Oldest == IF cpc = "release" THEN head - 1 ELSE head

\* The positions in use: at most a round, from the oldest to the next to claim.
Window ==
    /\ Len(claimed) = tail
    /\ Oldest \in Nat
    /\ head <= tail /\ tail <= Oldest + Capacity

\* Each node may be claimed by one position of the round that begins with the
\* oldest.
TailsInRound == \A n \in Oldest .. Oldest + Capacity - 1 : nodeTail[NodeOf(n)] = n

\* No node holds an item of a position that is not claimed yet.
HeadsClaimed == \A i \in Node : nodeHead[i] < tail

\* What a node says it holds it holds.
HeadsHold ==
    \A n \in head .. tail - 1 :
        nodeHead[NodeOf(n)] = n => nodeData[NodeOf(n)] = claimed[n + 1]

\* A producer between its claim and its publication has a position to itself.
OwnPosition(p) ==
    Filling(p) =>
        /\ seen[p] \in head .. tail - 1
        /\ nodeHead[NodeOf(seen[p])] # seen[p]
        /\ claimed[seen[p] + 1] = arg[p]
        /\ ppc[p] = "publish" => nodeData[NodeOf(seen[p])] = arg[p]

OwnPositions ==
    /\ \A p \in Producers : OwnPosition(p)
    /\ \A p, q \in Producers :
          p # q /\ Filling(p) /\ Filling(q) => seen[p] # seen[q]

\* A producer that finds _tail where it read it, after its check, has room.
Asking ==
    \A p \in Producers :
        /\ ppc[p] # "idle" => seen[p] <= tail /\ arg[p] \in Item
        /\ ppc[p] = "cas" /\ seen[p] = tail => tail < Oldest + Capacity

\* The consumer between its check and its pop.
Taking ==
    /\ cpc \in {"copy", "pop"} => Published
    /\ cpc = "pop" => result = claimed[head + 1]

IInv ==
    /\ TypeOK /\ Window /\ TailsInRound /\ HeadsClaimed /\ HeadsHold
    /\ OwnPositions /\ Asking /\ Taking
-----------------------------------------------------------------------------
(* Arithmetic                                                              *)

\* Quotient and remainder.
LEMMA DivMod ==
    ASSUME NEW C \in Nat \ {0}, NEW n \in Nat
    PROVE  /\ n \div C \in Int
           /\ n % C \in 0 .. C - 1
           /\ n = C * (n \div C) + (n % C)
<1>1. n \div C \in Int  BY Z3
<1>2. n % C \in 0 .. C - 1  BY Z3
<1>3. n = C * (n \div C) + (n % C)  BY Z3
<1>4. QED  BY <1>1, <1>2, <1>3

\* A multiple of C that is less than C away from 0 is 0.
LEMMA SmallMultiple ==
    ASSUME NEW C \in Nat \ {0}, NEW k \in Int, C * k < C, 0 - C < C * k
    PROVE  k = 0
<1>1. CASE k >= 1
  <2>1. PICK j \in Nat : k = j + 1  BY <1>1
  <2>2. C * k = C * j + C  BY <2>1, Z3
  <2>3. C * j >= 0  BY <2>1, Z3
  <2>4. QED  BY <2>2, <2>3, <1>1
<1>2. CASE k <= 0 - 1
  <2>1. PICK j \in Nat : k = 0 - j - 1  BY <1>2
  <2>2. C * k = 0 - C * j - C  BY <2>1, Z3
  <2>3. C * j >= 0  BY <2>1, Z3
  <2>4. QED  BY <2>2, <2>3, <1>2
<1>3. QED  BY <1>1, <1>2

\* Numbers with one remainder that are less than C apart are equal.
LEMMA SameRemainder ==
    ASSUME NEW C \in Nat \ {0}, NEW a \in Int, NEW b \in Int, NEW r \in Int,
           NEW n \in Int, NEW k \in Int,
           n = C * a + r, k = C * b + r, n < k + C, k < n + C
    PROVE  n = k
<1>1. C * a \in Int /\ C * b \in Int  BY Z3
<1>2. C * (a - b) = C * a - C * b  BY Z3
<1>3. C * (a - b) = n - k  BY <1>1, <1>2
<1>4. a - b = 0  BY <1>3, SmallMultiple
<1>5. a = b  BY <1>4
<1>6. QED  BY <1>5

\* The remainder is unique, also a multiple further on.
LEMMA UniqueRemainder ==
    ASSUME NEW C \in Nat \ {0}, NEW a \in Int, NEW b \in Int,
           NEW r \in 0 .. C - 1, NEW s \in 0 .. C - 1, C * a + r + C = C * b + s
    PROVE  r = s
<1>1. C * a \in Int /\ C * b \in Int  BY Z3
<1>2. C * (b - a - 1) = C * b - C * a - C  BY Z3
<1>3. C * (b - a - 1) = r - s  BY <1>1, <1>2
<1>4. b - a - 1 = 0  BY <1>3, SmallMultiple
<1>5. C * (b - a - 1) = 0  BY <1>4, Z3
<1>6. QED  BY <1>3, <1>5

\* Two positions less than a round apart have different nodes.
LEMMA RoundApart ==
    ASSUME NEW n \in Nat, NEW k \in Nat, NodeOf(n) = NodeOf(k),
           n < k + Capacity, k < n + Capacity
    PROVE  n = k
<1>1. PICK a \in Int, r \in Int : n = Capacity * a + r /\ r = NodeOf(n)
  BY CapacityAssumption, DivMod DEF NodeOf
<1>2. PICK b \in Int : k = Capacity * b + NodeOf(k)
  BY CapacityAssumption, DivMod DEF NodeOf
<1>3. k = Capacity * b + r  BY <1>1, <1>2
<1>4. QED  BY <1>1, <1>3, CapacityAssumption, SameRemainder

\* A position and the one a round later have the same node.
LEMMA RoundLater ==
    ASSUME NEW n \in Nat
    PROVE  NodeOf(n + Capacity) = NodeOf(n)
<1>1. PICK a \in Int, r \in 0 .. Capacity - 1 : n = Capacity * a + r /\ r = NodeOf(n)
  BY CapacityAssumption, DivMod DEF NodeOf
<1>2. n + Capacity \in Nat  BY CapacityAssumption
<1>3. PICK b \in Int, s \in 0 .. Capacity - 1 :
          n + Capacity = Capacity * b + s /\ s = NodeOf(n + Capacity)
  BY <1>2, CapacityAssumption, DivMod DEF NodeOf
<1>4. Capacity * a + r + Capacity = Capacity * b + s  BY <1>1, <1>3
<1>5. r = s  BY <1>4, CapacityAssumption, UniqueRemainder
<1>6. QED  BY <1>1, <1>3, <1>5

\* A position has a node.
LEMMA NodeOfType ==
    ASSUME NEW n \in Nat
    PROVE  NodeOf(n) \in Node
  BY CapacityAssumption, DivMod DEF NodeOf, Node

-----------------------------------------------------------------------------
(* The invariant is inductive                                              *)

\* Two claimed positions that are not popped have different nodes.
LEMMA InQueue ==
    ASSUME TypeOK, Window, NEW n \in head .. tail - 1, NEW k \in head .. tail - 1,
           NodeOf(n) = NodeOf(k)
    PROVE  n = k
<1>1. n \in Nat /\ k \in Nat /\ n < k + Capacity /\ k < n + Capacity
  BY CapacityAssumption DEF TypeOK, Window, Oldest
<1>2. QED  BY <1>1, RoundApart

\* A position past the window is not the one its node waits for.
LEMMA FullNode ==
    ASSUME TypeOK, Window, TailsInRound, tail = Oldest + Capacity
    PROVE  nodeTail[NodeOf(tail)] # tail
<1>1. Oldest \in Nat /\ Oldest \in Oldest .. Oldest + Capacity - 1
  BY CapacityAssumption DEF Window
<1>2. nodeTail[NodeOf(Oldest)] = Oldest  BY <1>1 DEF TailsInRound
<1>3. NodeOf(tail) = NodeOf(Oldest)  BY <1>1, RoundLater
<1>4. QED  BY <1>1, <1>2, <1>3, CapacityAssumption

\* The initial state.
LEMMA InitIInv == Init => IInv
<1> SUFFICES ASSUME Init PROVE IInv  OBVIOUS
<1> USE CapacityAssumption
<1>1. TypeOK  BY DEF Init, TypeOK, Node
<1>2. Window  BY DEF Init, Window, Oldest
<1>3. TailsInRound
  <2>1. \A n \in Node : NodeOf(n) = n  BY Z3 DEF Node, NodeOf
  <2>2. QED  BY <2>1 DEF Init, TailsInRound, Oldest, Node
<1>4. HeadsClaimed /\ HeadsHold  BY DEF Init, HeadsClaimed, HeadsHold
<1>5. OwnPositions /\ Asking /\ Taking
  BY DEF Init, OwnPositions, OwnPosition, Filling, Asking, Taking
<1>6. QED  BY <1>1, <1>2, <1>3, <1>4, <1>5 DEF IInv

\* Steps of a producer that change only where it is and what it has seen.
LEMMA KeepsQueue ==
    ASSUME IInv, NEW p \in Producers, NEW s \in Nat, NEW d \in Item \cup {NoItem},
           NEW c \in {"idle", "check", "cas"},
           ~Filling(p),
           ppc' = [ppc EXCEPT ![p] = c],
           seen' = [seen EXCEPT ![p] = s],
           arg' = [arg EXCEPT ![p] = d],
           c # "idle" => s <= tail /\ d \in Item,
           c = "cas" /\ s = tail => tail < Oldest + Capacity,
           UNCHANGED <<tail, nodeHead, nodeData, claimed, consumerVars>>
    PROVE  IInv'
<1> USE DEF IInv, consumerVars
<1>1. TypeOK'  BY DEF TypeOK
<1>2. Window' /\ TailsInRound' /\ HeadsClaimed' /\ HeadsHold'
  BY DEF Window, TailsInRound, HeadsClaimed, HeadsHold, Oldest
<1>3. \A q \in Producers : Filling(q)' => q # p /\ Filling(q)
  BY DEF TypeOK, Filling
<1>4. OwnPositions'
  <2>1. \A q \in Producers : OwnPosition(q)'
    BY <1>3 DEF OwnPositions, OwnPosition, TypeOK
  <2>2. ASSUME NEW q \in Producers, NEW r \in Producers, q # r, Filling(q)', Filling(r)'
        PROVE  seen'[q] # seen'[r]
    BY <1>3, <2>2 DEF OwnPositions, TypeOK
  <2>3. QED  BY <2>1, <2>2 DEF OwnPositions
<1>5. Asking'  BY DEF Asking, TypeOK, Oldest
<1>6. Taking'  BY DEF Taking, Published
<1>7. QED  BY <1>1, <1>2, <1>4, <1>5, <1>6

\* A claim takes the next position, whose node has been given back.
LEMMA ClaimKeeps ==
    ASSUME IInv, NEW p \in Producers, Claim(p)
    PROVE  IInv'
<1> USE DEF IInv, Claim, consumerVars
<1>1. /\ tail < Oldest + Capacity /\ arg[p] \in Item
      /\ tail \in Nat /\ head \in Nat /\ Len(claimed) = tail /\ claimed \in Seq(Item)
      /\ head <= tail /\ Oldest \in Nat /\ Oldest' = Oldest
  BY DEF Asking, TypeOK, Window, Oldest
<1>2. TypeOK'  BY <1>1 DEF TypeOK
<1>3. /\ Len(claimed') = tail' /\ claimed'[tail + 1] = arg[p]
      /\ \A n \in head .. tail - 1 : claimed'[n + 1] = claimed[n + 1]
  BY <1>1
<1>4. Window'  BY <1>1, <1>3, CapacityAssumption DEF Window
<1>5. TailsInRound' /\ HeadsClaimed'
  <2>1. TailsInRound'  BY <1>1 DEF TailsInRound
  <2>2. \A i \in Node : nodeHead[i] \in Int  BY DEF TypeOK
  <2>3. HeadsClaimed'  BY <1>1, <2>2 DEF HeadsClaimed
  <2>4. QED  BY <2>1, <2>3
<1>6. NodeOf(tail) \in Node /\ nodeHead[NodeOf(tail)] # tail
  BY <1>1, NodeOfType DEF HeadsClaimed, TypeOK
<1>7. HeadsHold'
  <2> SUFFICES ASSUME NEW n \in head .. tail, nodeHead[NodeOf(n)] = n
               PROVE  nodeData[NodeOf(n)] = claimed'[n + 1]
    BY <1>1 DEF HeadsHold
  <2>1. n \in head .. tail - 1  BY <1>1, <1>6
  <2>2. QED  BY <2>1, <1>3 DEF HeadsHold
<1>8. \A q \in Producers : Filling(q)' => q = p \/ Filling(q)
  BY DEF Filling, TypeOK
<1>9. OwnPositions'
  <2>1. ASSUME NEW q \in Producers, Filling(q)'
        PROVE  OwnPosition(q)'
    <3>1. CASE q = p
      BY <3>1, <1>1, <1>3, <1>6 DEF OwnPosition, TypeOK
    <3>2. CASE q # p
      <4>1. Filling(q) /\ ppc'[q] = ppc[q]  BY <1>8, <2>1, <3>2 DEF TypeOK
      <4>2. OwnPosition(q)  BY DEF OwnPositions
      <4>3. seen[q] \in head .. tail - 1 /\ claimed'[seen[q] + 1] = claimed[seen[q] + 1]
        BY <4>1, <4>2, <1>1, <1>3 DEF OwnPosition
      <4>4. seen[q] \in head .. tail' - 1  BY <4>3, <1>1
      <4>5. QED  BY <4>1, <4>2, <4>3, <4>4, <1>1 DEF OwnPosition
    <3>3. QED  BY <3>1, <3>2
  <2>2. ASSUME NEW q \in Producers, NEW r \in Producers, q # r, Filling(q)', Filling(r)'
        PROVE  seen'[q] # seen'[r]
    <3>1. \A o \in Producers : Filling(o) => seen[o] < tail
      BY <1>1 DEF OwnPositions, OwnPosition, TypeOK
    <3>2. QED  BY <1>1, <1>8, <2>2, <3>1 DEF OwnPositions, TypeOK
  <2>3. QED  BY <2>1, <2>2 DEF OwnPositions, OwnPosition
<1>10. Asking'  BY <1>1 DEF Asking, TypeOK
<1>11. Taking'
  <2>1. cpc = "pop" => head \in head .. tail - 1
    BY <1>1, NodeOfType DEF Taking, Published, HeadsClaimed, TypeOK
  <2>2. QED  BY <2>1, <1>3 DEF Taking, Published
<1>12. QED  BY <1>2, <1>4, <1>5, <1>7, <1>9, <1>10, <1>11

\* The memcpy changes a node that is nobody else's.
LEMMA FillKeeps ==
    ASSUME IInv, NEW p \in Producers, Fill(p)
    PROVE  IInv'
<1> USE DEF IInv, Fill, consumerVars
<1>1. /\ Filling(p) /\ OwnPosition(p) /\ seen[p] \in head .. tail - 1
      /\ seen[p] \in Nat /\ NodeOf(seen[p]) \in Node
  BY NodeOfType DEF OwnPositions, OwnPosition, Filling, TypeOK
<1>2. TypeOK'  BY DEF TypeOK
<1>3. Window' /\ TailsInRound' /\ HeadsClaimed' /\ Oldest' = Oldest
  BY DEF Window, TailsInRound, HeadsClaimed, Oldest
<1>4. \A n \in head .. tail - 1 :
          n # seen[p] => nodeData'[NodeOf(n)] = nodeData[NodeOf(n)]
  <2>1. ASSUME NEW n \in head .. tail - 1, n # seen[p]
        PROVE  NodeOf(n) # NodeOf(seen[p])
    BY <1>1, <2>1, InQueue
  <2>2. ASSUME NEW n \in head .. tail - 1  PROVE NodeOf(n) \in Node
    BY NodeOfType DEF TypeOK
  <2>3. QED  BY <2>1, <2>2 DEF TypeOK
<1>5. HeadsHold'
  BY <1>1, <1>4 DEF HeadsHold, OwnPosition
<1>6. \A q \in Producers : Filling(q)' <=> Filling(q)
  BY DEF Filling, TypeOK
<1>7. OwnPositions'
  <2>1. ASSUME NEW q \in Producers, Filling(q)'
        PROVE  OwnPosition(q)'
    <3>1. CASE q = p
      BY <3>1, <1>1 DEF OwnPosition, TypeOK
    <3>2. CASE q # p
      <4>1. Filling(q) /\ ppc'[q] = ppc[q] /\ OwnPosition(q) /\ seen[q] # seen[p]
        BY <1>1, <1>6, <2>1, <3>2 DEF OwnPositions, TypeOK
      <4>2. QED  BY <4>1, <1>4 DEF OwnPosition
    <3>3. QED  BY <3>1, <3>2
  <2>2. QED  BY <2>1, <1>6 DEF OwnPositions, OwnPosition
<1>8. Asking'  BY <1>3 DEF Asking, TypeOK
<1>9. Taking'  BY DEF Taking, Published
<1>10. QED  BY <1>2, <1>3, <1>5, <1>7, <1>8, <1>9

\* What is published is what was claimed.
LEMMA PublishKeeps ==
    ASSUME IInv, NEW p \in Producers, Publish(p)
    PROVE  IInv'
<1> USE DEF IInv, Publish, consumerVars
<1>1. /\ Filling(p) /\ OwnPosition(p) /\ seen[p] \in head .. tail - 1
      /\ seen[p] \in Nat /\ NodeOf(seen[p]) \in Node
      /\ nodeData[NodeOf(seen[p])] = claimed[seen[p] + 1]
  BY NodeOfType DEF OwnPositions, OwnPosition, Filling, TypeOK
<1>2. TypeOK'  BY DEF TypeOK
<1>3. Window' /\ TailsInRound' /\ Oldest' = Oldest
  BY DEF Window, TailsInRound, Oldest
<1>4. HeadsClaimed'  BY <1>1 DEF HeadsClaimed, TypeOK
<1>5. \A n \in head .. tail - 1 :
          n # seen[p] => nodeHead'[NodeOf(n)] = nodeHead[NodeOf(n)]
  <2>1. ASSUME NEW n \in head .. tail - 1, n # seen[p]
        PROVE  NodeOf(n) # NodeOf(seen[p])
    BY <1>1, <2>1, InQueue
  <2>2. ASSUME NEW n \in head .. tail - 1  PROVE NodeOf(n) \in Node
    BY NodeOfType DEF TypeOK
  <2>3. QED  BY <2>1, <2>2 DEF TypeOK
<1>6. HeadsHold'  BY <1>1, <1>5 DEF HeadsHold
<1>7. \A q \in Producers : Filling(q)' => q # p /\ Filling(q) /\ ppc'[q] = ppc[q]
  BY DEF Filling, TypeOK
<1>8. OwnPositions'
  <2>1. ASSUME NEW q \in Producers, Filling(q)'
        PROVE  OwnPosition(q)'
    <3>1. OwnPosition(q) /\ Filling(q) /\ ppc'[q] = ppc[q] /\ seen[q] # seen[p]
      BY <1>1, <1>7, <2>1 DEF OwnPositions
    <3>2. QED  BY <3>1, <1>5 DEF OwnPosition
  <2>2. QED  BY <2>1, <1>7 DEF OwnPositions, OwnPosition
<1>9. Asking'  BY <1>3 DEF Asking, TypeOK
<1>10. Taking'
  <2>1. Published => seen[p] # head  BY <1>1 DEF OwnPosition, Published
  <2>2. Published => Published'
    <3>1. Published => head \in head .. tail - 1
      BY NodeOfType DEF Published, HeadsClaimed, TypeOK
    <3>2. QED  BY <2>1, <3>1, <1>5 DEF Published
  <2>3. QED  BY <2>2 DEF Taking
<1>11. QED  BY <1>2, <1>3, <1>4, <1>6, <1>8, <1>9, <1>10

\* The consumer's check and copy change nothing but its own state.
LEMMA PeekCopyKeeps ==
    ASSUME IInv, Peek \/ Copy
    PROVE  IInv'
<1> USE DEF IInv, producerVars
<1>1. UNCHANGED <<producerVars, head, nodeTail>> /\ Oldest' = Oldest
  BY DEF Peek, Copy, Oldest
<1>2. head \in Nat /\ NodeOf(head) \in Node  BY NodeOfType DEF TypeOK
<1>3. TypeOK'  BY <1>1, <1>2 DEF Peek, Copy, TypeOK
<1>4. Window' /\ TailsInRound' /\ HeadsClaimed' /\ HeadsHold'
  BY <1>1 DEF Window, TailsInRound, HeadsClaimed, HeadsHold
<1>5. OwnPositions' /\ Asking'
  BY <1>1 DEF OwnPositions, OwnPosition, Filling, Asking
<1>6. Taking'
  <2>1. CASE Peek  BY <2>1 DEF Peek, Taking, Published
  <2>2. CASE Copy
    <3>1. Published /\ head \in head .. tail - 1
      BY <2>2, <1>2 DEF Copy, Taking, Published, HeadsClaimed, TypeOK
    <3>2. nodeData[NodeOf(head)] = claimed[head + 1]
      BY <3>1 DEF HeadsHold, Published
    <3>3. QED  BY <2>2, <3>1, <3>2 DEF Copy, Taking, Published
  <2>3. QED  BY <2>1, <2>2
<1>7. QED  BY <1>3, <1>4, <1>5, <1>6

\* pop gives up a position whose item is complete.
LEMMA PopKeeps ==
    ASSUME IInv, Pop
    PROVE  IInv'
<1> USE DEF IInv, producerVars, Pop
<1>1. Published  BY DEF Taking
<1>2. head \in Nat /\ tail \in Nat /\ NodeOf(head) \in Node /\ head < tail
  BY <1>1, NodeOfType DEF TypeOK, Published, HeadsClaimed
<1>3. head' = head + 1 /\ cpc' = "release" /\ Oldest' = Oldest
  BY <1>1, <1>2 DEF Oldest
<1>4. TypeOK'  BY <1>3 DEF TypeOK
<1>5. Window'  BY <1>2, <1>3 DEF Window
<1>6. TailsInRound' /\ HeadsClaimed'  BY <1>3 DEF TailsInRound, HeadsClaimed
<1>7. HeadsHold'
  <2>1. \A n \in head' .. tail' - 1 : n \in head .. tail - 1  BY <1>2, <1>3
  <2>2. QED  BY <2>1 DEF HeadsHold
<1>8. OwnPositions'
  <2>1. ASSUME NEW p \in Producers, Filling(p)
        PROVE  seen[p] \in head' .. tail - 1
    BY <1>1, <1>2, <1>3, <2>1 DEF OwnPositions, OwnPosition, Published
  <2>2. QED  BY <2>1 DEF OwnPositions, OwnPosition, Filling
<1>9. Asking'  BY <1>3 DEF Asking
<1>10. Taking'  BY <1>3 DEF Taking
<1>11. QED  BY <1>4, <1>5, <1>6, <1>7, <1>8, <1>9, <1>10

\* The node that is given back is the one of the last position of the next round.
LEMMA ReleaseKeeps ==
    ASSUME IInv, Release
    PROVE  IInv'
<1> USE DEF IInv, producerVars, Release
<1>1. /\ Oldest = head - 1 /\ Oldest \in Nat /\ Oldest' = Oldest + 1 /\ head \in Nat
      /\ tail \in Nat /\ Capacity \in Nat \ {0} /\ NodeOf(Oldest) \in Node
  BY CapacityAssumption, NodeOfType DEF Oldest, Window, TypeOK
<1>2. nodeTail' = [nodeTail EXCEPT ![NodeOf(Oldest)] = Oldest + Capacity]
  BY <1>1
<1>3. TypeOK'  BY <1>1, <1>2 DEF TypeOK
<1>4. Window'  BY <1>1 DEF Window
<1>5. TailsInRound'
  <2> SUFFICES ASSUME NEW n \in Oldest + 1 .. Oldest + Capacity
               PROVE  nodeTail'[NodeOf(n)] = n
    BY <1>1 DEF TailsInRound
  <2>1. CASE n = Oldest + Capacity
    <3>1. NodeOf(n) = NodeOf(Oldest)  BY <1>1, <2>1, RoundLater
    <3>2. QED  BY <1>1, <1>2, <2>1, <3>1 DEF TypeOK
  <2>2. CASE n # Oldest + Capacity
    <3>1. n \in Oldest .. Oldest + Capacity - 1 /\ n \in Nat  BY <1>1, <2>2
    <3>2. NodeOf(n) # NodeOf(Oldest)  BY <1>1, <3>1, RoundApart
    <3>3. NodeOf(n) \in Node /\ nodeTail[NodeOf(n)] = n
      BY <3>1, NodeOfType DEF TailsInRound
    <3>4. QED  BY <1>2, <3>2, <3>3 DEF TypeOK
  <2>3. QED  BY <2>1, <2>2
<1>6. HeadsClaimed' /\ HeadsHold' /\ OwnPositions'
  BY DEF HeadsClaimed, HeadsHold, OwnPositions, OwnPosition, Filling
<1>7. Asking'
  BY <1>1 DEF Asking, TypeOK
<1>8. Taking'  BY DEF Taking
<1>9. QED  BY <1>3, <1>4, <1>5, <1>6, <1>7, <1>8

\* Every step keeps the invariant.
LEMMA NextIInv == IInv /\ [Next]_vars => IInv'
<1> SUFFICES ASSUME IInv, [Next]_vars PROVE IInv'  OBVIOUS
<1> USE DEF consumerVars
<1>1. TypeOK /\ Asking  BY DEF IInv
<1>2. ASSUME NEW p \in Producers, NEW d \in Item, Load(p, d)  PROVE IInv'
  <2>1. ~Filling(p) /\ tail \in Nat  BY <1>1, <1>2 DEF Load, Filling, TypeOK
  <2>2. tail <= tail /\ d \in Item \cup {NoItem}  BY <2>1
  <2>3. /\ ppc' = [ppc EXCEPT ![p] = "check"] /\ seen' = [seen EXCEPT ![p] = tail]
        /\ arg' = [arg EXCEPT ![p] = d]
        /\ UNCHANGED <<tail, nodeHead, nodeData, claimed, consumerVars>>
    BY <1>2 DEF Load
  <2>4. QED  BY <2>1, <2>2, <2>3, KeepsQueue
<1>3. ASSUME NEW p \in Producers, Refuse(p)  PROVE IInv'
  <2>1. ~Filling(p) /\ seen[p] \in Nat /\ arg[p] \in Item \cup {NoItem}
        /\ seen' = [seen EXCEPT ![p] = seen[p]] /\ arg' = [arg EXCEPT ![p] = arg[p]]
    BY <1>1, <1>3 DEF Refuse, Filling, TypeOK
  <2>2. QED  BY <1>3, <2>1, KeepsQueue DEF Refuse
<1>4. ASSUME NEW p \in Producers, Check(p)  PROVE IInv'
  <2>1. ~Filling(p) /\ seen[p] \in Nat /\ arg[p] \in Item \cup {NoItem}
        /\ seen' = [seen EXCEPT ![p] = seen[p]] /\ arg' = [arg EXCEPT ![p] = arg[p]]
    BY <1>1, <1>4 DEF Check, Filling, TypeOK
  <2>2. seen[p] <= tail /\ arg[p] \in Item  BY <1>1, <1>4 DEF Check, Asking
  <2>3. seen[p] = tail => tail < Oldest + Capacity
    <3>1. tail <= Oldest + Capacity /\ tail \in Nat /\ Oldest \in Nat
      BY DEF IInv, Window, TypeOK
    <3>2. QED  BY <1>4, <3>1, FullNode, CapacityAssumption DEF Check, IInv
  <2>4. QED  BY <1>4, <2>1, <2>2, <2>3, KeepsQueue DEF Check
<1>5. ASSUME NEW p \in Producers, Retry(p)  PROVE IInv'
  <2>1. ~Filling(p) /\ tail \in Nat /\ arg[p] \in Item
        /\ arg' = [arg EXCEPT ![p] = arg[p]]
    BY <1>1, <1>5 DEF Retry, Filling, TypeOK, Asking
  <2>2. tail <= tail /\ arg[p] \in Item \cup {NoItem}  BY <2>1
  <2>3. /\ ppc' = [ppc EXCEPT ![p] = "check"] /\ seen' = [seen EXCEPT ![p] = tail]
        /\ UNCHANGED <<tail, nodeHead, nodeData, claimed, consumerVars>>
    BY <1>5 DEF Retry
  <2>4. QED  BY <2>1, <2>2, <2>3, KeepsQueue
<1>6. CASE UNCHANGED vars
  BY <1>6 DEF vars, producerVars, IInv, TypeOK, Window, TailsInRound, HeadsClaimed,
     HeadsHold, OwnPositions, OwnPosition, Filling, Asking, Taking, Published, Oldest
<1>7. QED
  BY <1>2, <1>3, <1>4, <1>5, <1>6, ClaimKeeps, FillKeeps, PublishKeeps,
     PeekCopyKeeps, PopKeeps, ReleaseKeeps
  DEF Next, Producer, Push, Consumer

\* The invariant holds in every reachable state.
THEOREM Invariant == Spec => []IInv
  BY InitIInv, NextIInv, PTL DEF Spec
-----------------------------------------------------------------------------
(* What it is good for                                                     *)

\* LockFreeQueueCpp11: the shared words and both sides' locals keep their types,
\* for every capacity and any number of producers.
THEOREM Typing == Spec => []TypeOK
<1>1. IInv => TypeOK  BY DEF IInv
<1>2. QED  BY <1>1, Invariant, PTL

\* push's memcpy and peek's copy: no two threads are ever at one node.
THEOREM UntornItems == Spec => []NoTornItem
<1>1. IInv => NoTornItem
  <2> SUFFICES ASSUME IInv PROVE NoTornItem  OBVIOUS
  <2> USE DEF IInv
  <2>1. ASSUME NEW p \in Producers, cpc = "copy", Filling(p)
        PROVE  NodeOf(seen[p]) # NodeOf(head)
    <3>1. Published /\ head \in head .. tail - 1
      BY <2>1, NodeOfType DEF Taking, Published, HeadsClaimed, TypeOK
    <3>2. seen[p] \in head .. tail - 1 /\ seen[p] # head
      BY <2>1, <3>1 DEF OwnPositions, OwnPosition, Published
    <3>3. QED  BY <3>1, <3>2, InQueue
  <2>2. ASSUME NEW p \in Producers, NEW q \in Producers, p # q, Filling(p), Filling(q)
        PROVE  NodeOf(seen[p]) # NodeOf(seen[q])
    BY <2>2, InQueue DEF OwnPositions, OwnPosition
  <2>3. QED  BY <2>1, <2>2 DEF NoTornItem
<1>2. QED  BY <1>1, Invariant, PTL

\* peek and pop are two calls: the item acted on is the one that is popped.
THEOREM PeekedThenPopped == Spec => []PeekedIsNext
<1>1. IInv => PeekedIsNext  BY DEF IInv, Taking, PeekedIsNext
<1>2. QED  BY <1>1, Invariant, PTL

\* push returns false only on a full queue or after another producer's push.
THEOREM RefusedOnlyWhenFull == Spec => RefusedWhenFull
<1> DEFINE A == \A p \in Producers :
                   ppc[p] = "check" /\ ppc'[p] = "idle" => InUse = Capacity \/ tail # seen[p]
<1>1. IInv /\ [Next]_vars => [A]_vars
  <2> SUFFICES ASSUME IInv, Next, NEW p \in Producers, ppc[p] = "check", ppc'[p] = "idle",
                      tail = seen[p]
               PROVE  InUse = Capacity
    OBVIOUS
  <2> USE DEF IInv
  <2>1. Refuse(p)
    BY DEF Next, Producer, Consumer, Push, Load, Refuse, Check, Claim, Retry, Fill,
       Publish, Peek, Copy, Pop, Release, producerVars, TypeOK
  <2>2. tail \in Nat /\ head \in Nat /\ Oldest \in Nat /\ tail <= Oldest + Capacity
        /\ Oldest <= tail /\ nodeTail[NodeOf(tail)] # tail
    BY <2>1 DEF Refuse, Window, TypeOK, Oldest
  <2>3. tail \notin Oldest .. Oldest + Capacity - 1  BY <2>2 DEF TailsInRound
  <2>4. QED  BY <2>2, <2>3, CapacityAssumption DEF InUse, Oldest
<1>2. QED  BY <1>1, Invariant, PTL DEF Spec, RefusedWhenFull

-----------------------------------------------------------------------------
(* The queue as a bounded first-in first-out queue                         *)

\* A part of a sequence, element by element.
LEMMA Part ==
    ASSUME NEW S, NEW s \in Seq(S), NEW m \in Nat, NEW n \in Nat, m <= n, n <= Len(s)
    PROVE  /\ SubSeq(s, m + 1, n) \in Seq(S)
           /\ Len(SubSeq(s, m + 1, n)) = n - m
           /\ \A i \in 1 .. n - m : SubSeq(s, m + 1, n)[i] = s[m + i]
  OBVIOUS

\* Sequences with the same elements are equal.
LEMMA SameSeq ==
    ASSUME NEW S, NEW s \in Seq(S), NEW t \in Seq(S), Len(s) = Len(t),
           \A i \in 1 .. Len(s) : s[i] = t[i]
    PROVE  s = t
  OBVIOUS

\* What waits in a state of the queue.
LEMMA WaitingIs ==
    ASSUME IInv
    PROVE  /\ Waiting \in Seq(Item) /\ Len(Waiting) = tail - head
           /\ \A i \in 1 .. tail - head : Waiting[i] = claimed[head + i]
  BY Part DEF IInv, TypeOK, Window, Waiting

\* A claim puts its item at the end.
LEMMA ClaimPuts ==
    ASSUME IInv, IInv', NEW p \in Producers, Claim(p)
    PROVE  \E d \in Item : Fifo!Put(d)
<1> USE DEF Claim, consumerVars
<1>1. /\ arg[p] \in Item /\ tail \in Nat /\ head \in Nat /\ head <= tail
      /\ tail < head + Capacity /\ claimed \in Seq(Item) /\ Len(claimed) = tail
  BY CapacityAssumption DEF IInv, Asking, TypeOK, Window, Oldest
<1>2. /\ Waiting \in Seq(Item) /\ Len(Waiting) = tail - head
      /\ \A i \in 1 .. tail - head : Waiting[i] = claimed[head + i]
  BY WaitingIs
<1>3. /\ Waiting' \in Seq(Item) /\ Len(Waiting') = tail + 1 - head
      /\ \A i \in 1 .. tail + 1 - head : Waiting'[i] = claimed'[head + i]
  <2>1. (IInv => /\ Waiting \in Seq(Item) /\ Len(Waiting) = tail - head
                 /\ \A i \in 1 .. tail - head : Waiting[i] = claimed[head + i])'
    BY WaitingIs, PTL
  <2>2. tail' - head' = tail + 1 - head /\ head' = head  BY <1>1
  <2> HIDE DEF Claim
  <2>3. QED  BY <2>1, <2>2
<1>4. Append(Waiting, arg[p]) \in Seq(Item) /\ Len(Append(Waiting, arg[p])) = tail + 1 - head
  <2> HIDE DEF Claim, consumerVars
  <2>1. QED  BY <1>1, <1>2
<1>5. ASSUME NEW i \in 1 .. tail + 1 - head
      PROVE  Waiting'[i] = Append(Waiting, arg[p])[i]
  <2>0. Waiting'[i] = claimed'[head + i]
    <3> HIDE DEF Claim
    <3>1. QED  BY <1>3
  <2>1. CASE i = tail + 1 - head
    <3>1. Append(Waiting, arg[p])[i] = arg[p]  BY <2>1, <1>1, <1>2
    <3>2. head + i = tail + 1  BY <2>1, <1>1
    <3>3. claimed'[tail + 1] = arg[p]  BY <1>1
    <3>4. QED  BY <2>0, <3>1, <3>2, <3>3
  <2>2. CASE i # tail + 1 - head
    <3>1. i \in 1 .. tail - head /\ head + i \in 1 .. tail
      <4> HIDE DEF Claim, consumerVars
      <4>1. tail \in Int /\ head \in Nat /\ i \in Int  BY <1>1
      <4>2. i <= tail - head  BY <2>2, <4>1
      <4>3. QED  BY <4>1, <4>2
    <3>2. claimed'[head + i] = claimed[head + i]  BY <3>1, <1>1
    <3>3. Append(Waiting, arg[p])[i] = Waiting[i]
      <4> HIDE DEF Claim, consumerVars
      <4>1. i \in 1 .. Len(Waiting)  BY <3>1, <1>2
      <4>2. QED  BY <4>1, <1>1, <1>2
    <3>4. QED  BY <2>0, <3>1, <3>2, <3>3, <1>2
  <2>3. QED  BY <2>1, <2>2
<1>6. Waiting' = Append(Waiting, arg[p])  BY <1>3, <1>4, <1>5, SameSeq
<1>7. Len(Waiting) < Capacity  BY <1>1, <1>2, CapacityAssumption
<1>8. QED  BY <1>1, <1>6, <1>7 DEF Fifo!Put

\* pop takes the oldest item.
LEMMA PopGets ==
    ASSUME IInv, IInv', Pop
    PROVE  Fifo!Get
<1>1. /\ tail \in Nat /\ head \in Nat /\ head < tail /\ head' = head + 1 /\ tail' = tail
      /\ claimed' = claimed
  BY NodeOfType DEF Pop, producerVars, IInv, Taking, Published, HeadsClaimed, TypeOK
<1>2. /\ Waiting \in Seq(Item) /\ Len(Waiting) = tail - head
      /\ \A i \in 1 .. tail - head : Waiting[i] = claimed[head + i]
  BY WaitingIs
<1>3. /\ Waiting' \in Seq(Item) /\ Len(Waiting') = tail - head - 1
      /\ \A i \in 1 .. tail - head - 1 : Waiting'[i] = claimed[head + 1 + i]
  <2>1. (IInv => /\ Waiting \in Seq(Item) /\ Len(Waiting) = tail - head
                 /\ \A i \in 1 .. tail - head : Waiting[i] = claimed[head + i])'
    BY WaitingIs, PTL
  <2>2. tail' - head' = tail - head - 1  BY <1>1
  <2>3. QED  BY <2>1, <2>2, <1>1
<1>4. Waiting # << >>  BY <1>1, <1>2
<1>5. /\ Tail(Waiting) \in Seq(Item) /\ Len(Tail(Waiting)) = tail - head - 1
      /\ \A i \in 1 .. tail - head - 1 : Tail(Waiting)[i] = Waiting[i + 1]
  BY <1>1, <1>2, <1>4
<1>6. ASSUME NEW i \in 1 .. tail - head - 1
      PROVE  Waiting'[i] = Tail(Waiting)[i]
  <2>1. i + 1 \in 1 .. tail - head /\ head + (i + 1) = head + 1 + i  BY <1>1
  <2>2. QED  BY <2>1, <1>2, <1>3, <1>5
<1>7. Waiting' = Tail(Waiting)  BY <1>3, <1>5, <1>6, SameSeq
<1>8. QED  BY <1>4, <1>7 DEF Fifo!Get

\* LockFreeQueueCpp11 is a first-in first-out queue of Capacity items for any
\* number of producers and one consumer: push puts, pop gets, nothing else
\* changes what waits.
THEOREM QueueRefinesFifo == Spec => ImplementsFifo
<1> DEFINE A == (\E d \in Item : Fifo!Put(d)) \/ Fifo!Get
<1>1. Init => Fifo!Init
  BY DEF Init, Waiting, Fifo!Init
<1>2. IInv /\ IInv' /\ [Next]_vars => [A]_Waiting
  <2> SUFFICES ASSUME IInv, IInv', [Next]_vars PROVE A \/ UNCHANGED Waiting  OBVIOUS
  <2>1. ASSUME NEW p \in Producers, Producer(p)
        PROVE  A \/ UNCHANGED Waiting
    <3>1. CASE Claim(p)  BY <3>1, ClaimPuts
    <3>2. CASE ~Claim(p)
      BY <2>1, <3>2 DEF Producer, Push, Load, Refuse, Check, Retry, Fill, Publish,
         consumerVars, Waiting
    <3>3. QED  BY <3>1, <3>2
  <2>2. CASE Pop  BY <2>2, PopGets
  <2>3. CASE Peek \/ Copy \/ Release
    BY <2>3 DEF Peek, Copy, Release, producerVars, Waiting
  <2>4. CASE UNCHANGED vars
    BY <2>4 DEF vars, producerVars, consumerVars, Waiting
  <2>5. QED  BY <2>1, <2>2, <2>3, <2>4 DEF Next, Consumer
<1>3. QED  BY <1>1, <1>2, Invariant, PTL DEF Spec, ImplementsFifo
=============================================================================
