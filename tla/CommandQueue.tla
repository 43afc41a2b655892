---------------------------- MODULE CommandQueue ----------------------------
(***************************************************************************)
(* The lock-free queue of include/LockFreeQueueCpp11.h, which carries the  *)
(* commands and logins of the client's GUI thread to its network thread,   *)
(* at the level of its accesses to shared memory: every action reads or    *)
(* writes one of them.  The class admits any number of producers; the      *)
(* client has one, and one consumer, which peeks at an item, acts on it    *)
(* and then pops it (transfer_manager.cpp:277-293, network.cpp:282-285).   *)
(*                                                                         *)
(* A position is the number of a push.  Positions are size_t in the code;  *)
(* 2^64 is a multiple of the capacity and is not reached, so they are      *)
(* natural numbers here.  Accesses take effect in program order, as they   *)
(* do on x86; the relaxed loads of peek and push promise less.             *)
(***************************************************************************)
EXTENDS Integers, Sequences

CONSTANTS
    Producers,  \* the threads that push
    Item,       \* what they push
    NoItem,     \* what a node's memory holds before its first push
    Capacity,   \* the number of nodes; the constructor rounds it up to 2^k
    MaxPush     \* bound: no push begins once there are so many

ASSUME CapacityAssumption == Capacity \in Nat \ {0}
ASSUME MaxPushAssumption == MaxPush \in Nat

VARIABLES
    tail, head,     \* _tail and _head: the next position to claim, to pop
    nodeTail,       \* per node: the position that may claim it
    nodeHead,       \* per node: the position whose item it holds, or -1
    nodeData,       \* per node: the item
    ppc,            \* per producer: where in push() it is
    seen,           \* per producer: its local tail
    arg,            \* per producer: the item it pushes
    cpc,            \* where in peek() or pop() the consumer is
    result,         \* the item the last peek returned
    claimed         \* history: the items in the order of their positions

producerVars == <<tail, nodeHead, nodeData, ppc, seen, arg, claimed>>
consumerVars == <<head, nodeTail, cpc, result>>
vars == <<producerVars, consumerVars>>

Node == 0 .. Capacity - 1
NodeOf(n) == n % Capacity

Init ==
    /\ tail = 0 /\ head = 0
    /\ nodeTail = [i \in Node |-> i]
    /\ nodeHead = [i \in Node |-> -1]
    /\ nodeData = [i \in Node |-> NoItem]
    /\ ppc = [p \in Producers |-> "idle"]
    /\ seen = [p \in Producers |-> 0]
    /\ arg = [p \in Producers |-> NoItem]
    /\ cpc = "peek" /\ result = NoItem
    /\ claimed = << >>
-----------------------------------------------------------------------------
(* push()                                                                  *)

\* Reads _tail.
Load(p, d) ==
    /\ ppc[p] = "idle" /\ tail < MaxPush
    /\ ppc' = [ppc EXCEPT ![p] = "check"]
    /\ seen' = [seen EXCEPT ![p] = tail]
    /\ arg' = [arg EXCEPT ![p] = d]
    /\ UNCHANGED <<tail, nodeHead, nodeData, claimed, consumerVars>>

\* The node is still taken by an earlier position: push returns false.
Refuse(p) ==
    /\ ppc[p] = "check" /\ nodeTail[NodeOf(seen[p])] # seen[p]
    /\ ppc' = [ppc EXCEPT ![p] = "idle"]
    /\ UNCHANGED <<tail, nodeHead, nodeData, seen, arg, claimed, consumerVars>>

\* Slip: _tail decides alone who may have the node.
CheckNothing(p) ==
    /\ ppc[p] = "check"
    /\ ppc' = [ppc EXCEPT ![p] = "cas"]
    /\ UNCHANGED <<tail, nodeHead, nodeData, seen, arg, claimed, consumerVars>>

\* The node is free for this position.
Check(p) ==
    /\ ppc[p] = "check" /\ nodeTail[NodeOf(seen[p])] = seen[p]
    /\ ppc' = [ppc EXCEPT ![p] = "cas"]
    /\ UNCHANGED <<tail, nodeHead, nodeData, seen, arg, claimed, consumerVars>>

\* Slip: a store instead of the compare-exchange.
ClaimByStore(p) ==
    /\ ppc[p] = "cas"
    /\ tail' = seen[p] + 1
    /\ claimed' = Append(claimed, arg[p])
    /\ ppc' = [ppc EXCEPT ![p] = "fill"]
    /\ UNCHANGED <<nodeHead, nodeData, seen, arg, consumerVars>>

\* compare_exchange_weak of _tail succeeds: the position belongs to p.
Claim(p) ==
    /\ ppc[p] = "cas" /\ tail = seen[p]
    /\ tail' = tail + 1
    /\ claimed' = Append(claimed, arg[p])
    /\ ppc' = [ppc EXCEPT ![p] = "fill"]
    /\ UNCHANGED <<nodeHead, nodeData, seen, arg, consumerVars>>

\* It fails, another producer being first or for no reason, and reads _tail.
Retry(p) ==
    /\ ppc[p] = "cas"
    /\ ppc' = [ppc EXCEPT ![p] = "check"]
    /\ seen' = [seen EXCEPT ![p] = tail]
    /\ UNCHANGED <<tail, nodeHead, nodeData, arg, claimed, consumerVars>>

\* The memcpy, which takes from the step before to this one.
Fill(p) ==
    /\ ppc[p] = "fill"
    /\ nodeData' = [nodeData EXCEPT ![NodeOf(seen[p])] = arg[p]]
    /\ ppc' = [ppc EXCEPT ![p] = "publish"]
    /\ UNCHANGED <<tail, nodeHead, seen, arg, claimed, consumerVars>>

\* Slip: the position after the increment is published.
PublishNext(p) ==
    /\ ppc[p] = "publish"
    /\ nodeHead' = [nodeHead EXCEPT ![NodeOf(seen[p])] = seen[p] + 1]
    /\ ppc' = [ppc EXCEPT ![p] = "idle"]
    /\ UNCHANGED <<tail, nodeData, seen, arg, claimed, consumerVars>>

\* node->head.store: the consumer may have the item.
Publish(p) ==
    /\ ppc[p] = "publish"
    /\ nodeHead' = [nodeHead EXCEPT ![NodeOf(seen[p])] = seen[p]]
    /\ ppc' = [ppc EXCEPT ![p] = "idle"]
    /\ UNCHANGED <<tail, nodeData, seen, arg, claimed, consumerVars>>
-----------------------------------------------------------------------------
(* peek() and pop(), which only the consumer calls; _head is its own       *)

\* Slip: a claimed position is taken for a filled one.
PublishedByTail == head < tail

\* The item of the position _head is in its node.
Published == nodeHead[NodeOf(head)] = head

\* The check of peek(); while it fails, peek returns false and is called again.
Peek ==
    /\ cpc = "peek" /\ Published
    /\ cpc' = "copy"
    /\ UNCHANGED <<producerVars, head, nodeTail, result>>

\* result = node->data; the caller acts on it and calls pop().
Copy ==
    /\ cpc = "copy"
    /\ result' = nodeData[NodeOf(head)]
    /\ cpc' = "pop"
    /\ UNCHANGED <<producerVars, head, nodeTail>>

\* pop(): its check, which may find nothing to pop, and its compare-exchange,
\* which is tried again when it fails for no reason.
Pop ==
    /\ cpc = "pop"
    /\ head' = IF Published THEN head + 1 ELSE head
    /\ cpc' = IF Published THEN "release" ELSE "peek"
    /\ UNCHANGED <<producerVars, nodeTail, result>>

\* Slip: a round back instead of a round on.
ReleaseBack ==
    /\ cpc = "release"
    /\ nodeTail' = [nodeTail EXCEPT ![NodeOf(head - 1)] = head - 1 - Capacity]
    /\ cpc' = "peek"
    /\ UNCHANGED <<producerVars, head, result>>

\* Slip: the incremented head is used.
ReleaseNext ==
    /\ cpc = "release"
    /\ nodeTail' = [nodeTail EXCEPT ![NodeOf(head - 1)] = head + Capacity]
    /\ cpc' = "peek"
    /\ UNCHANGED <<producerVars, head, result>>

\* node->tail is set for the position one round later.
Release ==
    /\ cpc = "release"
    /\ nodeTail' = [nodeTail EXCEPT ![NodeOf(head - 1)] = head - 1 + Capacity]
    /\ cpc' = "peek"
    /\ UNCHANGED <<producerVars, head, result>>
-----------------------------------------------------------------------------
Push(p) == Refuse(p) \/ Check(p) \/ Claim(p) \/ Retry(p) \/ Fill(p) \/ Publish(p)
Producer(p) == (\E d \in Item : Load(p, d)) \/ Push(p)
Consumer == Peek \/ Copy \/ Pop \/ Release

Next == (\E p \in Producers : Producer(p)) \/ Consumer

Spec == Init /\ [][Next]_vars

\* Each thread goes on with the call it is in, and a weak compare-exchange
\* that could succeed again and again does so at last.
FairSpec ==
    /\ Spec
    /\ \A p \in Producers : WF_vars(Push(p)) /\ SF_vars(Claim(p))
    /\ WF_vars(Consumer)
-----------------------------------------------------------------------------
(* Properties                                                              *)

\* The types of the shared words, the locals of each thread and the history.
TypeOK ==
    /\ tail \in Nat /\ head \in Nat
    /\ nodeTail \in [Node -> Nat]
    /\ nodeHead \in [Node -> Nat \cup {-1}]
    /\ nodeData \in [Node -> Item \cup {NoItem}]
    /\ ppc \in [Producers -> {"idle", "check", "cas", "fill", "publish"}]
    /\ seen \in [Producers -> Nat]
    /\ arg \in [Producers -> Item \cup {NoItem}]
    /\ cpc \in {"peek", "copy", "pop", "release"}
    /\ result \in Item \cup {NoItem}
    /\ claimed \in Seq(Item)

Filling(p) == ppc[p] \in {"fill", "publish"}

\* The memcpy of push and the copy of peek are not atomic: nobody may fill the
\* node the consumer is copying, nor two producers one node.
NoTornItem ==
    /\ \A p \in Producers :
          cpc = "copy" /\ Filling(p) => NodeOf(seen[p]) # NodeOf(head)
    /\ \A p, q \in Producers :
          p # q /\ Filling(p) /\ Filling(q) => NodeOf(seen[p]) # NodeOf(seen[q])

\* peek and pop are two calls: what peek has copied is the oldest item of the
\* queue still, and pop takes that one and no other.
PeekedIsNext ==
    cpc = "pop" => Published /\ result = claimed[head + 1]

\* Items whose position is claimed and not popped, the oldest first.
Waiting == SubSeq(claimed, head + 1, tail)

Fifo == INSTANCE BoundedFifo WITH fifo <- Waiting

\* push and pop implement a bounded queue that is never cleared: push takes
\* effect when it claims its position, and pop takes the oldest item; nothing
\* overtakes, is lost or exceeds the capacity.
ImplementsFifo == Fifo!Init /\ [][(\E d \in Item : Fifo!Put(d)) \/ Fifo!Get]_Waiting

\* Nodes that are claimed and not given back.
InUse == tail - head + (IF cpc = "release" THEN 1 ELSE 0)

\* The GUI thread asserts that push succeeds (main_menu.cpp:330, :465): it may
\* return false only when every node is in use, or when another producer has
\* moved _tail since it was read.
RefusedWhenFull ==
    [][\A p \in Producers :
         ppc[p] = "check" /\ ppc'[p] = "idle" => InUse = Capacity \/ tail # seen[p]]_vars

\* Every item whose push has claimed a position is popped at last.
PushedIsPopped ==
    \A n \in 0 .. MaxPush : tail > n ~> head > n
=============================================================================
