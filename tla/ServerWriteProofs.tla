------------------------- MODULE ServerWriteProofs -------------------------
(***************************************************************************)
(* Theorems about ServerWrite, for every set of record sizes, every size   *)
(* of the buffers and the queue, and every number of packets and           *)
(* connections.                                                            *)
(***************************************************************************)
EXTENDS ServerWrite, TLAPS

\* The bytes are numbers and the packets have sizes; the kernel holds no more
\* than its buffer.
Counted ==
    /\ enc \in Nat /\ sock \in 0 .. SOCK_BYTES
    /\ produced \in Nat /\ received \in Nat
    /\ queue \in Seq(RecordSizes)

\* write_data is in its loop with a closed connection only to write what is left
\* in the buffer, which fails; it is never about to encrypt.
LoopOpen ==
    /\ pc = "write" => slot = "open" \/ enc > 0
    /\ pc = "encrypt" => slot = "open"

IInv == Counted /\ LoopOpen /\ NoByteLost

LEMMA InitHolds == Init => IInv
  BY WriteAssumption DEF Init, IInv, Counted, LoopOpen, NoByteLost

\* write() takes some of the bytes, no more than there are nor than fit.
LEMMA TakenFits ==
    ASSUME Counted
    PROVE  Taken \in 0 .. enc /\ sock + Taken \in 0 .. SOCK_BYTES
  BY WriteAssumption DEF Counted, Taken

\* The buffer is shortened by what the kernel takes.
LEMMA WriteKeeps == ASSUME IInv, write_bytes PROVE IInv'
<1> USE DEF write_bytes, conn, after_error
<1>1. Taken \in 0 .. enc /\ sock + Taken \in 0 .. SOCK_BYTES  BY TakenFits DEF IInv
<1>2. Counted /\ LoopOpen /\ NoByteLost  BY DEF IInv
<1>3. CASE /\ enc = 0 \/ slot = "open"
           /\ enc' = enc - Taken /\ sock' = sock + Taken
           /\ pc' = "encrypt" /\ UNCHANGED slot
  <2>1. Counted'  BY <1>1, <1>2, <1>3 DEF Counted
  <2>2. slot = "open"  BY <1>2, <1>3 DEF LoopOpen
  <2>3. LoopOpen'  BY <1>3, <2>2 DEF LoopOpen
  <2>4. NoByteLost'  BY <1>1, <1>2, <1>3 DEF Counted, NoByteLost
  <2>5. QED  BY <2>1, <2>3, <2>4 DEF IInv
<1>4. CASE slot' = "closed" /\ pc' = "events" /\ UNCHANGED <<enc, sock>>
  BY <1>2, <1>4 DEF IInv, Counted, LoopOpen, NoByteLost
<1>5. QED  BY <1>3, <1>4

\* A record is added to the buffer, or the connection is closed or the server
\* ends.
LEMMA EncryptKeeps == ASSUME IInv, encrypt PROVE IInv'
<1> USE DEF encrypt, Again
<1>1. Counted /\ slot = "open" /\ NoByteLost  BY DEF IInv, LoopOpen
<1>2. CASE queue = << >> /\ pc' = Again(w_state, enc) /\ UNCHANGED <<slot, queue, enc, produced>>
  BY <1>1, <1>2 DEF IInv, Counted, LoopOpen, NoByteLost
<1>3. CASE queue # << >> /\ queue' = Tail(queue)
  <2>1. queue' \in Seq(RecordSizes) /\ Head(queue) \in Nat
    <3> HIDE DEF encrypt, Again
    <3>1. queue \in Seq(RecordSizes) /\ queue # << >>  BY <1>1, <1>3 DEF Counted
    <3>2. Head(queue) \in RecordSizes /\ Tail(queue) \in Seq(RecordSizes)  BY <3>1
    <3>3. QED  BY <3>2, <1>3, WriteAssumption
  <2>2. CASE /\ enc' = enc + Head(queue) /\ produced' = produced + Head(queue)
             /\ UNCHANGED slot
    <3>1. UNCHANGED <<sock, received>>  OBVIOUS
    <3>2. LoopOpen'  BY <1>1, <2>2 DEF LoopOpen
    <3> HIDE DEF encrypt, Again
    <3>3. Counted'  BY <1>1, <2>1, <2>2, <3>1 DEF Counted
    <3>4. NoByteLost'  BY <1>1, <2>1, <2>2, <3>1 DEF Counted, NoByteLost
    <3>5. QED  BY <3>2, <3>3, <3>4 DEF IInv
  <2>3. CASE slot' = "aborted" /\ pc' = "abort" /\ UNCHANGED <<enc, produced>>
    BY <1>1, <2>1, <2>3 DEF IInv, Counted, LoopOpen, NoByteLost
  <2>4. CASE slot' = "closed" /\ pc' = Again(w_state, enc) /\ UNCHANGED <<enc, produced>>
    BY <1>1, <2>1, <2>4 DEF IInv, Counted, LoopOpen, NoByteLost
  <2>5. QED  BY <1>3, <2>2, <2>3, <2>4
<1>4. QED  BY <1>2, <1>3

\* A connection that takes the slot starts with nothing of the one before.
LEMMA AcceptKeeps == ASSUME IInv, accept_client PROVE IInv'
  BY WriteAssumption DEF accept_client, client_configure, IInv, Counted, LoopOpen, NoByteLost

LEMMA ReadKeeps == ASSUME IInv, peer_reads PROVE IInv'
<1>1. PICK n \in {sock, (sock + 1) \div 2} : sock' = sock - n /\ received' = received + n
  BY DEF peer_reads
<1>2. sock \in Nat /\ sock > 0  BY WriteAssumption DEF peer_reads, IInv, Counted
<1>3. n \in 0 .. sock  BY <1>1, <1>2
<1>4. QED
  BY <1>1, <1>3, WriteAssumption DEF peer_reads, IInv, Counted, LoopOpen, NoByteLost

LEMMA NextKeeps == IInv /\ [Next]_vars => IInv'
<1> SUFFICES ASSUME IInv, [Next]_vars PROVE IInv'  OBVIOUS
<1> USE DEF IInv, Counted, LoopOpen, NoByteLost, conn
<1>1. CASE check_for_write \/ epoll_wait \/ next_round
  BY <1>1 DEF check_for_write, epoll_wait, next_round
<1>2. CASE write_data  BY <1>2 DEF write_data
<1>3. CASE write_bytes  BY <1>3, WriteKeeps
<1>4. CASE encrypt  BY <1>4, EncryptKeeps
<1>5. ASSUME NEW size \in RecordSizes, enqueue(size) PROVE IInv'
  BY <1>5 DEF enqueue
<1>6. CASE hang_up  BY <1>6 DEF hang_up
<1>7. CASE accept_client  BY <1>7, AcceptKeeps
<1>8. CASE peer_reads  BY <1>8, ReadKeeps
<1>9. CASE UNCHANGED vars  BY <1>9 DEF vars
<1>10. QED
  BY <1>1, <1>2, <1>3, <1>4, <1>5, <1>6, <1>7, <1>8, <1>9 DEF Next, Server

LEMMA Invariance == Spec => []IInv
  BY InitHolds, NextKeeps, PTL DEF Spec

\* write_bytes, encrypt and client_configure: whatever the sizes of packets and
\* of the kernel's buffer, and however the peer reads, every byte encrypted on an
\* open connection is in the buffer, in the kernel or with the peer.
THEOREM NoByteIsLost == Spec => []NoByteLost
<1>1. IInv => NoByteLost  BY DEF IInv
<1>2. QED  BY <1>1, Invariance, PTL

\* write_data: although its loop goes on after close_client, it never encrypts
\* for a connection that is closed.
THEOREM NothingUsedAfterFree == Spec => []NoUseAfterFree
<1>1. IInv => NoUseAfterFree  BY DEF IInv, LoopOpen, NoUseAfterFree
<1>2. QED  BY <1>1, Invariance, PTL
=============================================================================
