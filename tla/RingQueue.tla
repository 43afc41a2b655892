----------------------------- MODULE RingQueue -----------------------------
(***************************************************************************)
(* The packet ring of qs_server/src/queue.c: a block of len slots, the     *)
(* index head where the next packet goes, the index tail of the oldest one *)
(* and the number count of packets in it.                                  *)
(*                                                                         *)
(* enqueue() and dequeue() return a POINTER into the block.  The caller of *)
(* enqueue() fills the slot before it does anything else with the queue    *)
(* (the server is single-threaded), so the two are one action here.  The   *)
(* caller of dequeue() reads the slot after it has been given back to the  *)
(* ring: write_data() dequeues and then encrypts.  The variable lent is    *)
(* the item the last such pointer referred to when it was returned.        *)
(***************************************************************************)
EXTENDS Naturals, Sequences

CONSTANTS
    Item,       \* the packets
    Zero,       \* the contents of a slot after memset(items, 0, ...)
    None,       \* no pointer has been handed out by dequeue()
    QueueLen    \* q->len, a power of two (queue_init refuses any other)

ASSUME QueueLenAssumption == QueueLen \in Nat /\ QueueLen > 0
ASSUME NoneAssumption == None \notin Item \cup {Zero}

VARIABLES items, head, tail, count, lent
vars == <<items, head, tail, count, lent>>

Index == 0 .. QueueLen - 1
Slot  == Item \cup {Zero}

\* Slip: the index runs off the end of the block instead of wrapping.
SuccNoWrap(i) == i + 1

\* (i + 1) & (len - 1), which for a power of two is the next slot of the ring.
Succ(i) == IF i + 1 = QueueLen THEN 0 ELSE i + 1

\* queue_init() and client_configure(): queue_reset() on a fresh block.
Init ==
    /\ items = [i \in Index |-> Zero]
    /\ head = 0 /\ tail = 0 /\ count = 0
    /\ lent = None

queue_empty == count = 0

\* Slip: the queue is taken for full one packet too late.
QueueFullLate == count > QueueLen

queue_full == count = QueueLen

\* enqueue(): NULL (no change) when full, else the slot at head, filled with v.
enqueue(v) ==
    /\ ~queue_full
    /\ items' = [items EXCEPT ![head] = v]
    /\ head' = Succ(head)
    /\ count' = count + 1
    /\ UNCHANGED <<tail, lent>>

\* Slip: the pointer is computed after the index has moved.
DequeueAfterMove ==
    /\ ~queue_empty
    /\ lent' = items[Succ(tail)]
    /\ tail' = Succ(tail)
    /\ count' = count - 1
    /\ UNCHANGED <<items, head>>

\* dequeue(): NULL (no change) when empty, else the slot at tail.
dequeue ==
    /\ ~queue_empty
    /\ lent' = items[tail]
    /\ tail' = Succ(tail)
    /\ count' = count - 1
    /\ UNCHANGED <<items, head>>

\* Slips: one of the three fields is not reset.
ResetKeepsHead ==
    /\ items' = [i \in Index |-> Zero]
    /\ tail' = 0 /\ count' = 0
    /\ lent' = None
    /\ UNCHANGED head

ResetKeepsCount ==
    /\ items' = [i \in Index |-> Zero]
    /\ head' = 0 /\ tail' = 0
    /\ lent' = None
    /\ UNCHANGED count

\* queue_reset(): the slots are zeroed too, and no pointer survives it.
queue_reset ==
    /\ items' = [i \in Index |-> Zero]
    /\ head' = 0 /\ tail' = 0 /\ count' = 0
    /\ lent' = None

Next == (\E v \in Item : enqueue(v)) \/ dequeue \/ queue_reset

Spec == Init /\ [][Next]_vars

-----------------------------------------------------------------------------
\* The slot that is i places behind the oldest packet.
Place(i) == IF tail + i < QueueLen THEN tail + i ELSE tail + i - QueueLen

\* The packets of the ring, oldest first: the value of the abstract queue.
Contents == [i \in 1 .. count |-> items[Place(i - 1)]]

\* The slot dequeue() gave back last.
Behind == IF tail = 0 THEN QueueLen - 1 ELSE tail - 1

Fifo == INSTANCE BoundedFifo WITH Capacity <- QueueLen, fifo <- Contents

\* The types, and the indices inside the block (queue.c:53 and 85 compute
\* addresses from them).
TypeOK ==
    /\ items \in [Index -> Slot]
    /\ head \in Index
    /\ tail \in Index
    /\ count \in 0 .. QueueLen
    /\ lent \in Slot \cup {None}

\* head, tail and count, which queue.c updates separately, always describe
\* the same stretch of the ring, also across the wrap (queue.c:61, 87).
IndicesAgree == head = Place(count)

\* peek and dequeue only ever return a slot that a caller of enqueue filled,
\* never the zeroes of queue_reset (queue.c:25-35).
OnlyFilledSlots == \A i \in 1 .. count : Contents[i] \in Item

\* The pointer dequeue() returned refers to the dequeued packet for as long as
\* the ring is not full again: write_data (net_write.c:119-122) encrypts from
\* it after the slot has been given back.
LentSlotIntact == (lent # None /\ ~queue_full) => items[Behind] = lent

\* The ring implements the bounded first-in first-out queue.
ImplementsFifo == Fifo!Spec
=============================================================================
