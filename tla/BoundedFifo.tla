---------------------------- MODULE BoundedFifo ----------------------------
(***************************************************************************)
(* What a queue of the server or of the client promises its users: a       *)
(* first-in first-out queue of at most Capacity items, which may be        *)
(* emptied.  The ring buffer of qs_server/src/queue.c (module RingQueue)   *)
(* implements it, and module QsServer uses it: there each client's         *)
(* msg_queue is the sequence fifo.  The client's lock-free queue (module   *)
(* CommandQueue) implements it without Clear; the sequences cmd_queue of   *)
(* TransferManager and queue of NetClient stand for it.                    *)
(***************************************************************************)
EXTENDS Naturals, Sequences

CONSTANTS
    Item,       \* what a slot can hold: a Packet
    Capacity    \* the number of slots, 16 in client.c:37-41

VARIABLE fifo   \* the items in the queue, oldest first

Init == fifo = << >>

\* enqueue() on a queue that is not full; the caller fills the slot.
Put(v) ==
    /\ Len(fifo) < Capacity
    /\ fifo' = Append(fifo, v)

\* dequeue() on a queue that is not empty.
Get ==
    /\ fifo # << >>
    /\ fifo' = Tail(fifo)

\* queue_reset(), when the slot of a client is configured for a new one.
Clear == fifo' = << >>

Next == (\E v \in Item : Put(v)) \/ Get \/ Clear

Spec == Init /\ [][Next]_fifo
=============================================================================
