-------------------------- MODULE RingQueueProofs --------------------------
(***************************************************************************)
(* The invariants of RingQueue for every length of the ring and every set  *)
(* of packets, and that the ring implements BoundedFifo.                   *)
(***************************************************************************)
EXTENDS RingQueue, SequenceTheorems, TLAPS

\* OnlyFilledSlots says something of the slots between tail and head; with the
\* types and the agreement of the indices it is preserved by every operation.
IInv == TypeOK /\ IndicesAgree /\ OnlyFilledSlots /\ LentSlotIntact

\* The places of the ring are slots of the block, and the place behind the
\* newest packet is none of the places in use while the ring is not full.
LEMMA PlaceInIndex ==
  ASSUME TypeOK, NEW i \in 0 .. QueueLen PROVE Place(i) \in Index
  BY QueueLenAssumption DEF TypeOK, Place, Index

LEMMA HeadIsFree ==
  ASSUME TypeOK, IndicesAgree, ~queue_full, NEW i \in 0 .. count - 1
  PROVE  Place(i) # head
  BY QueueLenAssumption DEF TypeOK, IndicesAgree, queue_full, Place, Index

LEMMA InitInv == Init => IInv
  BY QueueLenAssumption, NoneAssumption
     DEF Init, IInv, TypeOK, IndicesAgree, OnlyFilledSlots, LentSlotIntact,
         Index, Slot, Place, Contents, queue_full

\* enqueue writes the free slot at head and moves head to the next place.
LEMMA EnqueueInv ==
  ASSUME IInv, NEW v \in Item, enqueue(v) PROVE IInv'
<1> USE QueueLenAssumption, NoneAssumption
<1>1. TypeOK'
  BY DEF IInv, enqueue, TypeOK, Index, Slot, queue_full, Succ
<1>2. IndicesAgree'
  BY DEF IInv, enqueue, TypeOK, IndicesAgree, Index, Place, queue_full, Succ
<1>3. OnlyFilledSlots'
  <2> SUFFICES ASSUME NEW i \in 1 .. count + 1 PROVE items'[Place(i - 1)] \in Item
    BY DEF IInv, enqueue, OnlyFilledSlots, Contents, TypeOK, Place
  <2>1. CASE i = count + 1
    <3>1. i - 1 = count
      BY <2>1 DEF IInv, TypeOK
    <3>2. Place(i - 1) = head /\ head \in Index
      BY <3>1 DEF IInv, TypeOK, IndicesAgree
    <3> QED BY <3>2 DEF enqueue, IInv, TypeOK
  <2>2. CASE i \in 1 .. count
    <3>1. items[Place(i - 1)] \in Item
      BY <2>2 DEF IInv, OnlyFilledSlots, Contents
    <3>2. i - 1 \in 0 .. count - 1 /\ i - 1 \in 0 .. QueueLen
      BY <2>2 DEF IInv, TypeOK
    <3>3. Place(i - 1) \in Index /\ Place(i - 1) # head
      BY <3>2, PlaceInIndex, HeadIsFree DEF IInv, enqueue
    <3> QED BY <3>1, <3>3 DEF enqueue, IInv, TypeOK
  <2> QED BY <2>1, <2>2 DEF IInv, TypeOK
<1>4. LentSlotIntact'
  BY DEF IInv, enqueue, LentSlotIntact, TypeOK, IndicesAgree, Index, Slot,
         Behind, Place, queue_full, Succ
<1> QED BY <1>1, <1>2, <1>3, <1>4 DEF IInv

\* dequeue hands out the slot at tail, which becomes the slot behind it.
LEMMA DequeueInv ==
  ASSUME IInv, dequeue PROVE IInv'
<1> USE QueueLenAssumption, NoneAssumption
<1>1. TypeOK'
  BY DEF IInv, dequeue, TypeOK, Index, Slot, queue_empty, Succ
<1>2. IndicesAgree'
  BY DEF IInv, dequeue, TypeOK, IndicesAgree, Index, Place, queue_empty, Succ
<1>3. OnlyFilledSlots'
  <2> SUFFICES ASSUME NEW i \in 1 .. count - 1 PROVE items[Place(i - 1)'] \in Item
    BY DEF IInv, dequeue, OnlyFilledSlots, Contents, TypeOK, Place
  <2>1. i + 1 \in 1 .. count /\ (i + 1) - 1 = i
    BY DEF IInv, TypeOK
  <2>2. items[Place(i)] \in Item
    BY <2>1 DEF IInv, OnlyFilledSlots, Contents
  <2>3. Place(i - 1)' = Place(i)
    BY DEF IInv, TypeOK, dequeue, Place, Succ, Index, queue_empty
  <2> QED BY <2>2, <2>3
<1>4. LentSlotIntact'
  BY DEF IInv, dequeue, LentSlotIntact, TypeOK, Index, Behind, queue_full, queue_empty, Succ
<1> QED BY <1>1, <1>2, <1>3, <1>4 DEF IInv

LEMMA StepInv == IInv /\ [Next]_vars => IInv'
<1> SUFFICES ASSUME IInv, [Next]_vars PROVE IInv'
  OBVIOUS
<1>1. CASE \E v \in Item : enqueue(v)
  BY <1>1, EnqueueInv
<1>2. CASE dequeue
  BY <1>2, DequeueInv
<1>3. CASE queue_reset
  BY <1>3, QueueLenAssumption, NoneAssumption
     DEF queue_reset, IInv, TypeOK, IndicesAgree, OnlyFilledSlots, LentSlotIntact,
         Index, Slot, Place, Contents, queue_full
<1>4. CASE UNCHANGED vars
  BY <1>4 DEF vars, IInv, TypeOK, IndicesAgree, OnlyFilledSlots, LentSlotIntact,
         Index, Slot, Place, Contents, queue_full, Behind
<1> QED
  BY <1>1, <1>2, <1>3, <1>4 DEF Next

LEMMA Invariance == Spec => []IInv
  BY InitInv, StepInv, PTL DEF Spec

\* queue.c: the indices stay inside the block and the wrap keeps head, tail and
\* count in step, whatever the length of the ring.
THEOREM RingIndices == Spec => [](TypeOK /\ IndicesAgree)
<1>1. IInv => TypeOK /\ IndicesAgree
  BY DEF IInv
<1> QED BY <1>1, Invariance, PTL

\* queue.c:67-91: what peek and dequeue return was filled by a caller of enqueue.
THEOREM RingFilled == Spec => []OnlyFilledSlots
<1>1. IInv => OnlyFilledSlots
  BY DEF IInv
<1> QED BY <1>1, Invariance, PTL

\* net_write.c:119-122: the slot write_data encrypts from, after dequeue gave it
\* back, still holds the packet.
THEOREM RingLent == Spec => []LentSlotIntact
<1>1. IInv => LentSlotIntact
  BY DEF IInv
<1> QED BY <1>1, Invariance, PTL
-----------------------------------------------------------------------------
LEMMA ContentsIsSeq ==
  IInv => Contents \in Seq(Item) /\ Len(Contents) = count
<1> SUFFICES ASSUME IInv PROVE Contents \in Seq(Item) /\ Len(Contents) = count
  OBVIOUS
<1>1. count \in Nat
  BY DEF IInv, TypeOK
<1>2. \A i \in 1 .. count : items[Place(i - 1)] \in Item
  BY DEF IInv, OnlyFilledSlots, Contents
<1> QED BY <1>1, <1>2, IsASeq DEF Contents

\* The ring implements the bounded first-in first-out queue: enqueue is Put,
\* dequeue is Get, queue_reset is Clear.
THEOREM RingRefinesFifo == Spec => ImplementsFifo
<1> USE QueueLenAssumption, NoneAssumption
<1>0. IInv' => (Contents \in Seq(Item) /\ Len(Contents) = count)'
  BY ContentsIsSeq, PTL
<1>1. Init => Fifo!Init
  <2> SUFFICES ASSUME Init PROVE Contents = << >>
    BY DEF Fifo!Init
  <2>1. IInv /\ count = 0
    BY InitInv DEF Init
  <2>2. Contents \in Seq(Item) /\ Len(Contents) = 0
    BY <2>1, ContentsIsSeq
  <2> QED BY <2>2, EmptySeq
<1>2. ASSUME IInv, IInv', [Next]_vars PROVE [Fifo!Next]_Contents
  <2> USE <1>2
  <2>0. /\ Contents \in Seq(Item) /\ Len(Contents) = count
        /\ Contents' \in Seq(Item) /\ Len(Contents') = count'
        /\ count \in Nat /\ count' \in Nat
    <3>1. Contents \in Seq(Item) /\ Len(Contents) = count
      BY ContentsIsSeq
    <3>2. Contents' \in Seq(Item) /\ Len(Contents') = count'
      BY <1>0
    <3> QED BY <3>1, <3>2 DEF IInv, TypeOK
  <2>1. ASSUME NEW v \in Item, enqueue(v) PROVE Fifo!Put(v)
    <3>1. Len(Contents) < QueueLen
      BY <2>0, <2>1 DEF enqueue, queue_full, IInv, TypeOK
    <3>2. Contents' = Append(Contents, v)
      <4>1. /\ Append(Contents, v) \in Seq(Item)
            /\ Len(Append(Contents, v)) = count + 1
            /\ Append(Contents, v)[count + 1] = v
            /\ \A i \in 1 .. count : Append(Contents, v)[i] = Contents[i]
        BY <2>0, AppendProperties
      <4>2. count' = count + 1
        BY <2>1 DEF enqueue
      <4>3. ASSUME NEW i \in 1 .. count + 1 PROVE Contents'[i] = Append(Contents, v)[i]
        <5>1. Contents'[i] = items'[Place(i - 1)]
          BY <4>2, <2>1 DEF Contents, enqueue, Place
        <5>2. CASE i = count + 1
          <6>1. i - 1 = count /\ Place(i - 1) = head /\ head \in Index
            BY <5>2, <2>0 DEF IInv, TypeOK, IndicesAgree
          <6> QED BY <6>1, <5>1, <5>2, <4>1, <2>1 DEF enqueue, IInv, TypeOK
        <5>3. CASE i \in 1 .. count
          <6>1. i - 1 \in 0 .. count - 1 /\ i - 1 \in 0 .. QueueLen
            BY <5>3 DEF IInv, TypeOK
          <6>2. Place(i - 1) \in Index /\ Place(i - 1) # head
            BY <6>1, <2>1, PlaceInIndex, HeadIsFree DEF IInv, enqueue
          <6>3. items'[Place(i - 1)] = items[Place(i - 1)]
            BY <6>2, <2>1 DEF enqueue, IInv, TypeOK
          <6>4. Contents[i] = items[Place(i - 1)]
            BY <5>3 DEF Contents
          <6> QED BY <6>3, <6>4, <5>1, <4>1, <5>3
        <5> QED BY <5>2, <5>3, <2>0
      <4> QED BY <4>1, <4>2, <4>3, <2>0, SeqEqual
    <3> QED BY <3>1, <3>2 DEF Fifo!Put
  <2>2. ASSUME dequeue PROVE Fifo!Get
    <3>1. Contents # << >>
      BY <2>0, <2>2, EmptySeq DEF dequeue, queue_empty
    <3>2. Contents' = Tail(Contents)
      <4>1. /\ Tail(Contents) \in Seq(Item)
            /\ Len(Tail(Contents)) = count - 1
            /\ \A i \in 1 .. count - 1 : Tail(Contents)[i] = Contents[i + 1]
        BY <2>0, <3>1, HeadTailProperties
      <4>2. count' = count - 1 /\ count \in 1 .. QueueLen
        BY <2>2 DEF dequeue, queue_empty, IInv, TypeOK
      <4>3. ASSUME NEW i \in 1 .. count - 1 PROVE Contents'[i] = Contents[i + 1]
        <5>1. i + 1 \in 1 .. count /\ (i + 1) - 1 = i
          BY <4>2
        <5>2. Contents[i + 1] = items[Place(i)]
          BY <5>1 DEF Contents
        <5>3. Contents'[i] = items[Place(i - 1)']
          BY <4>2, <2>2 DEF Contents, dequeue, Place
        <5>4. Place(i - 1)' = Place(i)
          BY <2>2, <4>2 DEF IInv, TypeOK, dequeue, Place, Succ, Index
        <5> QED BY <5>2, <5>3, <5>4
      <4> QED BY <4>1, <4>2, <4>3, <2>0, SeqEqual
    <3> QED BY <3>1, <3>2 DEF Fifo!Get
  <2>3. ASSUME queue_reset PROVE Fifo!Clear
    <3>1. Contents' \in Seq(Item) /\ Len(Contents') = 0
      BY <2>0, <2>3 DEF queue_reset
    <3>2. Contents' = << >>
      BY <3>1, EmptySeq
    <3> QED BY <3>2 DEF Fifo!Clear
  <2>4. CASE UNCHANGED vars
    <3>1. Contents' = Contents
      BY <2>4 DEF vars, Contents, Place
    <3> QED BY <3>1
  <2> QED BY <2>1, <2>2, <2>3, <2>4 DEF Next, Fifo!Next
<1>3. QED
  BY <1>1, <1>2, Invariance, PTL DEF Spec, Fifo!Spec, ImplementsFifo
=============================================================================
