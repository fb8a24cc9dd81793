---------------------------- MODULE SpscRing_proofs ----------------------------
(***************************************************************************)
(* The ring is sound for every capacity: with no bound on how far the two  *)
(* ends' views of each other's index lag behind, they never touch one slot *)
(* at a time, nothing is overwritten, and the ring is a bounded FIFO.      *)
(*                                                                         *)
(* The argument is one fact about the four indices: going round the ring   *)
(* from the head the producer last saw, one meets the real head, then the  *)
(* tail the consumer last saw, then the real tail, before coming back.     *)
(***************************************************************************)
EXTENDS SpscRing, SequenceTheorems, TLAPS

-----------------------------------------------------------------------------
(***************************************************************************)
(* Indices.                                                                *)
(***************************************************************************)
\* The successor of an index is an index, one push away, and leads back
\* to no other.
LEMMA SuccFacts ==
    ASSUME NEW i \in Slots, NEW j \in Slots
    PROVE  /\ Succ(i) \in Slots
           /\ Dist(i, j) \in 0 .. Capacity - 1
           /\ Dist(i, i) = 0
           /\ Dist(i, j) = 0 <=> i = j
           /\ Succ(j) # i => Dist(i, Succ(j)) = Dist(i, j) + 1
           /\ i # j => Dist(Succ(i), j) = Dist(i, j) - 1
BY RingAssumption DEF Succ, Dist, Slots

LEMMA DistNat ==
    ASSUME NEW i \in Slots, NEW j \in Slots
    PROVE  Dist(i, j) \in Nat
BY RingAssumption DEF Dist, Slots

\* A load returns an index on the way from the one seen to the one stored.
LEMMA LoadBetween ==
    ASSUME NEW i \in Slots, NEW j \in Slots, NEW k \in Loads(i, j)
    PROVE  /\ k \in Slots
           /\ Dist(i, k) + Dist(k, j) = Dist(i, j)
BY RingAssumption DEF Loads, Dist, Slots

\* Indices and the number of pushes between them determine each other.
LEMMA SlotAfterFacts ==
    ASSUME NEW i \in Slots, NEW n \in 0 .. Capacity - 1
    PROVE  /\ SlotAfter(i, n) \in Slots
           /\ Dist(i, SlotAfter(i, n)) = n
           /\ n = 0 => SlotAfter(i, n) = i
           /\ \A j \in Slots : Dist(i, j) = n => SlotAfter(i, n) = j
           /\ \A m \in 0 .. Capacity - 1 : m = n + 1 => SlotAfter(i, m) = SlotAfter(Succ(i), n)
BY RingAssumption DEF SlotAfter, Dist, Slots, Succ

\* Four indices in order: so are any three of them.
LEMMA InOrder ==
    ASSUME NEW i \in Slots, NEW j \in Slots, NEW k \in Slots, NEW l \in Slots,
           Dist(i, j) + Dist(j, k) + Dist(k, l) = Dist(i, l)
    PROVE  /\ Dist(j, l) = Dist(j, k) + Dist(k, l)
           /\ Dist(i, k) = Dist(i, j) + Dist(j, k)
           /\ Dist(i, l) = Dist(i, j) + Dist(j, l)
BY RingAssumption DEF Dist, Slots

\* In that order, what is ahead of the second index at the third is still ahead of it
\* at the fourth, and a fourth that may go on without meeting the first does not meet
\* the second.
LEMMA Apart ==
    ASSUME NEW i \in Slots, NEW j \in Slots, NEW k \in Slots, NEW l \in Slots,
           Dist(i, j) + Dist(j, k) + Dist(k, l) = Dist(i, l)
    PROVE  /\ j # k => j # l
           /\ Succ(l) # i => Succ(l) # j
<1>1. /\ Dist(j, k) \in Nat /\ Dist(k, l) \in Nat /\ Dist(j, l) \in Nat
      /\ Dist(i, j) \in Nat
  BY DistNat
<1>2. Dist(j, l) = Dist(j, k) + Dist(k, l) /\ Dist(i, l) = Dist(i, j) + Dist(j, l)
  BY InOrder
<1>3. j # k => Dist(j, k) # 0
  BY SuccFacts
<1>4. j # k => Dist(j, l) # 0
  BY <1>1, <1>2, <1>3
<1>5. Succ(l) = j => Dist(j, l) = Capacity - 1
  BY RingAssumption DEF Succ, Dist, Slots
<1>6. Dist(i, l) <= Capacity - 1 /\ (Dist(i, j) = 0 <=> i = j)
  BY RingAssumption DEF Dist, Slots
<1>7. Succ(l) = j => i = j
  BY <1>1, <1>2, <1>5, <1>6, RingAssumption
<1> QED
  BY <1>4, <1>7, SuccFacts

-----------------------------------------------------------------------------
(***************************************************************************)
(* The inductive invariant.                                                *)
(***************************************************************************)
\* Going round from headSeen: head, tailSeen, tail.
IndexOrder ==
    Dist(headSeen, head) + Dist(head, tailSeen) + Dist(tailSeen, tail)
        = Dist(headSeen, tail)

\* What each end knows in the middle of its call.
MidCall ==
    /\ producer # "idle" => item \in Items
    /\ producer = "written" => Succ(tail) # headSeen /\ slots[tail] = item
    /\ consumer = "taken" => head # tailSeen /\ held \in Items

\* The slots between head and tail hold items, but for the one just taken;
\* of the others only the one just written does.
SlotsHold ==
    \A i \in Slots :
        slots[i] \in Items <=>
            \/ Dist(head, i) < Dist(head, tail) /\ ~(consumer = "taken" /\ i = head)
            \/ i = tail /\ producer = "written"

PeekKnown ==
    peeked # None =>
        /\ head # tail
        /\ peeked = IF consumer = "taken" THEN held ELSE slots[head]

IInv == TypeOK /\ IndexOrder /\ MidCall /\ SlotsHold /\ PeekKnown

LEMMA InitInv == Init => IInv
BY RingAssumption, EmptySeq
   DEF Init, IInv, TypeOK, IndexOrder, MidCall, SlotsHold, PeekKnown, Dist, Slots

-----------------------------------------------------------------------------
(***************************************************************************)
(* Each access preserves it.                                               *)
(***************************************************************************)
\* The producer may see any head on the way from the last one to the real one.
LEMMA LoadHeadStep ==
    ASSUME IInv, NEW x \in Items, LoadHead(x)
    PROVE  IInv'
<1> USE DEF LoadHead, consumerVars, IInv
<1>1. TypeOK'
  BY LoadBetween DEF TypeOK
<1>2. IndexOrder'
  <2>1. /\ headSeen' \in Slots /\ head \in Slots /\ tail \in Slots /\ tailSeen \in Slots
        /\ headSeen \in Slots
        /\ Dist(headSeen, headSeen') + Dist(headSeen', head) = Dist(headSeen, head)
    BY LoadBetween DEF TypeOK
  <2>2. Dist(headSeen, tail) = Dist(headSeen, head) + Dist(head, tail)
        /\ Dist(head, tail) = Dist(head, tailSeen) + Dist(tailSeen, tail)
    BY <2>1, InOrder DEF IndexOrder
  <2>3. Dist(headSeen, headSeen') + Dist(headSeen', head) + Dist(head, tail)
          = Dist(headSeen, tail)
    BY <2>1, <2>2
  <2>4. Dist(headSeen', tail) = Dist(headSeen', head) + Dist(head, tail)
    BY <2>1, <2>3, InOrder
  <2>5. /\ Dist(headSeen', head) \in Int /\ Dist(head, tailSeen) \in Int
        /\ Dist(tailSeen, tail) \in Int
    BY <2>1, DistNat
  <2>6. Dist(headSeen', head) + Dist(head, tailSeen) + Dist(tailSeen, tail)
          = Dist(headSeen', tail)
    BY <2>2, <2>4, <2>5
  <2>7. head' = head /\ tail' = tail /\ tailSeen' = tailSeen
    OBVIOUS
  <2> QED
    BY <2>6, <2>7 DEF IndexOrder
<1>3. MidCall' /\ SlotsHold' /\ PeekKnown'
  BY DEF MidCall, SlotsHold, PeekKnown
<1> QED
  BY <1>1, <1>2, <1>3

LEMMA RefuseStep ==
    ASSUME IInv, Refuse
    PROVE  IInv'
BY DEF Refuse, consumerVars, IInv, TypeOK, IndexOrder, MidCall, SlotsHold, PeekKnown

\* The slot written is outside the queue, and so are the reader's slots.
LEMMA WriteSlotStep ==
    ASSUME IInv, WriteSlot
    PROVE  IInv'
<1> USE DEF WriteSlot, consumerVars, IInv
<1>1. TypeOK'
  BY DEF TypeOK, MidCall
<1>2. IndexOrder' /\ MidCall'
  BY DEF IndexOrder, MidCall, Full, TypeOK
<1>3. SlotsHold'
  BY SuccFacts DEF SlotsHold, MidCall, TypeOK
<1>4. PeekKnown'
  BY DEF PeekKnown, TypeOK
<1> QED
  BY <1>1, <1>2, <1>3, <1>4

\* The slot written joins the queue.
LEMMA StoreTailStep ==
    ASSUME IInv, StoreTail
    PROVE  IInv'
<1> USE DEF StoreTail, consumerVars, IInv
<1>1. TypeOK'
  BY SuccFacts DEF TypeOK
<1>2. /\ Dist(headSeen, Succ(tail)) = Dist(headSeen, tail) + 1
      /\ Dist(head, Succ(tail)) = Dist(head, tail) + 1
      /\ Dist(tailSeen, Succ(tail)) = Dist(tailSeen, tail) + 1
  <2>1. Succ(tail) # headSeen
    BY DEF MidCall
  <2>2. Succ(tail) # head /\ Succ(tail) # tailSeen
    BY <2>1, RingAssumption DEF IndexOrder, TypeOK, Succ, Dist, Slots
  <2> QED
    BY <2>1, <2>2, SuccFacts DEF TypeOK
<1>3. IndexOrder'
  <2>1. /\ Dist(headSeen, head) \in Int /\ Dist(head, tailSeen) \in Int
        /\ Dist(tailSeen, tail) \in Int /\ Dist(headSeen, tail) \in Int
    BY DistNat DEF TypeOK
  <2>2. Dist(headSeen, head) + Dist(head, tailSeen) + Dist(tailSeen, Succ(tail))
          = Dist(headSeen, Succ(tail))
    BY <1>2, <2>1 DEF IndexOrder
  <2>3. head' = head /\ tail' = Succ(tail) /\ headSeen' = headSeen /\ tailSeen' = tailSeen
    OBVIOUS
  <2> QED
    BY <2>2, <2>3 DEF IndexOrder
<1>4. MidCall'
  BY DEF MidCall
<1>5. SlotsHold'
  <2> SUFFICES ASSUME NEW i \in Slots
               PROVE  slots[i] \in Items <=>
                        Dist(head, i) < Dist(head, Succ(tail)) /\ ~(consumer = "taken" /\ i = head)
    BY DEF SlotsHold
  <2>1. Dist(head, i) = Dist(head, tail) <=> i = tail
    BY RingAssumption DEF Dist, Slots, TypeOK
  <2>2. Dist(head, i) < Dist(head, Succ(tail))
          <=> Dist(head, i) < Dist(head, tail) \/ i = tail
    <3>1. Dist(head, i) \in Nat /\ Dist(head, tail) \in Nat
      BY DistNat DEF TypeOK
    <3> QED
      BY <1>2, <2>1, <3>1
  <2>3. consumer = "taken" => head # tail
    BY Apart DEF MidCall, IndexOrder, TypeOK
  <2> QED
    BY <2>2, <2>3 DEF SlotsHold
<1>6. PeekKnown'
  <2>1. head # tail => head # Succ(tail)
    BY <1>2, SuccFacts DEF TypeOK
  <2> QED
    BY <2>1 DEF PeekKnown
<1> QED
  BY <1>1, <1>3, <1>4, <1>5, <1>6

\* The consumer may see any tail on the way from the last one to the real one.
LEMMA LoadTailStep ==
    ASSUME IInv, NEW op \in {"pop", "peek"}, LoadTail(op)
    PROVE  IInv'
<1> USE DEF LoadTail, producerVars, IInv
<1>1. TypeOK'
  BY LoadBetween DEF TypeOK
<1>2. IndexOrder'
  <2>1. /\ headSeen \in Slots /\ head \in Slots /\ tail \in Slots /\ tailSeen \in Slots
        /\ tailSeen' \in Slots
        /\ Dist(tailSeen, tailSeen') + Dist(tailSeen', tail) = Dist(tailSeen, tail)
    BY LoadBetween DEF TypeOK
  <2>2. /\ Dist(headSeen, tail) = Dist(headSeen, head) + Dist(head, tail)
        /\ Dist(head, tail) = Dist(head, tailSeen) + Dist(tailSeen, tail)
    BY <2>1, InOrder DEF IndexOrder
  <2>3. Dist(head, tailSeen) + Dist(tailSeen, tailSeen') + Dist(tailSeen', tail)
          = Dist(head, tail)
    BY <2>1, <2>2, DistNat
  <2>4. Dist(head, tail) = Dist(head, tailSeen') + Dist(tailSeen', tail)
    <3>1. /\ Dist(head, tailSeen') = Dist(head, tailSeen) + Dist(tailSeen, tailSeen')
      BY <2>1, <2>3, InOrder
    <3> QED
      BY <2>3, <3>1
  <2>5. /\ Dist(headSeen, head) \in Int /\ Dist(head, tailSeen') \in Int
        /\ Dist(tailSeen', tail) \in Int
    BY <2>1, DistNat
  <2>6. Dist(headSeen, head) + Dist(head, tailSeen') + Dist(tailSeen', tail)
          = Dist(headSeen, tail)
    BY <2>2, <2>4, <2>5
  <2>7. head' = head /\ tail' = tail /\ headSeen' = headSeen
    OBVIOUS
  <2> QED
    BY <2>6, <2>7 DEF IndexOrder
<1>3. MidCall' /\ SlotsHold' /\ PeekKnown'
  BY DEF MidCall, SlotsHold, PeekKnown
<1> QED
  BY <1>1, <1>2, <1>3

LEMMA FindEmptyStep ==
    ASSUME IInv, FindEmpty
    PROVE  IInv'
BY DEF FindEmpty, producerVars, IInv, TypeOK, IndexOrder, MidCall, SlotsHold, PeekKnown

\* A consumer that found the ring not empty has an item at head.
LEMMA NotEmpty ==
    ASSUME IInv, ~Empty
    PROVE  head # tail
BY RingAssumption DEF Empty, IInv, IndexOrder, TypeOK, Dist, Slots

\* The slot read holds an item, which the consumer now holds instead.
LEMMA TakeSlotStep ==
    ASSUME IInv, TakeSlot
    PROVE  IInv'
<1> USE DEF TakeSlot, producerVars, IInv
<1>1. head # tail /\ Dist(head, head) < Dist(head, tail)
  <2>1. head # tail
    BY NotEmpty
  <2> QED
    BY <2>1, RingAssumption DEF TypeOK, Dist, Slots
<1>2. slots[head] \in Items
  BY <1>1 DEF SlotsHold, TypeOK
<1>3. TypeOK'
  BY <1>2 DEF TypeOK
<1>4. IndexOrder'
  BY DEF IndexOrder
<1>5. MidCall'
  BY <1>1, <1>2 DEF MidCall, Empty, TypeOK
<1>6. SlotsHold'
  BY <1>1, RingAssumption DEF SlotsHold, TypeOK
<1>7. PeekKnown'
  BY <1>1 DEF PeekKnown
<1> QED
  BY <1>3, <1>4, <1>5, <1>6, <1>7

\* The slot taken leaves the queue.
LEMMA StoreHeadStep ==
    ASSUME IInv, StoreHead
    PROVE  IInv'
<1> USE DEF StoreHead, producerVars, IInv
<1>1. held \in Items /\ head # tailSeen /\ head # tail
  BY Apart DEF MidCall, IndexOrder, TypeOK
<1>2. TypeOK'
  BY <1>1, SuccFacts, AppendProperties DEF TypeOK
<1>3. /\ Dist(Succ(head), tailSeen) = Dist(head, tailSeen) - 1
      /\ Dist(Succ(head), tail) = Dist(head, tail) - 1
  BY <1>1, SuccFacts DEF TypeOK
<1>4. Dist(headSeen, Succ(head)) = Dist(headSeen, head) + 1
  BY <1>1, RingAssumption DEF IndexOrder, TypeOK, Dist, Succ, Slots
<1>5. IndexOrder'
  <2>1. /\ Dist(headSeen, head) \in Int /\ Dist(head, tailSeen) \in Int
        /\ Dist(tailSeen, tail) \in Int
    BY DistNat DEF TypeOK
  <2>2. Dist(headSeen, Succ(head)) + Dist(Succ(head), tailSeen) + Dist(tailSeen, tail)
          = Dist(headSeen, tail)
    BY <1>3, <1>4, <2>1 DEF IndexOrder
  <2>3. head' = Succ(head) /\ tail' = tail /\ headSeen' = headSeen /\ tailSeen' = tailSeen
    OBVIOUS
  <2> QED
    BY <2>2, <2>3 DEF IndexOrder
<1>6. MidCall'
  BY DEF MidCall
<1>7. SlotsHold'
  <2> SUFFICES ASSUME NEW i \in Slots
               PROVE  slots[i] \in Items <=>
                        \/ Dist(Succ(head), i) < Dist(Succ(head), tail)
                        \/ i = tail /\ producer = "written"
    BY DEF SlotsHold
  <2>1. i # head => Dist(Succ(head), i) = Dist(head, i) - 1
    BY SuccFacts DEF TypeOK
  <2>2. i = head => ~(Dist(Succ(head), i) < Dist(Succ(head), tail))
    BY <1>1, RingAssumption DEF Dist, Succ, Slots, TypeOK
  <2>3. Dist(head, i) \in Nat /\ Dist(head, tail) \in Nat
    BY DistNat DEF TypeOK
  <2>4. i # head => (Dist(Succ(head), i) < Dist(Succ(head), tail)
                       <=> Dist(head, i) < Dist(head, tail))
    BY <1>3, <2>1, <2>3
  <2> QED
    BY <1>1, <2>2, <2>4 DEF SlotsHold
<1>8. PeekKnown'
  BY DEF PeekKnown
<1> QED
  BY <1>2, <1>5, <1>6, <1>7, <1>8

LEMMA PeekSlotStep ==
    ASSUME IInv, PeekSlot
    PROVE  IInv'
<1> USE DEF PeekSlot, producerVars, IInv
<1>1. head # tail
  BY NotEmpty
<1>2. TypeOK'
  BY DEF TypeOK
<1>3. IndexOrder' /\ MidCall' /\ SlotsHold'
  BY DEF IndexOrder, MidCall, SlotsHold
<1>4. PeekKnown'
  BY <1>1 DEF PeekKnown
<1> QED
  BY <1>2, <1>3, <1>4

-----------------------------------------------------------------------------
(***************************************************************************)
(* The invariant holds, and what follows from it.                          *)
(***************************************************************************)
LEMMA StepInv == IInv /\ [Next]_vars => IInv'
<1> SUFFICES ASSUME IInv, [Next]_vars PROVE IInv'
  OBVIOUS
<1>1. CASE Push
  BY <1>1, LoadHeadStep, RefuseStep, WriteSlotStep, StoreTailStep DEF Push
<1>2. CASE Pop
  BY <1>2, FindEmptyStep, TakeSlotStep, StoreHeadStep, LoadTailStep DEF Pop
<1>3. CASE Peek
  BY <1>3, PeekSlotStep, LoadTailStep DEF Peek
<1>4. CASE UNCHANGED vars
  BY <1>4 DEF vars, producerVars, consumerVars, IInv, TypeOK, IndexOrder, MidCall,
    SlotsHold, PeekKnown
<1> QED
  BY <1>1, <1>2, <1>3, <1>4 DEF Next

THEOREM Invariance == Spec => []IInv
<1> QED
  BY InitInv, StepInv, PTL DEF Spec

\* Every index stays inside the buffer, for every capacity.
THEOREM TypeCorrect == Spec => []TypeOK
<1>1. IInv => TypeOK
  BY DEF IInv
<1> QED
  BY <1>1, Invariance, PTL

\* The two ends never touch one slot at a time, however stale their views.
THEOREM RaceFree == Spec => []NoRace
<1>1. IInv => NoRace
  BY NotEmpty DEF NoRace
<1> QED
  BY <1>1, Invariance, PTL

\* push() writes to emptied slots only: it never overwrites an item.
THEOREM NeverOverwrites == Spec => []NothingOverwritten
<1>1. ASSUME IInv, producer = "check"
      PROVE  slots[tail] = None
  <2>1. ~(Dist(head, tail) < Dist(head, tail))
    BY <1>1, DistNat DEF IInv, TypeOK
  <2>2. tail \in Slots /\ slots[tail] \in Items \cup {None}
    BY <1>1 DEF IInv, TypeOK
  <2>3. slots[tail] \notin Items
    BY <1>1, <2>1, <2>2 DEF IInv, SlotsHold
  <2> QED
    BY <2>2, <2>3
<1>2. IInv => NothingOverwritten
  BY <1>1 DEF NothingOverwritten
<1> QED
  BY <1>2, Invariance, PTL

-----------------------------------------------------------------------------
(***************************************************************************)
(* The refinement.                                                         *)
(***************************************************************************)
\* What is between the indices is a sequence of items.
QueueShape ==
    /\ Queue \in Seq(Items)
    /\ Len(Queue) = Dist(head, tail)
    /\ \A i \in 1 .. Dist(head, tail) :
         Queue[i] = IF i = 1 /\ consumer = "taken" THEN held
                    ELSE slots[SlotAfter(head, i - 1)]

LEMMA QueueFacts == IInv => QueueShape
<1> SUFFICES ASSUME IInv PROVE QueueShape
  OBVIOUS
<1>1. Dist(head, tail) \in 0 .. Capacity - 1
  BY SuccFacts DEF IInv, TypeOK
<1>2. ASSUME NEW i \in 1 .. Dist(head, tail)
      PROVE  (IF i = 1 /\ consumer = "taken" THEN held
                                             ELSE slots[SlotAfter(head, i - 1)]) \in Items
  <2>1. CASE i = 1 /\ consumer = "taken"
    BY <2>1 DEF IInv, MidCall
  <2>2. CASE ~(i = 1 /\ consumer = "taken")
    <3>1. i - 1 \in 0 .. Capacity - 1 /\ i - 1 < Dist(head, tail)
      BY <1>1, RingAssumption
    <3> DEFINE j == SlotAfter(head, i - 1)
    <3>2. j \in Slots /\ Dist(head, j) = i - 1
      BY <3>1, SlotAfterFacts DEF IInv, TypeOK
    <3>3. consumer = "taken" => j # head
      BY <2>2, <3>2, SuccFacts DEF IInv, TypeOK
    <3> HIDE DEF j
    <3>4. slots[j] \in Items
      BY <3>1, <3>2, <3>3 DEF IInv, SlotsHold
    <3> QED
      BY <2>2, <3>4 DEF j
  <2> QED
    BY <2>1, <2>2
<1> DEFINE e(i) == IF i = 1 /\ consumer = "taken" THEN held
                   ELSE slots[SlotAfter(head, i - 1)]
<1>3. Queue = [i \in 1 .. Dist(head, tail) |-> e(i)]
  BY DEF Queue
<1>4. Dist(head, tail) \in Nat /\ \A i \in 1 .. Dist(head, tail) : e(i) \in Items
  BY <1>1, <1>2, DistNat DEF IInv, TypeOK
<1> HIDE DEF e
<1>5. Queue \in Seq(Items) /\ Len(Queue) = Dist(head, tail)
  BY <1>3, <1>4
<1>6. \A i \in 1 .. Dist(head, tail) : Queue[i] = e(i)
  BY <1>3
<1> QED
  BY <1>5, <1>6 DEF e, QueueShape

LEMMA QueueFactsNext == IInv' => QueueShape'
BY QueueFacts, PTL

\* What peek() showed is what the next pop() returns.
THEOREM PeekedIsPopped == Spec => []PeekIsNextPop
<1>1. ASSUME IInv, peeked # None
      PROVE  Queue # <<>> /\ peeked = Queue[1]
  <2>1. /\ head # tail
        /\ peeked = IF consumer = "taken" THEN held ELSE slots[head]
    BY <1>1 DEF IInv, PeekKnown
  <2>2. Dist(head, tail) \in Nat /\ Dist(head, tail) # 0
    BY <1>1, <2>1, SuccFacts, DistNat DEF IInv, TypeOK
  <2>3. SlotAfter(head, 1 - 1) = head
    BY <1>1, RingAssumption, SlotAfterFacts DEF IInv, TypeOK
  <2>4. Queue[1] = peeked /\ Len(Queue) # 0
    BY <1>1, <2>1, <2>2, <2>3, QueueFacts DEF QueueShape
  <2> QED
    BY <2>4
<1>2. IInv => PeekIsNextPop
  BY <1>1 DEF PeekIsNextPop
<1> QED
  BY <1>2, Invariance, PTL

\* The slots of the queue are those the accesses below leave alone.
LEMMA InQueue ==
    ASSUME IInv, NEW i \in 1 .. Dist(head, tail)
    PROVE  /\ SlotAfter(head, i - 1) \in Slots
           /\ SlotAfter(head, i - 1) # tail
           /\ SlotAfter(head, i - 1) = head <=> i = 1
<1>1. head \in Slots /\ tail \in Slots
  BY DEF IInv, TypeOK
<1> QED
  BY <1>1, RingAssumption DEF SlotAfter, Dist, Slots

\* Writing a slot and taking an item out of its slot are no steps of the queue.
LEMMA QueueKept ==
    ASSUME IInv, IInv', head' = head, tail' = tail,
           \A i \in 1 .. Dist(head, tail) :
              (IF i = 1 /\ consumer = "taken" THEN held
                                              ELSE slots[SlotAfter(head, i - 1)])'
              = IF i = 1 /\ consumer = "taken" THEN held
                                               ELSE slots[SlotAfter(head, i - 1)]
    PROVE  Queue' = Queue
<1>1. QueueShape /\ QueueShape'
  BY QueueFacts, QueueFactsNext
<1>2. Dist(head, tail)' = Dist(head, tail)
  OBVIOUS
<1>3. /\ Len(Queue') = Len(Queue)
      /\ Queue \in Seq(Items) /\ Queue' \in Seq(Items)
      /\ \A i \in 1 .. Len(Queue) : Queue'[i] = Queue[i]
  BY <1>1, <1>2 DEF QueueShape
<1> QED
  BY <1>3, SeqEqual

LEMMA StutterSteps ==
    ASSUME IInv, IInv',
           Refuse \/ WriteSlot \/ FindEmpty \/ TakeSlot \/ PeekSlot
             \/ UNCHANGED vars
             \/ (\E x \in Items : LoadHead(x)) \/ LoadTail("pop") \/ LoadTail("peek")
    PROVE  Queue' = Queue /\ got' = got
<1>1. CASE WriteSlot
  <2>1. head' = head /\ tail' = tail /\ held' = held /\ consumer' = consumer /\ got' = got
        /\ slots' = [slots EXCEPT ![tail] = item]
    BY <1>1 DEF WriteSlot, consumerVars
  <2>2. \A i \in 1 .. Dist(head, tail) :
          slots'[SlotAfter(head, i - 1)] = slots[SlotAfter(head, i - 1)]
    BY <2>1, InQueue DEF IInv, TypeOK
  <2> QED
    BY <2>1, <2>2, QueueKept
<1>2. CASE TakeSlot
  <2>1. head' = head /\ tail' = tail /\ got' = got /\ consumer' = "taken"
        /\ held' = slots[head] /\ consumer # "taken"
        /\ slots' = [slots EXCEPT ![head] = None]
    BY <1>2 DEF TakeSlot, producerVars
  <2>2. \A i \in 1 .. Dist(head, tail) : i # 1 =>
          slots'[SlotAfter(head, i - 1)] = slots[SlotAfter(head, i - 1)]
    BY <2>1, InQueue DEF IInv, TypeOK
  <2>3. \A i \in 1 .. Dist(head, tail) : i = 1 => SlotAfter(head, i - 1) = head
    BY InQueue
  <2> QED
    BY <2>1, <2>2, <2>3, QueueKept
<1>3. CASE ~WriteSlot /\ ~TakeSlot
  <2>1. head' = head /\ tail' = tail /\ slots' = slots /\ held' = held /\ got' = got
        /\ (consumer' = "taken" <=> consumer = "taken")
    BY <1>3 DEF Refuse, FindEmpty, PeekSlot, LoadHead, LoadTail, vars, producerVars,
      consumerVars
  <2> QED
    BY <2>1, QueueKept
<1> QED
  BY <1>1, <1>2, <1>3

\* Storing tail puts the item at the end of the queue, where there is room.
LEMMA StoreTailPuts ==
    ASSUME IInv, IInv', StoreTail
    PROVE  item \in Items /\ Fifo!Put(item)
<1>1. head' = head /\ slots' = slots /\ held' = held /\ consumer' = consumer /\ got' = got
      /\ tail' = Succ(tail)
  BY DEF StoreTail, consumerVars
<1>2. /\ item \in Items /\ slots[tail] = item /\ Succ(tail) # headSeen
      /\ head \in Slots /\ tail \in Slots
  BY DEF StoreTail, IInv, MidCall, TypeOK
<1>3. Succ(tail) # head
  BY <1>2, Apart DEF IInv, IndexOrder, TypeOK
<1>4. Dist(head, tail') = Dist(head, tail) + 1
  BY <1>1, <1>2, <1>3, SuccFacts
<1>5. Dist(head, tail) \in Nat /\ Dist(head, tail) < Capacity - 1
  BY <1>2, <1>3, RingAssumption DEF Succ, Dist, Slots
<1>6. QueueShape /\ QueueShape'
  BY QueueFacts, QueueFactsNext
<1>7. /\ Append(Queue, item) \in Seq(Items)
      /\ Len(Append(Queue, item)) = Len(Queue) + 1
      /\ \A i \in 1 .. Len(Queue) : Append(Queue, item)[i] = Queue[i]
      /\ Append(Queue, item)[Len(Queue) + 1] = item
  BY <1>2, <1>6, AppendProperties DEF QueueShape
<1>8. SlotAfter(head, Dist(head, tail)) = tail
  BY <1>2, RingAssumption DEF SlotAfter, Dist, Slots
<1>9. consumer = "taken" => Dist(head, tail) # 0
  BY <1>2, Apart, SuccFacts DEF IInv, MidCall, IndexOrder, TypeOK
<1>10. \A i \in 1 .. Dist(head, tail) : Queue'[i] = Queue[i]
  BY <1>1, <1>4, <1>5, <1>6 DEF QueueShape
<1>11. Queue'[Dist(head, tail) + 1] = item
  <2> DEFINE n == Dist(head, tail) + 1
  <2>1. n \in 1 .. Dist(head, tail') /\ n - 1 = Dist(head, tail)
    BY <1>4, <1>5
  <2>2. ~(n = 1 /\ consumer = "taken")
    BY <1>5, <1>9
  <2>3. SlotAfter(head, n - 1) = tail
    BY <1>8, <2>1
  <2> HIDE DEF n
  <2>4. Queue'[n] = slots[SlotAfter(head, n - 1)]
    BY <1>1, <1>6, <2>1, <2>2 DEF QueueShape
  <2> QED
    BY <1>2, <2>3, <2>4 DEF n
<1>12. Queue' = Append(Queue, item)
  <2>1. Len(Queue) = Dist(head, tail) /\ Len(Queue') = Dist(head, tail) + 1
    BY <1>1, <1>4, <1>6 DEF QueueShape
  <2>2. \A i \in 1 .. Len(Queue') : Queue'[i] = Append(Queue, item)[i]
    BY <1>5, <1>7, <1>10, <1>11, <2>1
  <2> QED
    BY <1>6, <1>7, <2>1, <2>2, SeqEqual DEF QueueShape
<1> QED
  BY <1>1, <1>2, <1>5, <1>6, <1>12 DEF Fifo!Put, QueueShape

\* Storing head takes the item at its front and returns it.
LEMMA StoreHeadTakes ==
    ASSUME IInv, IInv', StoreHead
    PROVE  Fifo!Take
<1>1. tail' = tail /\ slots' = slots /\ consumer = "taken" /\ consumer' = "idle"
      /\ head' = Succ(head) /\ got' = Append(got, held)
  BY DEF StoreHead, producerVars
<1>2. head \in Slots /\ tail \in Slots
  BY DEF IInv, TypeOK
<1>3. head # tail
  BY <1>1, NotEmpty DEF IInv, MidCall, Empty
<1>4. /\ Dist(head', tail) = Dist(head, tail) - 1
      /\ Dist(head, tail) \in Nat /\ Dist(head, tail) > 0
      /\ Dist(head, tail) <= Capacity - 1
  BY <1>1, <1>2, <1>3, RingAssumption DEF Dist, Slots, Succ
<1>5. QueueShape /\ QueueShape'
  BY QueueFacts, QueueFactsNext
<1>6. Len(Queue) = Dist(head, tail) /\ Len(Queue') = Dist(head, tail) - 1
  BY <1>1, <1>4, <1>5 DEF QueueShape
<1>7. Queue # <<>> /\ Queue[1] = held
  BY <1>1, <1>4, <1>5, <1>6 DEF QueueShape
<1>8. /\ Head(Queue) = held
      /\ Tail(Queue) \in Seq(Items)
      /\ Len(Tail(Queue)) = Len(Queue) - 1
      /\ \A i \in 1 .. Len(Tail(Queue)) : Tail(Queue)[i] = Queue[i + 1]
  BY <1>5, <1>7, HeadTailProperties DEF QueueShape
<1>9. \A i \in 1 .. Len(Queue') : Queue'[i] = Queue[i + 1]
  <2> SUFFICES ASSUME NEW i \in 1 .. Len(Queue')
               PROVE  Queue'[i] = Queue[i + 1]
    OBVIOUS
  <2>1. /\ i \in 1 .. Dist(head', tail) /\ i + 1 \in 1 .. Dist(head, tail)
        /\ i + 1 # 1 /\ (i + 1) - 1 = i /\ i - 1 \in 0 .. Capacity - 1
        /\ i \in 0 .. Capacity - 1 /\ i = (i - 1) + 1
    BY <1>4, <1>6, RingAssumption
  <2>2. Queue'[i] = slots[SlotAfter(head', i - 1)]
    BY <1>1, <1>5, <2>1 DEF QueueShape
  <2>3. Queue[i + 1] = slots[SlotAfter(head, (i + 1) - 1)]
    BY <1>5, <2>1 DEF QueueShape
  <2>4. SlotAfter(head, i) = SlotAfter(Succ(head), i - 1)
    BY <1>2, <2>1, SlotAfterFacts
  <2> QED
    BY <1>1, <2>1, <2>2, <2>3, <2>4
<1>10. Queue' = Tail(Queue)
  BY <1>5, <1>6, <1>8, <1>9, SeqEqual DEF QueueShape
<1> QED
  BY <1>1, <1>7, <1>8, <1>10 DEF Fifo!Take

\* The ring is a bounded queue of Capacity - 1 items, for every capacity and
\* however stale the indices the two ends load from each other.
THEOREM RingRefines == Spec => ImplementsFifo
<1>1. Init => Fifo!FifoInit
  <2> SUFFICES ASSUME Init PROVE Queue = <<>> /\ got = <<>>
    BY DEF Fifo!FifoInit
  <2>1. Dist(head, tail) = 0
    BY DEF Init, Dist
  <2>2. QueueShape
    BY InitInv, QueueFacts
  <2> QED
    BY <2>1, <2>2, EmptySeq DEF Init, QueueShape
<1>2. IInv /\ IInv' /\ [Next]_vars => [Fifo!FifoNext]_(Fifo!fifoVars)
  <2> SUFFICES ASSUME IInv, IInv', [Next]_vars
               PROVE  Fifo!FifoNext \/ UNCHANGED <<Queue, got>>
    BY DEF Fifo!fifoVars
  <2>1. CASE StoreTail
    BY <2>1, StoreTailPuts DEF Fifo!FifoNext
  <2>2. CASE StoreHead
    BY <2>2, StoreHeadTakes DEF Fifo!FifoNext
  <2>3. CASE ~StoreTail /\ ~StoreHead
    BY <2>3, StutterSteps DEF Next, Push, Pop, Peek
  <2> QED
    BY <2>1, <2>2, <2>3
<1> QED
  BY <1>1, <1>2, Invariance, PTL DEF Spec, ImplementsFifo, Fifo!FifoSpec
=============================================================================
