--------------------------- MODULE CommandPath_proofs ---------------------------
(***************************************************************************)
(* A command that push() accepted is executed in its turn and at its       *)
(* sample, for every capacity of the queue, any number of producers, any   *)
(* sizes of blocks and chunks and any timestamps.                          *)
(*                                                                         *)
(* First the queue, which is MpscRing's alone: it is a bounded FIFO for    *)
(* every capacity from two and any interleaving of its producers.  The     *)
(* argument follows the window of positions First .. First + Capacity - 1, *)
(* whose slots are pairwise different.  The sequence number of each of     *)
(* these slots says what has become of the position: q + 1 if its item is  *)
(* published, q if it is free or its producer is still writing.  When the  *)
(* consumer releases a slot the window moves by one, and the slot it       *)
(* leaves is the one it gains.                                             *)
(*                                                                         *)
(* Then the kernel, which only ever touches the queue through pop(), so    *)
(* that the queue's invariant and refinement carry over.  On top of them   *)
(* KInv says that the kernel holds at most one command, the next to be     *)
(* executed, and that the positions seen to wait when the block began      *)
(* stay published until they are popped.                                   *)
(***************************************************************************)
EXTENDS CommandPath, SequenceTheorems, TLAPS

-----------------------------------------------------------------------------
(***************************************************************************)
(* Positions and slots.                                                    *)
(***************************************************************************)
LEMMA DivMod ==
    ASSUME NEW C \in Nat, C > 0, NEW q \in Nat
    PROVE  /\ q \div C \in Nat /\ q % C \in 0 .. C - 1
           /\ q = C * (q \div C) + (q % C)
BY Z3

LEMMA QuotientUnique ==
    ASSUME NEW C \in Nat, C > 0, NEW k \in Int, NEW l \in Int,
           NEW a \in 0 .. C - 1, NEW b \in 0 .. C - 1,
           C * k + a = C * l + b
    PROVE  k = l /\ a = b
<1>1. C * (k - l) = b - a
  OBVIOUS
<1>2. CASE k - l >= 1
  <2>1. C * (k - l) >= C
    BY <1>2
  <2> QED
    BY <1>1, <2>1
<1>3. CASE k - l =< -1
  <2>1. C * (k - l) =< -C
    BY <1>3
  <2> QED
    BY <1>1, <2>1
<1>4. CASE k = l
  BY <1>4
<1> QED
  BY <1>2, <1>3, <1>4

LEMMA SlotType == \A q \in Nat : Slot(q) \in Slots
BY DivMod, MpscAssumption DEF Slot, Slots

\* The first lap goes through the slots in their order.
LEMMA SlotOfFirstLap == \A q \in Slots : Slot(q) = q
<1> SUFFICES ASSUME NEW q \in Slots PROVE Slot(q) = q
  OBVIOUS
<1> DEFINE k == q \div Capacity
           a == Slot(q)
<1>1. Capacity \in Nat /\ Capacity > 0 /\ q \in Nat /\ q \in 0 .. Capacity - 1
  BY MpscAssumption DEF Slots
<1>2. k \in Int /\ a \in 0 .. Capacity - 1 /\ q = Capacity * k + a
  BY <1>1, DivMod DEF Slot
<1> HIDE DEF k, a
<1>3. Capacity * 0 + q = Capacity * k + a
  BY <1>1, <1>2
<1>4. q = a
  BY <1>1, <1>2, <1>3, QuotientUnique
<1> QED
  BY <1>4 DEF a

\* A position and the one a lap later share their slot,
LEMMA SlotOfNextLap == \A q \in Nat : Slot(q + Capacity) = Slot(q)
<1> SUFFICES ASSUME NEW q \in Nat PROVE Slot(q + Capacity) = Slot(q)
  OBVIOUS
<1> DEFINE k == q \div Capacity
           l == (q + Capacity) \div Capacity
           a == Slot(q)
           b == Slot(q + Capacity)
<1>1. Capacity \in Nat /\ Capacity > 0 /\ q + Capacity \in Nat
  BY MpscAssumption
<1>2. k \in Nat /\ a \in 0 .. Capacity - 1 /\ q = Capacity * k + a
  BY <1>1, DivMod DEF Slot
<1>3. l \in Nat /\ b \in 0 .. Capacity - 1 /\ q + Capacity = Capacity * l + b
  BY <1>1, DivMod DEF Slot
<1> HIDE DEF k, l, a, b
<1>4. Capacity * (k + 1) + a = Capacity * l + b
  BY <1>1, <1>2, <1>3
<1>5. k + 1 \in Int /\ l \in Int
  BY <1>2, <1>3
<1>6. a = b
  BY <1>1, <1>2, <1>3, <1>4, <1>5, QuotientUnique
<1> QED
  BY <1>6 DEF a, b

\* and positions that are less than a lap apart do not.
LEMMA SlotsApart ==
    ASSUME NEW q \in Nat, NEW r \in Nat, q # r, q < r + Capacity, r < q + Capacity
    PROVE  Slot(q) # Slot(r)
<1>1. ASSUME NEW x \in Nat, NEW y \in Nat, x > y, Slot(x) = Slot(y)
      PROVE  x >= y + Capacity
  <2> DEFINE k == x \div Capacity
             l == y \div Capacity
  <2>1. Capacity \in Nat /\ Capacity > 0
    BY MpscAssumption
  <2>2. /\ k \in Nat /\ l \in Nat /\ Slot(x) \in Nat
        /\ x = Capacity * k + Slot(x)
        /\ y = Capacity * l + Slot(y)
    BY <2>1, DivMod DEF Slot
  <2> HIDE DEF k, l
  <2>3. x - y = Capacity * (k - l)
    BY <2>1, <2>2, <1>1
  <2>4. CASE k - l >= 1
    <3>1. Capacity * (k - l) >= Capacity
      BY <2>1, <2>2, <2>4
    <3> QED
      BY <2>1, <2>3, <3>1
  <2>5. CASE k - l =< 0
    <3>1. Capacity * (k - l) =< 0
      BY <2>1, <2>2, <2>5
    <3> QED
      BY <2>3, <3>1, <1>1
  <2> QED
    BY <2>2, <2>4, <2>5
<1> QED
  BY <1>1, MpscAssumption

-----------------------------------------------------------------------------
(***************************************************************************)
(* The inductive invariant.                                                *)
(***************************************************************************)
Claimed(p) == push[p] \in {"write", "publish"}

\* A producer has claimed q and not published it.
InWrite(q) == \E p \in Producers : Claimed(p) /\ pos[p] = q

Window == First .. First + Capacity - 1

Bounds ==
    /\ First \in Nat
    /\ First =< tail /\ tail =< First + Capacity
    /\ Len(accepted) = tail

\* What a producer knows in the middle of its call.
ProducersKnow ==
    \A p \in Producers :
        /\ push[p] # "idle" => item[p] \in Items
        /\ push[p] \in {"look", "cas"} => pos[p] =< tail
        /\ push[p] = "cas" => pos[p] < First + Capacity
        /\ Claimed(p) =>
            /\ First =< pos[p] /\ pos[p] < tail
            /\ item[p] = accepted[pos[p] + 1]

\* No position is claimed twice.
ClaimsDiffer ==
    \A p, r \in Producers :
        Claimed(p) /\ Claimed(r) /\ pos[p] = pos[r] => p = r

NumbersTell ==
    \A q \in Window :
        sequences[Slot(q)] = IF q < tail /\ ~InWrite(q) THEN q + 1 ELSE q

ItemsAreThere ==
    /\ \A q \in Window :
         q < tail /\ ~InWrite(q) /\ ~(q = First /\ pop = "release")
           => buffer[Slot(q)] = accepted[q + 1]
    /\ \A p \in Producers : push[p] = "publish" => buffer[Slot(pos[p])] = item[p]

ConsumerKnows ==
    /\ pop \in {"cas", "take", "release"} => sequences[Slot(First)] = First + 1
    /\ pop = "release" => held = accepted[First + 1]

IInv ==
    /\ RingTypeOK /\ Bounds /\ ProducersKnow /\ ClaimsDiffer
    /\ NumbersTell /\ ItemsAreThere /\ ConsumerKnows

-----------------------------------------------------------------------------
LEMMA InitInv == RingInit => IInv
<1> SUFFICES ASSUME RingInit PROVE IInv
  OBVIOUS
<1> USE MpscAssumption DEF RingInit
<1>1. First = 0
  BY DEF First
<1>2. RingTypeOK
  BY EmptySeq DEF RingTypeOK, Slots
<1>3. Bounds
  BY <1>1 DEF Bounds
<1>4. Window = Slots
  BY <1>1 DEF Window, Slots
<1>5. NumbersTell
  BY <1>4, SlotOfFirstLap DEF NumbersTell, Slots
<1>6. ProducersKnow /\ ClaimsDiffer /\ ItemsAreThere /\ ConsumerKnows
  BY <1>4 DEF ProducersKnow, ClaimsDiffer, ItemsAreThere, ConsumerKnows, Claimed, Slots
<1> QED
  BY <1>2, <1>3, <1>5, <1>6 DEF IInv

\* Two positions of the window have their own slots.
LEMMA WindowApart ==
    ASSUME IInv, NEW q \in Window, NEW r \in Window, q # r
    PROVE  /\ q \in Nat /\ r \in Nat /\ Slot(q) \in Slots /\ Slot(r) \in Slots
           /\ Slot(q) # Slot(r)
BY SlotsApart, SlotType, MpscAssumption DEF IInv, Bounds, Window

LEMMA WindowSlots ==
    ASSUME IInv
    PROVE  /\ Window \subseteq Nat
           /\ First \in Window
           /\ \A q \in Window : Slot(q) \in Slots
           /\ \A p \in Producers : Claimed(p) => pos[p] \in Window
BY SlotType, MpscAssumption
   DEF IInv, Bounds, Window, ProducersKnow, RingTypeOK

\* The item pop() has found is published.
LEMMA FoundIsPublished ==
    ASSUME IInv, pop \in {"cas", "take", "release"}
    PROVE  First < tail /\ ~InWrite(First)
<1>1. First \in Window
  BY WindowSlots
<1>2. sequences[Slot(First)] = First + 1
  BY DEF IInv, ConsumerKnows
<1> QED
  BY <1>1, <1>2 DEF IInv, NumbersTell, Bounds

-----------------------------------------------------------------------------
(***************************************************************************)
(* The producers.                                                          *)
(***************************************************************************)
\* A step of a producer that has claimed nothing, and that claims nothing.
LEMMA AsideStep ==
    ASSUME IInv, NEW p \in Producers, ~Claimed(p),
           NEW place \in {"idle", "load", "look", "cas"},
           NEW at \in Nat, NEW x \in Items \cup {None},
           place # "idle" => x \in Items,
           place \in {"look", "cas"} => at =< tail,
           place = "cas" => at < First + Capacity,
           push' = [push EXCEPT ![p] = place],
           pos' = [pos EXCEPT ![p] = at],
           item' = [item EXCEPT ![p] = x],
           begun' \in Nat,
           UNCHANGED <<buffer, sequences, head, tail, accepted, consumerVars>>
    PROVE  IInv'
<1> USE DEF consumerVars
<1>1. First' = First /\ Window' = Window
  BY DEF First, Window
<1>2. \A r \in Producers : Claimed(r)' <=> Claimed(r)
  BY DEF Claimed, IInv, RingTypeOK
<1>3. \A r \in Producers : r # p => push'[r] = push[r] /\ pos'[r] = pos[r] /\ item'[r] = item[r]
  BY DEF IInv, RingTypeOK
<1>4. push'[p] = place /\ pos'[p] = at /\ item'[p] = x
  BY DEF IInv, RingTypeOK
<1>5. \A q : InWrite(q)' <=> InWrite(q)
  BY <1>2, <1>3 DEF InWrite
<1>6. RingTypeOK'
  BY DEF IInv, RingTypeOK
<1>7. Bounds'
  BY <1>1 DEF IInv, Bounds
<1>8. ProducersKnow'
  <2> SUFFICES ASSUME NEW r \in Producers
               PROVE  ProducersKnow!(r)'
    BY DEF ProducersKnow
  <2>1. CASE r = p
    BY <2>1, <1>1, <1>2, <1>4
  <2>2. CASE r # p
    BY <2>2, <1>1, <1>2, <1>3 DEF IInv, ProducersKnow
  <2> QED
    BY <2>1, <2>2
<1>9. ClaimsDiffer'
  BY <1>2, <1>3 DEF IInv, ClaimsDiffer
<1>10. NumbersTell'
  BY <1>1, <1>5 DEF IInv, NumbersTell
<1>11. ItemsAreThere'
  BY <1>1, <1>3, <1>4, <1>5 DEF IInv, ItemsAreThere
<1>12. ConsumerKnows'
  BY <1>1 DEF IInv, ConsumerKnows
<1> QED
  BY <1>6, <1>7, <1>8, <1>9, <1>10, <1>11, <1>12 DEF IInv

\* A function updated at a point with what it has there.
LEMMA SameFunction ==
    ASSUME NEW S, NEW T, NEW f \in [S -> T], NEW a \in S
    PROVE  f = [f EXCEPT ![a] = f[a]]
OBVIOUS

LEMMA BeginPushStep ==
    ASSUME IInv, NEW p \in Producers, NEW x \in Items, BeginPush(p, x)
    PROVE  IInv'
<1>1. pos \in [Producers -> Nat] /\ begun \in Nat /\ ~Claimed(p)
  BY DEF IInv, RingTypeOK, BeginPush, Claimed
<1>2. pos' = [pos EXCEPT ![p] = pos[p]] /\ pos[p] \in Nat
  BY <1>1, SameFunction DEF BeginPush
<1>3. begun' \in Nat
  BY <1>1 DEF BeginPush
<1> QED
  BY <1>1, <1>2, <1>3, AsideStep DEF BeginPush, Goto

LEMMA LoadTailStep ==
    ASSUME IInv, NEW p \in Producers, LoadTail(p)
    PROVE  IInv'
<1>1. /\ item \in [Producers -> Items \cup {None}] /\ begun \in Nat /\ tail \in Nat
      /\ push[p] = "load" /\ ~Claimed(p) /\ item[p] \in Items
  BY DEF IInv, RingTypeOK, LoadTail, Claimed, ProducersKnow
<1>2. item' = [item EXCEPT ![p] = item[p]] /\ item[p] \in Items \cup {None}
  BY <1>1, SameFunction DEF LoadTail
<1>3. /\ push' = [push EXCEPT ![p] = "look"] /\ pos' = [pos EXCEPT ![p] = tail]
      /\ tail =< tail /\ begun' \in Nat
      /\ UNCHANGED <<buffer, sequences, head, tail, accepted, consumerVars>>
  BY <1>1 DEF LoadTail, Goto
<1> QED
  BY <1>1, <1>2, <1>3, AsideStep

\* The steps that only move on, with the item and the position they have.
LEMMA MoveOnStep ==
    ASSUME IInv, NEW p \in Producers, NEW place \in {"load", "look", "cas"},
           push[p] \in {"look", "cas"}, Goto(p, place),
           place = "cas" => pos[p] < First + Capacity,
           UNCHANGED <<buffer, sequences, head, tail, pos, item, begun, accepted, consumerVars>>
    PROVE  IInv'
<1> DEFINE at == pos[p]
           x == item[p]
<1>1. /\ item \in [Producers -> Items \cup {None}] /\ begun \in Nat
      /\ pos \in [Producers -> Nat] /\ ~Claimed(p) /\ x \in Items /\ at =< tail
      /\ at \in Nat
  BY DEF IInv, RingTypeOK, Claimed, ProducersKnow
<1>2. item' = [item EXCEPT ![p] = x] /\ pos' = [pos EXCEPT ![p] = at]
  BY <1>1, SameFunction
<1>3. push' = [push EXCEPT ![p] = place] /\ begun' \in Nat
  BY <1>1 DEF Goto
<1>4. /\ UNCHANGED <<buffer, sequences, head, tail, accepted, consumerVars>>
      /\ place = "cas" => at < First + Capacity
  OBVIOUS
<1>5. place \in {"idle", "load", "look", "cas"} /\ x \in Items \cup {None}
  BY <1>1
<1> HIDE DEF at, x
<1> QED
  BY <1>1, <1>2, <1>3, <1>4, <1>5, AsideStep

\* A free slot is inside the window: the one a lap ahead of First holds
\* either First or First + 1.
LEMMA FreeIsInside ==
    ASSUME IInv, NEW p \in Producers, push[p] = "look", IsFree(p)
    PROVE  pos[p] < First + Capacity
<1>1. pos[p] \in Nat /\ pos[p] =< tail /\ tail =< First + Capacity /\ First \in Nat /\ tail \in Nat
  BY DEF IInv, ProducersKnow, Bounds, RingTypeOK
<1>2. SUFFICES ASSUME pos[p] = First + Capacity PROVE FALSE
  BY <1>1, MpscAssumption
<1>3. Slot(pos[p]) = Slot(First)
  BY <1>1, <1>2, SlotOfNextLap
<1>4. sequences[Slot(First)] \in {First, First + 1}
  BY <1>1, WindowSlots DEF IInv, NumbersTell
<1> QED
  BY <1>1, <1>2, <1>3, <1>4, MpscAssumption DEF IsFree

LEMMA LookSteps ==
    ASSUME IInv, NEW p \in Producers, LookFree(p) \/ LookPassed(p) \/ ClaimFails(p)
    PROVE  IInv'
<1>1. CASE LookFree(p)
  BY <1>1, FreeIsInside, MoveOnStep DEF LookFree
<1>2. CASE LookPassed(p)
  BY <1>2, MoveOnStep DEF LookPassed
<1>3. CASE ClaimFails(p)
  BY <1>3, MoveOnStep DEF ClaimFails
<1> QED
  BY <1>1, <1>2, <1>3

LEMMA RefuseStep ==
    ASSUME IInv, NEW p \in Producers, Refuse(p)
    PROVE  IInv'
<1>1. pos \in [Producers -> Nat] /\ begun \in Nat /\ ~Claimed(p)
  BY DEF IInv, RingTypeOK, Refuse, Claimed
<1>2. pos' = [pos EXCEPT ![p] = pos[p]] /\ pos[p] \in Nat
  BY <1>1, SameFunction DEF Refuse
<1> QED
  BY <1>1, <1>2, AsideStep DEF Refuse, Goto

\* Claiming: the position claimed is the first one nobody has, and free.
LEMMA ClaimStep ==
    ASSUME IInv, NEW p \in Producers, Claim(p)
    PROVE  IInv'
<1> USE DEF consumerVars
<1>0. /\ push[p] = "cas" /\ pos[p] = tail /\ tail \in Nat /\ ~Claimed(p)
      /\ item[p] \in Items /\ tail < First + Capacity /\ First \in Nat
      /\ First =< tail /\ Capacity \in Nat
      /\ push \in [Producers -> {"idle", "load", "look", "cas", "write", "publish"}]
      /\ accepted \in Seq(Items) /\ Len(accepted) = tail
  BY MpscAssumption DEF Claim, IInv, RingTypeOK, ProducersKnow, Bounds, Claimed
<1>1. /\ First' = First /\ Window' = Window
      /\ UNCHANGED <<buffer, sequences, head, pos, item, begun, pop, held, got>>
      /\ tail' = tail + 1 /\ accepted' = Append(accepted, item[p])
  BY DEF First, Window, Claim
<1>2. push'[p] = "write" /\ \A r \in Producers : r # p => push'[r] = push[r]
  BY <1>0 DEF Claim, Goto
<1>3. \A r \in Producers : Claimed(r)' <=> Claimed(r) \/ r = p
  BY <1>2 DEF Claimed
<1>4. \A q : InWrite(q)' <=> InWrite(q) \/ q = tail
  BY <1>0, <1>1, <1>3 DEF InWrite
<1>5. /\ accepted' \in Seq(Items) /\ Len(accepted') = tail + 1
      /\ accepted'[tail + 1] = item[p]
      /\ \A i \in 1 .. tail : accepted'[i] = accepted[i]
  BY <1>0, <1>1
<1>6. RingTypeOK'
  BY <1>0, <1>1, <1>5 DEF IInv, RingTypeOK, Claim, Goto
<1>7. Bounds'
  BY <1>0, <1>1, <1>5 DEF Bounds
<1>8. ProducersKnow'
  <2> SUFFICES ASSUME NEW r \in Producers
               PROVE  ProducersKnow!(r)'
    BY DEF ProducersKnow
  <2>1. CASE r = p
    BY <2>1, <1>0, <1>1, <1>2, <1>3, <1>5
  <2>2. CASE r # p
    <3>1. ProducersKnow!(r) /\ pos[r] \in Nat
      BY DEF IInv, ProducersKnow, RingTypeOK
    <3>2. Claimed(r)' <=> Claimed(r)
      BY <2>2, <1>3
    <3>3. Claimed(r) => pos[r] + 1 \in 1 .. tail
      BY <3>1, <1>0
    <3> QED
      BY <2>2, <3>1, <3>2, <3>3, <1>0, <1>1, <1>2, <1>5
  <2> QED
    BY <2>1, <2>2
<1>9. ClaimsDiffer'
  <2>1. \A r \in Producers : Claimed(r) => pos[r] < tail /\ pos[r] \in Nat
    BY DEF IInv, ProducersKnow, RingTypeOK
  <2> QED
    BY <2>1, <1>0, <1>1, <1>3 DEF IInv, ClaimsDiffer
<1>10. NumbersTell'
  <2> SUFFICES ASSUME NEW q \in Window
               PROVE  sequences[Slot(q)] = IF q < tail + 1 /\ ~InWrite(q)' THEN q + 1 ELSE q
    BY <1>1 DEF NumbersTell
  <2>1. q \in Nat
    BY WindowSlots
  <2>2. sequences[Slot(q)] = IF q < tail /\ ~InWrite(q) THEN q + 1 ELSE q
    BY DEF IInv, NumbersTell
  <2> QED
    BY <2>1, <2>2, <1>0, <1>4
<1>11. ItemsAreThere'
  <2>1. ASSUME NEW q \in Window, q < tail + 1, ~InWrite(q)', ~(q = First /\ pop = "release")
        PROVE  buffer[Slot(q)] = accepted'[q + 1]
    <3>1. q \in Nat /\ q < tail /\ ~InWrite(q) /\ q + 1 \in 1 .. tail
      BY <2>1, <1>0, <1>4, WindowSlots
    <3> QED
      BY <2>1, <3>1, <1>5 DEF IInv, ItemsAreThere
  <2>2. \A r \in Producers : push'[r] = "publish" => buffer[Slot(pos[r])] = item[r]
    BY <1>2 DEF IInv, ItemsAreThere
  <2> QED
    BY <2>1, <2>2, <1>1 DEF ItemsAreThere
<1>12. ConsumerKnows'
  <2>1. pop = "release" => First + 1 \in 1 .. tail
    BY FoundIsPublished, <1>0
  <2> QED
    BY <2>1, <1>1, <1>5 DEF IInv, ConsumerKnows
<1> QED
  BY <1>6, <1>7, <1>8, <1>9, <1>10, <1>11, <1>12 DEF IInv

\* The slot written is that of the position claimed and of no other.
LEMMA WriteSlotStep ==
    ASSUME IInv, NEW p \in Producers, WriteSlot(p)
    PROVE  IInv'
<1> USE DEF consumerVars
<1>0. /\ push[p] = "write" /\ Claimed(p) /\ pos[p] \in Window
      /\ item[p] \in Items \cup {None}
      /\ push \in [Producers -> {"idle", "load", "look", "cas", "write", "publish"}]
      /\ buffer \in [Slots -> Items \cup {None}]
  BY WindowSlots DEF WriteSlot, IInv, RingTypeOK, Claimed
<1>1. /\ First' = First /\ Window' = Window
      /\ UNCHANGED <<sequences, head, tail, pos, item, begun, accepted, pop, held, got>>
      /\ buffer' = [buffer EXCEPT ![Slot(pos[p])] = item[p]]
  BY DEF First, Window, WriteSlot
<1>2. push'[p] = "publish" /\ \A r \in Producers : r # p => push'[r] = push[r]
  BY <1>0 DEF WriteSlot, Goto
<1>3. \A r \in Producers : Claimed(r)' <=> Claimed(r)
  BY <1>0, <1>2 DEF Claimed
<1>4. \A q : InWrite(q)' <=> InWrite(q)
  BY <1>1, <1>3 DEF InWrite
<1>5. /\ buffer'[Slot(pos[p])] = item[p]
      /\ \A q \in Window : q # pos[p] => buffer'[Slot(q)] = buffer[Slot(q)]
  BY <1>0, <1>1, WindowApart, WindowSlots
<1>6. RingTypeOK'
  BY <1>0, <1>1 DEF IInv, RingTypeOK, WriteSlot, Goto
<1>7. Bounds' /\ ConsumerKnows'
  BY <1>1 DEF IInv, Bounds, ConsumerKnows
<1>8. ProducersKnow'
  <2> SUFFICES ASSUME NEW r \in Producers
               PROVE  ProducersKnow!(r)'
    BY DEF ProducersKnow
  <2>1. ProducersKnow!(r)
    BY DEF IInv, ProducersKnow
  <2> QED
    BY <2>1, <1>0, <1>1, <1>2, <1>3
<1>9. ClaimsDiffer'
  BY <1>1, <1>3 DEF IInv, ClaimsDiffer
<1>10. NumbersTell'
  BY <1>1, <1>4 DEF IInv, NumbersTell
<1>11. ItemsAreThere'
  <2>1. ASSUME NEW q \in Window, q < tail, ~InWrite(q), ~(q = First /\ pop = "release")
        PROVE  buffer'[Slot(q)] = accepted[q + 1]
    <3>1. q # pos[p]
      BY <2>1, <1>0 DEF InWrite
    <3> QED
      BY <2>1, <3>1, <1>5 DEF IInv, ItemsAreThere
  <2>2. ASSUME NEW r \in Producers, push'[r] = "publish"
        PROVE  buffer'[Slot(pos[r])] = item[r]
    <3>1. CASE r = p
      BY <3>1, <1>5
    <3>2. CASE r # p
      <4>1. push[r] = "publish" /\ Claimed(r)
        BY <2>2, <3>2, <1>2 DEF Claimed
      <4>2. pos[r] \in Window /\ pos[r] # pos[p]
        BY <4>1, <3>2, <1>0, WindowSlots DEF IInv, ClaimsDiffer
      <4> QED
        BY <4>1, <4>2, <1>5 DEF IInv, ItemsAreThere
    <3> QED
      BY <3>1, <3>2
  <2> QED
    BY <2>1, <2>2, <1>1, <1>4 DEF ItemsAreThere
<1> QED
  BY <1>6, <1>7, <1>8, <1>9, <1>10, <1>11 DEF IInv

\* Publishing: the position is nobody's any more and its number says so.
LEMMA PublishStep ==
    ASSUME IInv, NEW p \in Producers, Publish(p)
    PROVE  IInv'
<1> USE DEF consumerVars
<1>0. /\ push[p] = "publish" /\ Claimed(p) /\ pos[p] \in Window /\ pos[p] \in Nat
      /\ pos[p] < tail /\ item[p] = accepted[pos[p] + 1]
      /\ push \in [Producers -> {"idle", "load", "look", "cas", "write", "publish"}]
      /\ item \in [Producers -> Items \cup {None}]
      /\ sequences \in [Slots -> Nat]
  BY WindowSlots DEF Publish, IInv, RingTypeOK, Claimed, ProducersKnow
<1>1. /\ First' = First /\ Window' = Window
      /\ UNCHANGED <<buffer, head, tail, pos, begun, accepted, pop, held, got>>
      /\ sequences' = [sequences EXCEPT ![Slot(pos[p])] = pos[p] + 1]
  BY DEF First, Window, Publish
<1>2. /\ push'[p] = "idle" /\ item'[p] = None
      /\ \A r \in Producers : r # p => push'[r] = push[r] /\ item'[r] = item[r]
  BY <1>0 DEF Publish, Goto
<1>3. \A r \in Producers : Claimed(r)' <=> Claimed(r) /\ r # p
  BY <1>0, <1>2 DEF Claimed
<1>4. \A q : InWrite(q)' <=> InWrite(q) /\ q # pos[p]
  BY <1>0, <1>1, <1>3 DEF InWrite, IInv, ClaimsDiffer
<1>5. /\ sequences'[Slot(pos[p])] = pos[p] + 1
      /\ \A q \in Window : q # pos[p] => sequences'[Slot(q)] = sequences[Slot(q)]
  BY <1>0, <1>1, WindowApart, WindowSlots
<1>6. RingTypeOK'
  <2> DEFINE s == Slot(pos[p])
             n == pos[p] + 1
  <2>0. sequences' = [sequences EXCEPT ![s] = n] /\ n \in Nat
    BY <1>0, <1>1
  <2> HIDE DEF s, n
  <2>1. sequences' \in [Slots -> Nat]
    BY <2>0, <1>0
  <2>2. /\ push' \in [Producers -> {"idle", "load", "look", "cas", "write", "publish"}]
        /\ item' \in [Producers -> Items \cup {None}]
    BY <1>0 DEF Publish, Goto
  <2> QED
    BY <2>1, <2>2, <1>1 DEF IInv, RingTypeOK
<1>7. Bounds'
  BY <1>1 DEF IInv, Bounds
<1>8. ProducersKnow'
  <2> SUFFICES ASSUME NEW r \in Producers
               PROVE  ProducersKnow!(r)'
    BY DEF ProducersKnow
  <2>1. ProducersKnow!(r)
    BY DEF IInv, ProducersKnow
  <2> QED
    BY <2>1, <1>0, <1>1, <1>2, <1>3
<1>9. ClaimsDiffer'
  BY <1>1, <1>3 DEF IInv, ClaimsDiffer
<1>10. NumbersTell'
  <2> SUFFICES ASSUME NEW q \in Window
               PROVE  sequences'[Slot(q)] = IF q < tail /\ ~InWrite(q)' THEN q + 1 ELSE q
    BY <1>1 DEF NumbersTell
  <2>1. CASE q = pos[p]
    BY <2>1, <1>0, <1>4, <1>5
  <2>2. CASE q # pos[p]
    BY <2>2, <1>4, <1>5 DEF IInv, NumbersTell
  <2> QED
    BY <2>1, <2>2
<1>11. ItemsAreThere'
  <2>1. ASSUME NEW q \in Window, q < tail, ~InWrite(q)', ~(q = First /\ pop = "release")
        PROVE  buffer[Slot(q)] = accepted[q + 1]
    <3>1. CASE q = pos[p]
      BY <3>1, <1>0 DEF IInv, ItemsAreThere
    <3>2. CASE q # pos[p]
      BY <3>2, <2>1, <1>4 DEF IInv, ItemsAreThere
    <3> QED
      BY <3>1, <3>2
  <2>2. \A r \in Producers : push'[r] = "publish" => buffer[Slot(pos[r])] = item'[r]
    BY <1>2 DEF IInv, ItemsAreThere
  <2> QED
    BY <2>1, <2>2, <1>1 DEF ItemsAreThere
<1>12. ConsumerKnows'
  <2>1. First \in Window
    BY WindowSlots
  <2> QED
    BY <2>1, <1>1, <1>5 DEF IInv, ConsumerKnows
<1> QED
  BY <1>6, <1>7, <1>8, <1>9, <1>10, <1>11, <1>12 DEF IInv

-----------------------------------------------------------------------------
(***************************************************************************)
(* The consumer.                                                           *)
(***************************************************************************)
\* Looking for an item and moving head: the window does not move.
LEMMA LookStep ==
    ASSUME IInv, BeginPop \/ FindNothing \/ FindReady \/ AdvanceHead
    PROVE  IInv'
<1> USE DEF producerVars
<1>0. head \in Nat /\ pop \in {"idle", "look", "cas", "take", "release"}
  BY DEF IInv, RingTypeOK
<1>1. /\ First' = First /\ Window' = Window
      /\ UNCHANGED <<buffer, sequences, tail, push, pos, item, begun, accepted, held, got>>
      /\ pop # "release" /\ pop' # "release" /\ head' \in Nat
      /\ pop' \in {"idle", "look", "cas", "take", "release"}
  BY <1>0 DEF First, Window, BeginPop, FindNothing, FindReady, AdvanceHead
<1>2. /\ \A r \in Producers : Claimed(r)' <=> Claimed(r)
      /\ \A q : InWrite(q)' <=> InWrite(q)
  BY <1>1 DEF Claimed, InWrite
<1>3. RingTypeOK' /\ Bounds'
  BY <1>1 DEF IInv, RingTypeOK, Bounds
<1>4. ProducersKnow'
  BY <1>1, <1>2 DEF IInv, ProducersKnow
<1>5. ClaimsDiffer'
  BY <1>1, <1>2 DEF IInv, ClaimsDiffer
<1>6. NumbersTell'
  BY <1>1, <1>2 DEF IInv, NumbersTell
<1>7. ItemsAreThere'
  BY <1>1, <1>2 DEF IInv, ItemsAreThere
<1>8. ConsumerKnows'
  <2>1. CASE BeginPop \/ FindNothing
    BY <2>1, <1>1 DEF BeginPop, FindNothing, ConsumerKnows
  <2>2. CASE FindReady
    BY <2>2, <1>1 DEF FindReady, IsReady, First, ConsumerKnows
  <2>3. CASE AdvanceHead
    BY <2>3, <1>1 DEF AdvanceHead, IInv, ConsumerKnows
  <2> QED
    BY <2>1, <2>2, <2>3
<1> QED
  BY <1>3, <1>4, <1>5, <1>6, <1>7, <1>8 DEF IInv

LEMMA TakeSlotStep ==
    ASSUME IInv, TakeSlot
    PROVE  IInv'
<1> USE DEF producerVars
<1>0. /\ pop = "take" /\ First = head - 1 /\ First \in Window /\ Slot(First) \in Slots
      /\ First < tail /\ ~InWrite(First) /\ First \in Nat /\ tail \in Nat
      /\ buffer \in [Slots -> Items \cup {None}]
      /\ accepted \in Seq(Items) /\ Len(accepted) = tail
  BY WindowSlots, FoundIsPublished DEF TakeSlot, First, IInv, RingTypeOK, Bounds
<1>1. /\ First' = First /\ Window' = Window
      /\ UNCHANGED <<sequences, head, tail, push, pos, item, begun, accepted, got>>
      /\ held' = buffer[Slot(First)] /\ pop' = "release"
      /\ buffer' = [buffer EXCEPT ![Slot(First)] = None]
  BY <1>0 DEF First, Window, TakeSlot
<1>2. /\ \A r \in Producers : Claimed(r)' <=> Claimed(r)
      /\ \A q : InWrite(q)' <=> InWrite(q)
  BY <1>1 DEF Claimed, InWrite
<1>3. held' = accepted[First + 1]
  BY <1>0, <1>1 DEF IInv, ItemsAreThere
<1>4. accepted[First + 1] \in Items
  BY <1>0
<1>5. \A q \in Window : q # First => buffer'[Slot(q)] = buffer[Slot(q)]
  BY <1>0, <1>1, WindowApart, WindowSlots
<1>6. RingTypeOK'
  BY <1>0, <1>1, <1>3, <1>4 DEF IInv, RingTypeOK
<1>7. Bounds' /\ ConsumerKnows'
  BY <1>0, <1>1, <1>3 DEF IInv, Bounds, ConsumerKnows
<1>8. ProducersKnow'
  BY <1>1, <1>2 DEF IInv, ProducersKnow
<1>9. ClaimsDiffer'
  BY <1>1, <1>2 DEF IInv, ClaimsDiffer
<1>10. NumbersTell'
  BY <1>1, <1>2 DEF IInv, NumbersTell
<1>11. ItemsAreThere'
  <2>1. ASSUME NEW q \in Window, q < tail, ~InWrite(q), q # First
        PROVE  buffer'[Slot(q)] = accepted[q + 1]
    BY <2>1, <1>5 DEF IInv, ItemsAreThere
  <2>2. ASSUME NEW r \in Producers, push[r] = "publish"
        PROVE  buffer'[Slot(pos[r])] = item[r]
    <3>1. Claimed(r) /\ pos[r] \in Window /\ pos[r] # First
      BY <2>2, <1>0, WindowSlots DEF Claimed, InWrite
    <3> QED
      BY <2>2, <3>1, <1>5 DEF IInv, ItemsAreThere
  <2> QED
    BY <2>1, <2>2, <1>1, <1>2 DEF ItemsAreThere
<1> QED
  BY <1>6, <1>7, <1>8, <1>9, <1>10, <1>11 DEF IInv

\* The window moves by one: its new position has the slot of the old one.
LEMMA ReleaseStep ==
    ASSUME IInv, Release
    PROVE  IInv'
<1> USE DEF producerVars
<1>0. /\ pop = "release" /\ First = head - 1 /\ head \in Nat /\ First \in Window /\ Slot(First) \in Slots
      /\ First < tail /\ ~InWrite(First) /\ First \in Nat /\ tail \in Nat
      /\ tail =< First + Capacity /\ Capacity \in Nat /\ Capacity >= 2
      /\ sequences \in [Slots -> Nat]
      /\ accepted \in Seq(Items) /\ Len(accepted) = tail /\ got \in Seq(Items)
      /\ held = accepted[First + 1]
  BY WindowSlots, FoundIsPublished, MpscAssumption
     DEF Release, First, IInv, RingTypeOK, Bounds, ConsumerKnows
<1>1. /\ First' = First + 1
      /\ UNCHANGED <<buffer, head, tail, push, pos, item, begun, accepted>>
      /\ held' = None /\ pop' = "idle" /\ got' = Append(got, held)
      /\ sequences' = [sequences EXCEPT ![Slot(First)] = First + Capacity]
  BY <1>0 DEF First, Release
<1>2. /\ \A r \in Producers : Claimed(r)' <=> Claimed(r)
      /\ \A q : InWrite(q)' <=> InWrite(q)
  BY <1>1 DEF Claimed, InWrite
<1>3. \A r \in Producers : Claimed(r) => pos[r] # First
  BY <1>0 DEF InWrite
<1>4. held \in Items
  BY <1>0
<1>5. /\ \A q \in Window : q # First => sequences'[Slot(q)] = sequences[Slot(q)]
      /\ sequences'[Slot(First + Capacity)] = First + Capacity
  BY <1>0, <1>1, WindowApart, WindowSlots, SlotOfNextLap
<1>6. \A q \in Window' : (q \in Window /\ q # First) \/ q = First + Capacity
  <2>1. Window' = First + 1 .. (First + 1) + Capacity - 1
    BY <1>1 DEF Window
  <2>2. Window = First .. First + Capacity - 1
    BY DEF Window
  <2> QED
    BY <2>1, <2>2, <1>0
<1>7. RingTypeOK'
  BY <1>0, <1>1, <1>4 DEF IInv, RingTypeOK
<1>8. Bounds' /\ ConsumerKnows'
  BY <1>0, <1>1 DEF IInv, Bounds, ConsumerKnows
<1>9. ProducersKnow'
  <2> SUFFICES ASSUME NEW r \in Producers
               PROVE  ProducersKnow!(r)'
    BY DEF ProducersKnow
  <2>1. ProducersKnow!(r) /\ pos[r] \in Nat
    BY DEF IInv, ProducersKnow, RingTypeOK
  <2> QED
    BY <2>1, <1>0, <1>1, <1>2, <1>3
<1>10. ClaimsDiffer'
  BY <1>1, <1>2 DEF IInv, ClaimsDiffer
<1>11. NumbersTell'
  <2> SUFFICES ASSUME NEW q \in Window'
               PROVE  sequences'[Slot(q)] = IF q < tail /\ ~InWrite(q) THEN q + 1 ELSE q
    BY <1>1, <1>2 DEF NumbersTell
  <2>1. CASE q \in Window /\ q # First
    BY <2>1, <1>5 DEF IInv, NumbersTell
  <2>2. CASE q = First + Capacity
    BY <2>2, <1>0, <1>5
  <2> QED
    BY <2>1, <2>2, <1>6
<1>12. ItemsAreThere'
  <2>1. ASSUME NEW q \in Window', q < tail, ~InWrite(q)
        PROVE  buffer[Slot(q)] = accepted[q + 1]
    <3>1. q \in Window /\ q # First
      BY <2>1, <1>0, <1>6
    <3> QED
      BY <2>1, <3>1 DEF IInv, ItemsAreThere
  <2> QED
    BY <2>1, <1>1, <1>2 DEF IInv, ItemsAreThere
<1> QED
  BY <1>7, <1>8, <1>9, <1>10, <1>11, <1>12 DEF IInv

-----------------------------------------------------------------------------
LEMMA StepInv == IInv /\ [RingNext]_ringVars => IInv'
<1> SUFFICES ASSUME IInv, [RingNext]_ringVars PROVE IInv'
  OBVIOUS
<1>1. ASSUME NEW p \in Producers, NEW x \in Items, BeginPush(p, x) PROVE IInv'
  BY <1>1, BeginPushStep
<1>2. ASSUME NEW p \in Producers, PushStep(p) PROVE IInv'
  BY <1>2, LoadTailStep, LookSteps, RefuseStep, ClaimStep, WriteSlotStep, PublishStep
     DEF PushStep
<1>3. CASE BeginPop \/ PopStep \/ FindNothing \/ Release
  BY <1>3, LookStep, TakeSlotStep, ReleaseStep DEF PopStep
<1>4. CASE UNCHANGED ringVars
  BY <1>4 DEF ringVars, producerVars, consumerVars, IInv, RingTypeOK, Bounds,
     ProducersKnow, ClaimsDiffer, NumbersTell, ItemsAreThere, ConsumerKnows,
     Claimed, InWrite, Window, First
<1> QED
  BY <1>1, <1>2, <1>3, <1>4 DEF RingNext

\* The queue's invariant: slots, numbers and positions fit together whatever
\* its producers and its consumer do.
THEOREM RingInvariance == RingSpec => []IInv
<1> QED
  BY InitInv, StepInv, PTL DEF RingSpec

-----------------------------------------------------------------------------
(***************************************************************************)
(* Refinement.                                                             *)
(***************************************************************************)
\* Every access but a claim and a release is invisible.
LEMMA QueueStays ==
    ASSUME UNCHANGED <<tail, accepted, got>>, First' = First
    PROVE  UNCHANGED <<Queue, got>>
BY DEF Queue

LEMMA ClaimPuts ==
    ASSUME IInv, NEW p \in Producers, Claim(p)
    PROVE  item[p] \in Items /\ Fifo!Put(item[p])
<1>1. /\ tail \in Nat /\ First \in Nat /\ First =< tail /\ tail < First + Capacity
      /\ item[p] \in Items /\ accepted \in Seq(Items) /\ Len(accepted) = tail
      /\ Capacity \in Nat
  BY MpscAssumption DEF IInv, RingTypeOK, Bounds, ProducersKnow, Claim
<1>2. /\ First' = First /\ tail' = tail + 1 /\ got' = got
      /\ accepted' = Append(accepted, item[p])
  BY DEF Claim, First, consumerVars
<1> DEFINE n == tail - First
<1>3. /\ n \in Nat /\ n < Capacity
      /\ Queue = [i \in 1 .. n |-> accepted[First + i]]
      /\ Queue' = [i \in 1 .. n + 1 |-> accepted'[First + i]]
  BY <1>1, <1>2 DEF Queue
<1>4. /\ \A i \in 1 .. n : accepted'[First + i] = accepted[First + i]
      /\ accepted'[First + (n + 1)] = item[p]
  BY <1>1, <1>2
<1>5. \A i \in 1 .. n : accepted[First + i] \in Items
  BY <1>1
<1> HIDE DEF n
<1>6. Queue \in Seq(Items) /\ Len(Queue) = n
  BY <1>3, <1>5
<1>7. Queue' = Append(Queue, item[p])
  <2>1. Append(Queue, item[p]) =
          [i \in 1 .. n + 1 |-> IF i = n + 1 THEN item[p] ELSE Queue[i]]
    BY <1>3, <1>6
  <2>2. \A i \in 1 .. n + 1 :
          accepted'[First + i] = IF i = n + 1 THEN item[p] ELSE Queue[i]
    BY <1>3, <1>4
  <2> QED
    BY <2>1, <2>2, <1>3
<1> QED
  BY <1>1, <1>2, <1>3, <1>6, <1>7 DEF Fifo!Put

LEMMA ReleaseTakes ==
    ASSUME IInv, Release
    PROVE  Fifo!Take
<1>1. /\ tail \in Nat /\ First \in Nat /\ First < tail
      /\ accepted \in Seq(Items) /\ Len(accepted) = tail
      /\ held = accepted[First + 1]
  BY FoundIsPublished DEF IInv, RingTypeOK, Bounds, ConsumerKnows, Release
<1>2. /\ First' = First + 1 /\ tail' = tail /\ accepted' = accepted
      /\ got' = Append(got, held)
  BY DEF Release, First, producerVars, IInv, RingTypeOK
<1> DEFINE n == tail - First
<1>3. /\ n \in Nat \ {0}
      /\ Queue = [i \in 1 .. n |-> accepted[First + i]]
      /\ Queue' = [i \in 1 .. n - 1 |-> accepted[(First + 1) + i]]
  BY <1>1, <1>2 DEF Queue
<1>4. \A i \in 1 .. n : accepted[First + i] \in Items
  BY <1>1
<1>5. \A i \in 1 .. n - 1 : accepted[(First + 1) + i] = accepted[First + (i + 1)]
  BY <1>1
<1> HIDE DEF n
<1>6. Queue \in Seq(Items) /\ Len(Queue) = n /\ Queue # <<>> /\ Head(Queue) = held
  BY <1>1, <1>3, <1>4
<1>7. Queue' = Tail(Queue)
  BY <1>3, <1>5, <1>6
<1> QED
  BY <1>2, <1>6, <1>7 DEF Fifo!Take

LEMMA FifoStep ==
    ASSUME IInv, [RingNext]_ringVars
    PROVE  [Fifo!FifoNext]_Fifo!fifoVars
<1> USE DEF Fifo!FifoNext, Fifo!fifoVars
<1>1. ASSUME NEW p \in Producers, Claim(p) PROVE Fifo!FifoNext
  BY <1>1, ClaimPuts
<1>2. CASE Release
  BY <1>2, ReleaseTakes
<1>3. ASSUME NEW p \in Producers,
             \/ \E x \in Items : BeginPush(p, x)
             \/ LoadTail(p) \/ LookFree(p) \/ LookPassed(p) \/ Refuse(p)
             \/ ClaimFails(p) \/ WriteSlot(p) \/ Publish(p)
      PROVE  UNCHANGED <<Queue, got>>
  <2>1. UNCHANGED <<tail, accepted, got>> /\ First' = First
    BY <1>3 DEF BeginPush, LoadTail, LookFree, LookPassed, Refuse, ClaimFails,
       WriteSlot, Publish, First, consumerVars
  <2> QED
    BY <2>1, QueueStays
<1>4. CASE BeginPop \/ FindNothing \/ PopStep \/ UNCHANGED ringVars
  <2>1. UNCHANGED <<tail, accepted, got>> /\ First' = First
    BY <1>4 DEF BeginPop, FindNothing, PopStep, FindReady, AdvanceHead, TakeSlot,
       First, producerVars, consumerVars, ringVars, IInv, RingTypeOK
  <2> QED
    BY <2>1, QueueStays
<1> QED
  BY <1>1, <1>2, <1>3, <1>4 DEF RingNext, PushStep

LEMMA FifoStart == RingInit => Fifo!FifoInit
BY DEF RingInit, Fifo!FifoInit, Queue, First

\* MpscRingBuffer is a bounded FIFO: what push() accepts, pop() returns once, whole,
\* in the order of the claims, for every capacity and any number of producers.
THEOREM QueueRefines == RingSpec => ImplementsFifo
<1> QED
  BY RingInvariance, FifoStart, FifoStep, PTL DEF RingSpec, ImplementsFifo, Fifo!FifoSpec

-----------------------------------------------------------------------------
(***************************************************************************)
(* The queue, seen from the kernel.                                        *)
(***************************************************************************)
LEMMA RingSteps == [Next]_vars => [RingNext]_ringVars
<1> SUFFICES ASSUME [Next]_vars PROVE [RingNext]_ringVars
  OBVIOUS
<1>1. ASSUME NEW n \in BlockSizes, StartBlock(n) PROVE UNCHANGED ringVars
  BY <1>1 DEF StartBlock
<1>2. CASE \/ BudgetSpent \/ TakeUp \/ KeepForLater \/ RenderUpToCommand \/ Execute
           \/ RenderRest \/ EndBlock
  BY <1>2 DEF BudgetSpent, TakeUp, KeepForLater, RenderUpToCommand, RenderRest, RenderTo,
     Execute, EndBlock
<1>3. CASE FetchPop \/ FetchNothing \/ FetchPopped \/ DrainPop \/ DrainExecutes \/ DrainStops
  BY <1>3 DEF FetchPop, FetchNothing, FetchPopped, DrainPop, DrainExecutes, DrainStops,
     RingNext
<1>4. CASE DrainEnds \/ PopSteps
  BY <1>4 DEF DrainEnds, PopSteps, RingNext
<1>5. ASSUME NEW p \in Producers, Pushing(p) \/ \E x \in Items : BeginPush(p, x)
      PROVE  RingNext
  BY <1>5 DEF Pushing, RingNext
<1>6. CASE UNCHANGED vars
  BY <1>6 DEF vars
<1> QED
  BY <1>1, <1>2, <1>3, <1>4, <1>5, <1>6 DEF Next, AudioStep

\* The queue below the kernel keeps its invariant.
LEMMA QueueInvariance == Spec => []IInv
<1>1. Init => IInv
  BY InitInv DEF Init
<1>2. IInv /\ [Next]_vars => IInv'
  BY RingSteps, StepInv
<1> QED
  BY <1>1, <1>2, PTL DEF Spec

\* The command path implements the bounded queue: whatever the kernel, the producers
\* and the commands executed in between do, what push() accepted is popped once and
\* in order, for every capacity and any number of producers.
THEOREM CommandsQueueUp == Spec => ImplementsFifo
<1>1. Init => Fifo!FifoInit
  BY FifoStart DEF Init
<1>2. IInv /\ [Next]_vars => [Fifo!FifoNext]_Fifo!fifoVars
  BY RingSteps, FifoStep
<1> QED
  BY QueueInvariance, <1>1, <1>2, PTL DEF Spec, ImplementsFifo, Fifo!FifoSpec

-----------------------------------------------------------------------------
(***************************************************************************)
(* The inductive invariant of the kernel.                                  *)
(***************************************************************************)
\* The commands popped and not executed: one, in cmd or in pending, or none.
Hand == IF cmd # None \/ pending # None THEN 1 ELSE 0

Places ==
    /\ (pop # "idle") <=> (kernel \in {"popping", "draining"})
    /\ kernel \notin {"fetch", "render"} => cmd = None
    /\ kernel = "render" => cmd # None
    /\ pending # None => kernel \in {"rest", "outside"}

InOrder ==
    /\ First = Len(executed) + Hand
    /\ cmd # None => cmd = NextUp
    /\ pending # None => pending = NextUp

\* A command is popped only while the block has budget for it.
Affordable ==
    kernel \in {"popping", "draining"} \/ (kernel = "fetch" /\ cmd # None) => Budget

Clock ==
    /\ kernel \in {"fetch", "popping", "drain", "draining"} =>
         now = lastAt /\ blockStart =< lastAt
    /\ kernel \in {"drain", "draining"} => stamp =< now
    /\ kernel = "render" =>
         /\ blockStart =< lastAt /\ lastAt =< now
         /\ target = IF cmd.due > blockStart THEN cmd.due ELSE lastAt
         /\ now =< target \/ now = lastAt

\* What waited when the block began can still be popped, or has been.
StillWaits ==
    kernel # "outside" =>
        \A q \in ready : \A r \in First .. q : r < tail /\ ~InWrite(r)

\* Why the kernel executes no more in this block.
Rests ==
    kernel = "rest" =>
        \/ \A q \in ready : q < Len(executed)
        \/ ~Budget
        \/ pending # None /\ pending.due >= blockEnd

KInv ==
    /\ IInv /\ TypeOK
    /\ Places /\ InOrder /\ Affordable /\ Clock /\ StillWaits /\ Rests

LEMMA KernelStart == Init => KInv
<1> SUFFICES ASSUME Init PROVE KInv
  OBVIOUS
<1>1. IInv
  BY InitInv DEF Init
<1>2. TypeOK
  BY <1>1, PathAssumption DEF IInv, Init, TypeOK
<1> QED
  BY <1>1, <1>2 DEF Init, RingInit, KInv, Places, InOrder, Affordable, Clock,
     StillWaits, Rests, Hand, First

-----------------------------------------------------------------------------
(***************************************************************************)
(* What a step of the queue leaves to the kernel.                          *)
(***************************************************************************)
\* The window only moves on, and only when the consumer releases a slot; a position
\* that is published stays so, and what was accepted keeps its position.
LEMMA QueueMovesOn ==
    ASSUME IInv, [RingNext]_ringVars
    PROVE  /\ tail \in Nat /\ tail' \in Nat /\ tail =< tail'
           /\ First \in Nat /\ First =< tail
           /\ First' = First \/ (Release /\ First' = First + 1)
           /\ \A q \in Nat : InWrite(q)' => InWrite(q) \/ q >= tail
           /\ \A i \in 1 .. tail : accepted'[i] = accepted[i]
<1>0. /\ tail \in Nat /\ First \in Nat /\ First =< tail /\ head \in Nat
      /\ accepted \in Seq(Items) /\ Len(accepted) = tail
      /\ pos \in [Producers -> Nat] /\ item \in [Producers -> Items \cup {None}]
      /\ push \in [Producers -> {"idle", "load", "look", "cas", "write", "publish"}]
  BY DEF IInv, RingTypeOK, Bounds
<1>1. ASSUME NEW p \in Producers, Claim(p)
      PROVE  /\ tail' = tail + 1 /\ First' = First
             /\ \A q \in Nat : InWrite(q)' => InWrite(q) \/ q >= tail
             /\ \A i \in 1 .. tail : accepted'[i] = accepted[i]
  <2>1. /\ tail' = tail + 1 /\ First' = First /\ pos' = pos /\ pos[p] = tail
        /\ push' = [push EXCEPT ![p] = "write"]
        /\ accepted' = Append(accepted, item[p])
    BY <1>1 DEF Claim, Goto, First, consumerVars
  <2>2. item[p] \in Items
    BY <1>1 DEF IInv, ProducersKnow, Claim
  <2>3. \A i \in 1 .. tail : accepted'[i] = accepted[i]
    BY <2>1, <2>2, <1>0
  <2>4. ASSUME NEW q \in Nat, NEW r \in Producers, Claimed(r)', pos'[r] = q
        PROVE  InWrite(q) \/ q >= tail
    <3>1. CASE r = p
      BY <3>1, <2>1, <2>4, <1>0
    <3>2. CASE r # p
      BY <3>2, <2>1, <2>4, <1>0 DEF Claimed, InWrite
    <3> QED
      BY <3>1, <3>2
  <2> QED
    BY <2>1, <2>3, <2>4 DEF InWrite
<1>2. ASSUME NEW p \in Producers,
             \/ \E x \in Items : BeginPush(p, x)
             \/ LoadTail(p) \/ LookFree(p) \/ LookPassed(p) \/ Refuse(p)
             \/ ClaimFails(p) \/ WriteSlot(p) \/ Publish(p)
      PROVE  /\ UNCHANGED <<tail, accepted>> /\ First' = First
             /\ \A q \in Nat : InWrite(q)' => InWrite(q)
  <2>1. UNCHANGED <<tail, accepted>> /\ First' = First
    BY <1>2 DEF BeginPush, LoadTail, LookFree, LookPassed, Refuse, ClaimFails,
       WriteSlot, Publish, First, consumerVars
  <2>2. \A r \in Producers : Claimed(r)' => Claimed(r) /\ pos'[r] = pos[r]
    <3> SUFFICES ASSUME NEW r \in Producers, Claimed(r)'
                 PROVE  Claimed(r) /\ pos'[r] = pos[r]
      OBVIOUS
    <3>1. CASE r = p
      BY <3>1, <1>2, <1>0 DEF BeginPush, LoadTail, LookFree, LookPassed, Refuse,
         ClaimFails, WriteSlot, Publish, Goto, Claimed
    <3>2. CASE r # p
      BY <3>2, <1>2, <1>0 DEF BeginPush, LoadTail, LookFree, LookPassed, Refuse,
         ClaimFails, WriteSlot, Publish, Goto, Claimed
    <3> QED
      BY <3>1, <3>2
  <2> QED
    BY <2>1, <2>2 DEF InWrite
<1>3. CASE BeginPop \/ PopStep \/ FindNothing \/ Release \/ UNCHANGED ringVars
  <2>1. UNCHANGED <<tail, accepted, push, pos>>
    BY <1>3 DEF BeginPop, PopStep, FindReady, AdvanceHead, TakeSlot, FindNothing, Release,
       ringVars, producerVars
  <2>2. First' = First \/ (Release /\ First' = First + 1)
    BY <1>3, <1>0 DEF BeginPop, PopStep, FindReady, AdvanceHead, TakeSlot, FindNothing, Release,
       ringVars, consumerVars, First
  <2>3. \A q \in Nat : InWrite(q)' => InWrite(q)
    BY <2>1 DEF InWrite, Claimed
  <2> QED
    BY <2>1, <2>2, <2>3, <1>0
<1> QED
  BY <1>0, <1>1, <1>2, <1>3 DEF RingNext, PushStep

\* The positions that waited go on waiting.
LEMMA ReadyStays ==
    ASSUME IInv, [RingNext]_ringVars, StillWaits, kernel # "outside",
           ready \subseteq Nat, ready' = ready
    PROVE  StillWaits'
<1>1. /\ tail \in Nat /\ tail' \in Nat /\ tail =< tail' /\ First \in Nat
      /\ First' = First \/ First' = First + 1
      /\ \A q \in Nat : InWrite(q)' => InWrite(q) \/ q >= tail
  BY QueueMovesOn
<1>2. \A q \in ready : \A r \in First .. q : r < tail /\ ~InWrite(r)
  BY DEF StillWaits
<1>3. ASSUME NEW q \in ready, NEW r \in First' .. q
      PROVE  r < tail' /\ ~InWrite(r)'
  <2>1. r \in First .. q /\ r \in Nat
    BY <1>1
  <2>2. r < tail /\ ~InWrite(r)
    BY <1>2, <2>1
  <2> QED
    BY <1>1, <2>1, <2>2
<1> QED
  BY <1>3 DEF StillWaits

\* What the kernel does not touch, and what it has in its hands, stays as it is.
LEMMA HandStays ==
    ASSUME KInv, [RingNext]_ringVars
    PROVE  /\ First \in Nat /\ Len(executed) \in Nat
           /\ ~Release => First' = First
           /\ Hand = 1 => accepted'[Len(executed) + 1] = NextUp
<1>1. /\ tail \in Nat /\ First \in Nat /\ First =< tail
      /\ First' = First \/ (Release /\ First' = First + 1)
      /\ \A i \in 1 .. tail : accepted'[i] = accepted[i]
  BY QueueMovesOn DEF KInv
<1>2. executed \in Seq(Items) /\ First = Len(executed) + Hand
  BY DEF KInv, TypeOK, InOrder
<1>3. Len(executed) \in Nat
  BY <1>2
<1>4. Hand = 1 => Len(executed) + 1 \in 1 .. tail
  BY <1>1, <1>2, <1>3
<1> QED
  BY <1>1, <1>3, <1>4 DEF NextUp

-----------------------------------------------------------------------------
(***************************************************************************)
(* The kernel's steps.                                                     *)
(***************************************************************************)
LEMMA StartBlockStep ==
    ASSUME KInv, NEW n \in BlockSizes, StartBlock(n)
    PROVE  KInv'
<1> USE DEF clockVars
<1>1. IInv' /\ First' = First /\ Hand' = Hand /\ NextUp' = NextUp /\ UNCHANGED ringVars
  BY StepInv DEF KInv, StartBlock, ringVars, consumerVars, First, Places, Hand, NextUp,
     producerVars
<1>2. /\ kernel = "outside" /\ pop = "idle" /\ First = head /\ cmd = None
      /\ First \in Nat /\ tail \in Nat /\ tail =< First + Capacity /\ now \in Nat
      /\ First = Len(executed) + Hand /\ executed \in Seq(Items) /\ n \in Nat
      /\ Hand \in {0, 1} /\ Capacity \in Nat
  BY PathAssumption, MpscAssumption
     DEF KInv, StartBlock, Places, First, IInv, RingTypeOK, Bounds, TypeOK, InOrder, Hand
<1>3. ASSUME NEW q \in Waiting, NEW r \in First .. q
      PROVE  r < tail /\ ~InWrite(r)
  <2>1. r \in Len(executed) .. q /\ r < tail /\ r \in Window /\ ~(r < head) /\ r \in Nat
    BY <1>2 DEF Waiting, Window
  <2>2. sequences[Slot(r)] = r + 1
    BY <2>1 DEF Waiting
  <2>3. sequences[Slot(r)] = IF r < tail /\ ~InWrite(r) THEN r + 1 ELSE r
    BY <2>1 DEF KInv, IInv, NumbersTell
  <2> QED
    BY <2>1, <2>2, <2>3
<1>4. StillWaits'
  <2>1. tail' = tail /\ \A r : InWrite(r)' <=> InWrite(r)
    BY <1>1 DEF ringVars, producerVars, InWrite, Claimed
  <2> QED
    BY <1>1, <1>3, <2>1 DEF StartBlock, StillWaits
<1>5. TypeOK'
  <2>1. Waiting \subseteq Nat
    BY <1>2 DEF Waiting
  <2> QED
    BY <1>1, <1>2, <2>1, PathAssumption DEF KInv, TypeOK, StartBlock, IInv
<1>6. Places' /\ Affordable' /\ Clock' /\ Rests'
  BY <1>1, <1>2, PathAssumption
     DEF StartBlock, Places, Affordable, Budget, Clock, Rests, ringVars, consumerVars
<1>7. InOrder'
  BY <1>1, <1>2 DEF KInv, InOrder, StartBlock
<1> QED
  BY <1>1, <1>4, <1>5, <1>6, <1>7 DEF KInv

\* Looking for a command.
LEMMA PopBegins ==
    ASSUME KInv, FetchPop \/ DrainPop
    PROVE  KInv'
<1> USE DEF clockVars
<1>1. [RingNext]_ringVars /\ ~Release
  BY DEF FetchPop, DrainPop, BeginPop, Release, RingNext
<1>2. IInv' /\ First' = First /\ accepted' = accepted
  BY <1>1, StepInv, HandStays DEF KInv, FetchPop, DrainPop, BeginPop, producerVars
<1>3. StillWaits'
  BY <1>1, ReadyStays DEF KInv, TypeOK, FetchPop, DrainPop
<1>4. TypeOK' /\ Places' /\ Affordable' /\ Clock' /\ Rests'
  BY <1>2 DEF KInv, TypeOK, Places, Affordable, Budget, Clock, Rests, FetchPop, DrainPop,
     BeginPop, IInv
<1>5. InOrder'
  BY <1>2 DEF KInv, InOrder, Hand, NextUp, FetchPop, DrainPop
<1> QED
  BY <1>2, <1>3, <1>4, <1>5 DEF KInv

\* When pop() finds nothing, everything that waited has been executed.
LEMMA NothingFound ==
    ASSUME KInv, kernel = "popping", FindNothing
    PROVE  \A q \in ready : q < Len(executed)
<1>1. /\ First = head /\ First \in Nat /\ First = Len(executed) /\ First \in Window
      /\ ready \subseteq Nat
  BY WindowSlots DEF KInv, FindNothing, First, IInv, RingTypeOK, Bounds, TypeOK, InOrder,
     Hand, Places
<1>2. ASSUME NEW q \in ready, ~(q < Len(executed))
      PROVE  FALSE
  <2>1. First \in First .. q
    BY <1>1, <1>2
  <2>2. First < tail /\ ~InWrite(First)
    BY <2>1 DEF KInv, StillWaits
  <2>3. sequences[Slot(head)] = head + 1
    BY <1>1, <2>2 DEF KInv, IInv, NumbersTell
  <2> QED
    BY <2>3 DEF FindNothing, IsReady
<1> QED
  BY <1>2

LEMMA LookingEnds ==
    ASSUME KInv, FetchNothing \/ DrainEnds
    PROVE  KInv'
<1> USE DEF clockVars
<1>1. [RingNext]_ringVars /\ (~Release \/ UNCHANGED ringVars)
  BY DEF FetchNothing, DrainEnds, FindNothing, Release, RingNext
<1>2. IInv' /\ First' = First /\ accepted' = accepted
  BY <1>1, StepInv, HandStays
     DEF KInv, FetchNothing, DrainEnds, FindNothing, producerVars, consumerVars, ringVars, First
<1>3. StillWaits'
  BY <1>1, ReadyStays DEF KInv, TypeOK, FetchNothing, DrainEnds
<1>4. TypeOK'
  BY <1>2 DEF KInv, TypeOK, FetchNothing, DrainEnds, IInv
<1>5. Places'
  BY DEF KInv, Places, FetchNothing, DrainEnds, FindNothing, ringVars, consumerVars
<1>6. Affordable' /\ Clock'
  BY DEF KInv, Affordable, Places, Budget, Clock, FetchNothing, DrainEnds
<1>7. Rests'
  BY NothingFound DEF FetchNothing, DrainEnds, Rests
<1>8. InOrder'
  BY <1>2 DEF KInv, InOrder, Hand, NextUp, FetchNothing, DrainEnds
<1> QED
  BY <1>2, <1>3, <1>4, <1>5, <1>6, <1>7, <1>8 DEF KInv

\* The command that pop() returns is the next one in the order of acceptance.
LEMMA PoppedIsNext ==
    ASSUME KInv, Release
    PROVE  /\ First' = First + 1 /\ First = Len(executed) /\ Len(executed) \in Nat
           /\ held = NextUp /\ held \in Items /\ held # None
           /\ accepted' = accepted /\ IInv' /\ [RingNext]_ringVars
           /\ cmd = None /\ pending = None
<1>1. pop = "release" /\ kernel \in {"popping", "draining"}
  BY DEF KInv, Release, Places
<1>2. cmd = None /\ pending = None
  BY <1>1 DEF KInv, Places
<1>3. /\ First \in Nat /\ First < tail /\ tail \in Nat /\ accepted \in Seq(Items)
      /\ Len(accepted) = tail /\ held = accepted[First + 1]
  BY <1>1, FoundIsPublished DEF KInv, IInv, RingTypeOK, Bounds, ConsumerKnows
<1>4. First = Len(executed)
  BY <1>2, <1>3 DEF KInv, InOrder, Hand, TypeOK
<1>5. held = NextUp /\ held \in Items /\ held # None
  BY <1>3, <1>4, MpscAssumption DEF NextUp
<1>6. First' = First + 1 /\ accepted' = accepted
  BY <1>1 DEF Release, First, producerVars, KInv, IInv, RingTypeOK
<1>7. IInv' /\ [RingNext]_ringVars
  BY StepInv DEF KInv, RingNext
<1> QED
  BY <1>2, <1>3, <1>4, <1>5, <1>6, <1>7

LEMMA PoppedSteps ==
    ASSUME KInv, FetchPopped \/ DrainStops
    PROVE  KInv'
<1> USE DEF clockVars
<1>0. /\ Release /\ cmd' = held /\ kernel' = "fetch" /\ kernel \in {"popping", "draining"}
      /\ UNCHANGED <<blockStart, blockEnd, now, target, stamp, pending, processed, executed,
                     ready, lastAt>>
  BY DEF FetchPopped, DrainStops
<1>1. /\ First' = First + 1 /\ First = Len(executed) /\ Len(executed) \in Nat
      /\ held = NextUp /\ held \in Items /\ held # None
      /\ accepted' = accepted /\ IInv' /\ [RingNext]_ringVars
      /\ cmd = None /\ pending = None
  BY <1>0, PoppedIsNext
<1>2. StillWaits'
  BY <1>0, <1>1, ReadyStays DEF KInv, TypeOK
<1>3. TypeOK'
  BY <1>0, <1>1 DEF KInv, TypeOK, IInv
<1>4. Places' /\ Affordable' /\ Clock' /\ Rests'
  BY <1>0, <1>1 DEF KInv, Places, Affordable, Budget, Clock, Rests, Release
<1>5. InOrder'
  BY <1>0, <1>1 DEF InOrder, Hand, NextUp
<1> QED
  BY <1>1, <1>2, <1>3, <1>4, <1>5 DEF KInv

LEMMA DrainExecutesStep ==
    ASSUME KInv, DrainExecutes
    PROVE  KInv'
<1> USE DEF clockVars
<1>1. /\ First' = First + 1 /\ First = Len(executed) /\ Len(executed) \in Nat
      /\ held = NextUp /\ held \in Items /\ held # None
      /\ accepted' = accepted /\ IInv' /\ [RingNext]_ringVars
      /\ cmd = None /\ pending = None
  BY PoppedIsNext DEF DrainExecutes
<1>2. StillWaits'
  BY <1>1, ReadyStays DEF KInv, TypeOK, DrainExecutes
<1>3. /\ executed \in Seq(Items) /\ executed' = Append(executed, held)
      /\ Len(executed') = Len(executed) + 1 /\ executed' \in Seq(Items)
  BY <1>1 DEF KInv, TypeOK, DrainExecutes
<1>4. TypeOK'
  BY <1>1, <1>3, PathAssumption
     DEF KInv, TypeOK, IInv, DrainExecutes, Affordable, Budget
<1>5. Places' /\ Affordable' /\ Clock' /\ Rests'
  BY <1>1 DEF KInv, Places, Affordable, Budget, Clock, Rests, Release, DrainExecutes, TypeOK
<1>6. InOrder'
  BY <1>1, <1>3 DEF InOrder, Hand, NextUp, DrainExecutes
<1> QED
  BY <1>1, <1>2, <1>4, <1>5, <1>6 DEF KInv

\* The steps that leave the queue alone.
LEMMA QueueUntouched ==
    ASSUME KInv, UNCHANGED ringVars
    PROVE  /\ IInv' /\ First' = First /\ accepted' = accepted /\ pop' = pop
           /\ kernel # "outside" /\ ready' = ready => StillWaits'
<1>1. IInv' /\ First' = First /\ accepted' = accepted /\ pop' = pop
  BY StepInv DEF KInv, ringVars, producerVars, consumerVars, First
<1>2. kernel # "outside" /\ ready' = ready => StillWaits'
  BY ReadyStays DEF KInv, TypeOK
<1> QED
  BY <1>1, <1>2

LEMMA DecideSteps ==
    ASSUME KInv, BudgetSpent \/ TakeUp \/ KeepForLater
    PROVE  KInv'
<1> USE DEF clockVars
<1>1. /\ IInv' /\ First' = First /\ accepted' = accepted /\ pop' = pop
      /\ kernel # "outside" /\ ready' = ready => StillWaits'
  BY QueueUntouched DEF BudgetSpent, TakeUp, KeepForLater
<1>2. StillWaits'
  BY <1>1 DEF BudgetSpent, TakeUp, KeepForLater
<1>3. Affordable /\ Places
  BY DEF KInv
<1>4. TypeOK'
  <2>1. RingTypeOK' /\ TypeOK /\ now \in Nat /\ processed \in 0 .. MaxPerBlock /\ MaxPerBlock \in Nat
    BY <1>1, PathAssumption DEF KInv, TypeOK, IInv
  <2>2. CASE BudgetSpent \/ KeepForLater
    BY <2>1, <2>2 DEF TypeOK, BudgetSpent, KeepForLater
  <2>3. CASE TakeUp
    <3>1. cmd \in Items /\ cmd.due \in Nat /\ processed < MaxPerBlock
      BY <2>1, <2>3, <1>3, PathAssumption DEF TypeOK, TakeUp, Affordable, Budget
    <3>2. target' \in Nat /\ processed' \in 0 .. MaxPerBlock
      BY <2>1, <2>3, <3>1 DEF TakeUp
    <3> QED
      BY <2>1, <2>3, <3>2 DEF TypeOK, TakeUp
  <2> QED
    BY <2>2, <2>3
<1>5. Places' /\ Affordable'
  BY <1>1, <1>3 DEF Places, Affordable, Budget, BudgetSpent, TakeUp, KeepForLater
<1>6. Clock'
  BY DEF KInv, Clock, BudgetSpent, TakeUp, KeepForLater, TypeOK
<1>7. Rests'
  BY DEF Rests, BudgetSpent, TakeUp, KeepForLater, Budget
<1>8. InOrder'
  BY <1>1, <1>3 DEF KInv, InOrder, Places, Hand, NextUp, BudgetSpent, TakeUp, KeepForLater
<1> QED
  BY <1>1, <1>2, <1>4, <1>5, <1>6, <1>7, <1>8 DEF KInv

\* Rendering never passes the sample of the command in hand.
LEMMA RenderSteps ==
    ASSUME KInv, RenderUpToCommand \/ RenderRest
    PROVE  KInv'
<1>1. /\ IInv' /\ First' = First /\ accepted' = accepted /\ pop' = pop
      /\ kernel # "outside" /\ ready' = ready => StillWaits'
  BY QueueUntouched DEF RenderUpToCommand, RenderRest, RenderTo
<1>2. StillWaits'
  BY <1>1 DEF RenderUpToCommand, RenderRest, RenderTo
<1>3. /\ now \in Nat /\ target \in Nat /\ blockEnd \in Nat /\ MaxChunk \in Nat
      /\ lastAt \in Nat
  BY PathAssumption DEF KInv, TypeOK
<1>4. /\ now' \in Nat /\ now =< now'
      /\ kernel = "render" => now' =< target
  BY <1>3 DEF RenderUpToCommand, RenderRest, RenderTo, MinOf
<1>5. TypeOK'
  <2>1. RingTypeOK' /\ TypeOK
    BY <1>1 DEF KInv, IInv
  <2>2. UNCHANGED <<kernel, blockStart, blockEnd, target, cmd, stamp, pending, processed,
                    executed, ready, lastAt>>
    BY DEF RenderUpToCommand, RenderRest, RenderTo
  <2> QED
    BY <2>1, <2>2, <1>4 DEF TypeOK
<1>6. Places' /\ Affordable' /\ Rests'
  BY <1>1 DEF KInv, Places, Affordable, Budget, Rests, RenderUpToCommand, RenderRest, RenderTo
<1>7. Clock'
  <2>1. /\ kernel \in {"render", "rest"} /\ Clock
        /\ UNCHANGED <<kernel, blockStart, target, cmd, stamp, lastAt>>
    BY DEF KInv, RenderUpToCommand, RenderRest, RenderTo
  <2>2. CASE kernel = "rest"
    BY <2>1, <2>2 DEF Clock
  <2>3. CASE kernel = "render"
    <3>1. blockStart \in Nat /\ lastAt =< now'
      BY <2>1, <2>3, <1>3, <1>4 DEF Clock, KInv, TypeOK
    <3> QED
      BY <2>1, <2>3, <3>1, <1>4 DEF Clock
  <2> QED
    BY <2>1, <2>2, <2>3
<1>8. InOrder'
  BY <1>1 DEF KInv, InOrder, Hand, NextUp, RenderUpToCommand, RenderRest, RenderTo
<1> QED
  BY <1>1, <1>2, <1>5, <1>6, <1>7, <1>8 DEF KInv

LEMMA ExecuteStep ==
    ASSUME KInv, Execute
    PROVE  KInv'
<1> USE DEF clockVars
<1>1. /\ IInv' /\ First' = First /\ accepted' = accepted /\ pop' = pop
      /\ kernel # "outside" /\ ready' = ready => StillWaits'
  BY QueueUntouched DEF Execute
<1>2. /\ cmd # None /\ cmd \in Items /\ cmd.due \in Nat /\ pending = None
      /\ executed \in Seq(Items) /\ First = Len(executed) + 1
      /\ now \in Nat /\ target \in Nat /\ blockStart \in Nat /\ lastAt \in Nat
  BY PathAssumption DEF KInv, Places, TypeOK, InOrder, Hand, Execute
<1>3. executed' \in Seq(Items) /\ Len(executed') = Len(executed) + 1
  BY <1>2 DEF Execute
<1>4. TypeOK' /\ Places' /\ Affordable' /\ Rests'
  BY <1>1, <1>2, <1>3
     DEF KInv, TypeOK, IInv, Places, Affordable, Rests, Execute
<1>5. Clock'
  BY <1>2 DEF KInv, Clock, Execute
<1>6. InOrder'
  BY <1>1, <1>2, <1>3 DEF InOrder, Hand, Execute
<1> QED
  BY <1>1, <1>4, <1>5, <1>6 DEF KInv, Execute

LEMMA EndBlockStep ==
    ASSUME KInv, EndBlock
    PROVE  KInv'
<1>1. IInv' /\ First' = First /\ accepted' = accepted /\ pop' = pop
  BY QueueUntouched DEF EndBlock
<1>2. cmd = None /\ pending' = pending /\ now' \in Nat
  BY PathAssumption DEF KInv, Places, TypeOK, EndBlock, MinOf
<1>3. TypeOK' /\ Places' /\ Affordable' /\ Clock' /\ StillWaits' /\ Rests'
  BY <1>1, <1>2 DEF KInv, TypeOK, IInv, Places, Affordable, Clock, StillWaits, Rests, EndBlock
<1>4. InOrder'
  BY <1>1, <1>2 DEF KInv, InOrder, Hand, NextUp, EndBlock
<1> QED
  BY <1>1, <1>3, <1>4 DEF KInv

\* The steps inside pop() and those of the producers.
LEMMA QueueSteps ==
    ASSUME KInv, UNCHANGED kernelVars,
           \/ PopStep
           \/ \E p \in Producers : PushStep(p) \/ \E x \in Items : BeginPush(p, x)
    PROVE  KInv'
<1> USE DEF kernelVars, clockVars
<1>1. [RingNext]_ringVars
  BY DEF RingNext
<1>2. ~Release /\ (pop' # "idle") = (pop # "idle")
  BY DEF PopStep, FindReady, AdvanceHead, TakeSlot, PushStep, BeginPush, LoadTail, LookFree,
     LookPassed, Refuse, Claim, ClaimFails, WriteSlot, Publish, Release, consumerVars, KInv,
     IInv, RingTypeOK
<1>3. /\ IInv' /\ First' = First
      /\ Hand = 1 => accepted'[Len(executed) + 1] = NextUp
  BY <1>1, <1>2, StepInv, HandStays DEF KInv
<1>4. StillWaits'
  <2>1. CASE kernel = "outside"
    BY <2>1 DEF StillWaits
  <2>2. CASE kernel # "outside"
    BY <2>2, <1>1, ReadyStays DEF KInv, TypeOK
  <2> QED
    BY <2>1, <2>2
<1>5. TypeOK' /\ Places' /\ Affordable' /\ Clock' /\ Rests'
  BY <1>2, <1>3 DEF KInv, TypeOK, IInv, Places, Affordable, Budget, Clock, Rests
<1>6. InOrder'
  BY <1>3 DEF KInv, InOrder, Hand, NextUp
<1> QED
  BY <1>3, <1>4, <1>5, <1>6 DEF KInv

LEMMA KernelStep == KInv /\ [Next]_vars => KInv'
<1> SUFFICES ASSUME KInv, [Next]_vars PROVE KInv'
  OBVIOUS
<1>1. ASSUME NEW n \in BlockSizes, StartBlock(n) PROVE KInv'
  BY <1>1, StartBlockStep
<1>2. CASE \/ FetchPop \/ FetchNothing \/ FetchPopped \/ DrainPop \/ DrainEnds
           \/ DrainExecutes \/ DrainStops
  BY <1>2, PopBegins, LookingEnds, PoppedSteps, DrainExecutesStep
<1>3. CASE \/ BudgetSpent \/ TakeUp \/ KeepForLater \/ RenderUpToCommand \/ Execute
           \/ RenderRest \/ EndBlock
  BY <1>3, DecideSteps, RenderSteps, ExecuteStep, EndBlockStep
<1>4. CASE PopSteps
  BY <1>4, QueueSteps DEF PopSteps
<1>5. ASSUME NEW p \in Producers,
             Pushing(p) \/ \E x \in Items : BeginPush(p, x) /\ UNCHANGED kernelVars
      PROVE  KInv'
  BY <1>5, QueueSteps DEF Pushing
<1>6. CASE UNCHANGED vars
  <2>1. UNCHANGED ringVars /\ UNCHANGED kernelVars
    BY <1>6 DEF vars
  <2>2. /\ IInv' /\ First' = First /\ accepted' = accepted /\ pop' = pop
        /\ kernel # "outside" /\ ready' = ready => StillWaits'
    BY <2>1, QueueUntouched
  <2> QED
    BY <2>1, <2>2 DEF kernelVars, clockVars, KInv, TypeOK, IInv, Places, InOrder, Hand,
       NextUp, Affordable, Budget, Clock, StillWaits, Rests
<1> QED
  BY <1>1, <1>2, <1>3, <1>4, <1>5, <1>6 DEF Next, AudioStep

LEMMA KernelInvariance == Spec => []KInv
<1> QED
  BY KernelStart, KernelStep, PTL DEF Spec

\* The queue and the kernel keep to their types and ranges; in particular a block
\* never takes up more than MAX_COMMANDS_PER_BLOCK commands.
THEOREM TypesKept == Spec => []TypeOK
<1>1. KInv => TypeOK
  BY DEF KInv
<1> QED
  BY KernelInvariance, <1>1, PTL

-----------------------------------------------------------------------------
(***************************************************************************)
(* Commands run in order and at their samples.                             *)
(***************************************************************************)
LEMMA ExecuteOnTime ==
    ASSUME KInv, Execute
    PROVE  executed' = Append(executed, NextUp) /\ OnItsSample(NextUp)
<1>1. cmd # None /\ cmd = NextUp /\ cmd \in Items /\ cmd.due \in Nat
  BY PathAssumption DEF KInv, Places, InOrder, TypeOK, Execute
<1>2. /\ blockStart =< lastAt /\ lastAt =< now /\ now >= target
      /\ target = IF cmd.due > blockStart THEN cmd.due ELSE lastAt
      /\ now =< target \/ now = lastAt
      /\ now \in Nat /\ target \in Nat /\ blockStart \in Nat /\ lastAt \in Nat
  BY DEF KInv, Clock, TypeOK, Execute
<1>3. now = MaxOf(cmd.due, MaxOf(blockStart, lastAt))
  BY <1>1, <1>2 DEF MaxOf
<1> QED
  BY <1>1, <1>3 DEF OnItsSample, Execute

LEMMA DrainOnTime ==
    ASSUME KInv, DrainExecutes
    PROVE  executed' = Append(executed, NextUp) /\ OnItsSample(NextUp)
<1>1. held = NextUp /\ held \in Items /\ held.due \in Nat /\ held.due = stamp
  BY PoppedIsNext, PathAssumption DEF DrainExecutes, SameStamp
<1>2. /\ now = lastAt /\ blockStart =< lastAt /\ stamp =< now
      /\ now \in Nat /\ blockStart \in Nat /\ lastAt \in Nat
  BY DEF KInv, Clock, TypeOK, DrainExecutes
<1>3. now = MaxOf(held.due, MaxOf(blockStart, lastAt))
  BY <1>1, <1>2 DEF MaxOf
<1> QED
  BY <1>1, <1>3 DEF OnItsSample, DrainExecutes

LEMMA BlockEndsDone ==
    ASSUME KInv, EndBlock
    PROVE  \/ \A q \in ready : q < Len(executed)
           \/ NextUp.due >= blockEnd
           \/ ~Budget
BY DEF KInv, Rests, InOrder, EndBlock

\* Commands are executed in the order they were accepted, none twice and none left
\* out, each at its sample; and one that waited when a block began is executed in
\* it, unless the budget is spent or one in front of it is due later.
THEOREM CommandsRunOnTime == Spec => OnTime
<1> DEFINE Step ==
      /\ executed' # executed =>
            executed' = Append(executed, NextUp) /\ OnItsSample(NextUp)
      /\ EndBlock =>
            \/ \A q \in ready : q < Len(executed)
            \/ NextUp.due >= blockEnd
            \/ ~Budget
<1>1. KInv /\ [Next]_vars => [Step]_vars
  <2> SUFFICES ASSUME KInv, Next PROVE Step
    OBVIOUS
  <2>1. CASE Execute
    BY <2>1, ExecuteOnTime, BlockEndsDone
  <2>2. CASE DrainExecutes
    BY <2>2, DrainOnTime, BlockEndsDone
  <2>3. CASE ~Execute /\ ~DrainExecutes
    <3>1. executed' = executed
      BY <2>3 DEF Next, AudioStep, StartBlock, FetchPop, FetchNothing, FetchPopped,
         BudgetSpent, TakeUp, KeepForLater, RenderUpToCommand, RenderRest, RenderTo, DrainPop,
         DrainEnds, DrainStops, EndBlock, PopSteps, Pushing, kernelVars
    <3> QED
      BY <3>1, BlockEndsDone
  <2> QED
    BY <2>1, <2>2, <2>3
<1> QED
  BY KernelInvariance, <1>1, PTL DEF Spec, OnTime
=================================================================================
