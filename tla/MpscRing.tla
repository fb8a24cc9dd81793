-------------------------------- MODULE MpscRing --------------------------------
(***************************************************************************)
(* The command queue of the engine (MpscRingBuffer of ipc-layer): several  *)
(* producers - the conductor, the console, the processors that push while  *)
(* the audio thread or a worker renders them - and one consumer, the audio *)
(* thread.  Each slot carries a sequence number that says which position   *)
(* may use it next; a producer claims a position by moving tail.           *)
(*                                                                         *)
(* One action is one access to shared memory.  Positions are usize and do  *)
(* not wrap within 2^64 pushes, so they are natural numbers; masking with  *)
(* capacity - 1 is the remainder, capacity being a power of two.  Loads    *)
(* return the newest value: an older tail or sequence number only makes    *)
(* push look again or refuse, since claiming goes through a CAS of tail.   *)
(***************************************************************************)
EXTENDS Integers, Sequences

CONSTANTS
    Producers,    \* the threads that push
    Capacity,     \* slots of the ring, all of them usable
    Items,        \* what is pushed
    None,         \* an empty slot, and no item
    MaxPushes     \* bound: how many pushes are begun

\* A ring of one slot would take a full slot for a free one (position + 1 is
\* then position + capacity); the engine builds it with 256 and more.
ASSUME MpscAssumption ==
    /\ Capacity \in Nat /\ Capacity >= 2
    /\ None \notin Items
    /\ MaxPushes \in Nat

Slots == 0 .. Capacity - 1

\* pos & self.mask.
Slot(pos) == pos % Capacity

VARIABLES
    buffer,       \* the slots
    sequences,    \* the sequence number of each slot
    head, tail,   \* the next position to pop, the next to claim
    push,         \* per producer: where its call of push() is
    pos,          \* per producer: the position it works on
    item,         \* per producer: the item it pushes
    pop,          \* where the call of pop() is
    held,         \* the item pop() took from its slot and has not returned
    begun,        \* bound: pushes begun
    accepted,     \* history: the items in the order their positions were claimed
    got           \* history: what pop() returned

producerVars == <<push, pos, item, begun, accepted>>
consumerVars == <<pop, held, got>>
ringVars == <<buffer, sequences, head, tail, producerVars, consumerVars>>

RingInit ==
    /\ buffer = [s \in Slots |-> None]
    /\ sequences = [s \in Slots |-> s]
    /\ head = 0 /\ tail = 0
    /\ push = [p \in Producers |-> "idle"]
    /\ pos = [p \in Producers |-> 0]
    /\ item = [p \in Producers |-> None]
    /\ pop = "idle" /\ held = None
    /\ begun = 0
    /\ accepted = <<>> /\ got = <<>>

-----------------------------------------------------------------------------
(***************************************************************************)
(* MpscRingBuffer::push.                                                   *)
(***************************************************************************)
Goto(p, place) == push' = [push EXCEPT ![p] = place]

BeginPush(p, x) ==
    /\ push[p] = "idle"
    /\ begun < MaxPushes
    /\ begun' = begun + 1
    /\ item' = [item EXCEPT ![p] = x]
    /\ Goto(p, "load")
    /\ UNCHANGED <<buffer, sequences, head, tail, pos, accepted, consumerVars>>

\* Also the reload, when the slot turned out to be another producer's.
LoadTail(p) ==
    /\ push[p] = "load"
    /\ pos' = [pos EXCEPT ![p] = tail]
    /\ Goto(p, "look")
    /\ UNCHANGED <<buffer, sequences, head, tail, item, begun, accepted, consumerVars>>

\* Mutated form: a slot that still holds an item is taken for a free one.
FreeAnyway(p) == sequences[Slot(pos[p])] <= pos[p]

\* diff == 0: the slot is free for this position.
IsFree(p) == sequences[Slot(pos[p])] = pos[p]

\* diff < 0: the item a lap before is still there.
IsTaken(p) == sequences[Slot(pos[p])] < pos[p]

LookFree(p) ==
    /\ push[p] = "look" /\ IsFree(p)
    /\ Goto(p, "cas")
    /\ UNCHANGED <<buffer, sequences, head, tail, pos, item, begun, accepted, consumerVars>>

LookPassed(p) ==
    /\ push[p] = "look" /\ ~IsFree(p) /\ ~IsTaken(p)
    /\ Goto(p, "load")
    /\ UNCHANGED <<buffer, sequences, head, tail, pos, item, begun, accepted, consumerVars>>

Refuse(p) ==
    /\ push[p] = "look" /\ ~IsFree(p) /\ IsTaken(p)
    /\ item' = [item EXCEPT ![p] = None]
    /\ Goto(p, "idle")
    /\ UNCHANGED <<buffer, sequences, head, tail, pos, begun, accepted, consumerVars>>

Claim(p) ==
    /\ push[p] = "cas" /\ tail = pos[p]
    /\ tail' = tail + 1
    /\ accepted' = Append(accepted, item[p])
    /\ Goto(p, "write")
    /\ UNCHANGED <<buffer, sequences, head, pos, item, begun, consumerVars>>

\* compare_exchange_weak failed, by another's claim or for no reason: push looks
\* again at the same position.
ClaimFails(p) ==
    /\ push[p] = "cas"
    /\ Goto(p, "look")
    /\ UNCHANGED <<buffer, sequences, head, tail, pos, item, begun, accepted, consumerVars>>

WriteSlot(p) ==
    /\ push[p] = "write"
    /\ buffer' = [buffer EXCEPT ![Slot(pos[p])] = item[p]]
    /\ Goto(p, "publish")
    /\ UNCHANGED <<sequences, head, tail, pos, item, begun, accepted, consumerVars>>

Publish(p) ==
    /\ push[p] = "publish"
    /\ sequences' = [sequences EXCEPT ![Slot(pos[p])] = pos[p] + 1]
    /\ item' = [item EXCEPT ![p] = None]
    /\ Goto(p, "idle")
    /\ UNCHANGED <<buffer, head, tail, pos, begun, accepted, consumerVars>>

-----------------------------------------------------------------------------
(***************************************************************************)
(* MpscRingBuffer::pop.  The consumer is alone, so its CAS of head fails   *)
(* for no reason only, and is tried again at once.                         *)
(***************************************************************************)
BeginPop ==
    /\ pop = "idle"
    /\ pop' = "look"
    /\ UNCHANGED <<buffer, sequences, head, tail, producerVars, held, got>>

IsReady == sequences[Slot(head)] = head + 1

FindNothing ==
    /\ pop = "look" /\ ~IsReady
    /\ pop' = "idle"
    /\ UNCHANGED <<buffer, sequences, head, tail, producerVars, held, got>>

FindReady ==
    /\ pop = "look" /\ IsReady
    /\ pop' = "cas"
    /\ UNCHANGED <<buffer, sequences, head, tail, producerVars, held, got>>

AdvanceHead ==
    /\ pop = "cas"
    /\ head' = head + 1
    /\ pop' = "take"
    /\ UNCHANGED <<buffer, sequences, tail, producerVars, held, got>>

TakeSlot ==
    /\ pop = "take"
    /\ held' = buffer[Slot(head - 1)]
    /\ buffer' = [buffer EXCEPT ![Slot(head - 1)] = None]
    /\ pop' = "release"
    /\ UNCHANGED <<sequences, head, tail, producerVars, got>>

Release ==
    /\ pop = "release"
    /\ sequences' = [sequences EXCEPT ![Slot(head - 1)] = head - 1 + Capacity]
    /\ got' = Append(got, held)
    /\ held' = None
    /\ pop' = "idle"
    /\ UNCHANGED <<buffer, head, tail, producerVars>>

-----------------------------------------------------------------------------
PushStep(p) ==
    \/ LoadTail(p) \/ LookFree(p) \/ LookPassed(p) \/ Refuse(p)
    \/ Claim(p) \/ ClaimFails(p) \/ WriteSlot(p) \/ Publish(p)

PopStep == FindReady \/ AdvanceHead \/ TakeSlot

RingNext ==
    \/ \E p \in Producers : PushStep(p) \/ \E x \in Items : BeginPush(p, x)
    \/ BeginPop \/ PopStep \/ FindNothing \/ Release

RingSpec == RingInit /\ [][RingNext]_ringVars

-----------------------------------------------------------------------------
RingTypeOK ==
    /\ buffer \in [Slots -> Items \cup {None}]
    /\ sequences \in [Slots -> Nat]
    /\ head \in Nat /\ tail \in Nat
    /\ push \in [Producers -> {"idle", "load", "look", "cas", "write", "publish"}]
    /\ pos \in [Producers -> Nat]
    /\ item \in [Producers -> Items \cup {None}]
    /\ pop \in {"idle", "look", "cas", "take", "release"}
    /\ held \in Items \cup {None}
    /\ begun \in Nat
    /\ accepted \in Seq(Items)
    /\ got \in Seq(Items)

\* The position that pop() returns next, the one in its hands included.
First == IF pop \in {"take", "release"} THEN head - 1 ELSE head

\* What was claimed and not returned, in the order of the claims.
Queue == [i \in 1 .. tail - First |-> accepted[First + i]]

\* The ring implements a bounded queue of Capacity items whatever its producers
\* and its consumer do between two accesses: what push() accepted is returned by
\* pop() once, whole, in the order in which the positions were claimed, and
\* never more than Capacity of it waits.
Fifo == INSTANCE BoundedFifo WITH queue <- Queue, Size <- Capacity

ImplementsFifo == Fifo!FifoSpec
=============================================================================
