-------------------------------- MODULE SpscRing --------------------------------
(***************************************************************************)
(* The single-producer single-consumer ring of ipc-layer (RingBuffer; the  *)
(* ShmRingBuffer of shared memory runs the same protocol).  Every queue of *)
(* the engine is one: structural mutations, command bundles, garbage, the  *)
(* jobs of a worker.                                                       *)
(*                                                                         *)
(* The two ends share the slots and two indices, each written by one end   *)
(* and read by the other.  An index read across threads is an atomic load  *)
(* that may return any value the writer stored since the last one seen, so *)
(* each end works on a view of the other's index that may lag behind.      *)
(* One action is one access to shared memory.                              *)
(***************************************************************************)
EXTENDS Integers, Sequences

CONSTANTS
    Capacity,     \* slots of the ring; it holds one item less
    Items,        \* what is pushed
    None,         \* an empty slot, and no item
    MaxPushes     \* bound: how many items are accepted

ASSUME RingAssumption ==
    /\ Capacity \in Nat \ {0}
    /\ None \notin Items
    /\ MaxPushes \in Nat

Slots == 0 .. Capacity - 1

VARIABLES
    slots,        \* buffer
    head, tail,   \* the shared indices
    headSeen,     \* the producer's view of head
    tailSeen,     \* the consumer's view of tail
    producer,     \* where push() is: idle, checking for room, slot written
    item,         \* the item being pushed
    consumer,     \* where pop() or peek() is: idle, pop, peek, taken
    held,         \* the item pop() took from its slot and has not returned
    peeked,       \* history: what peek() showed since the last pop
    accepted,     \* history: items accepted so far
    got           \* history: everything pop() returned

producerVars == <<headSeen, producer, item, accepted>>
consumerVars == <<tailSeen, consumer, held, peeked, got>>
vars == <<slots, head, tail, producerVars, consumerVars>>

Init ==
    /\ slots = [i \in Slots |-> None]
    /\ head = 0 /\ tail = 0 /\ headSeen = 0 /\ tailSeen = 0
    /\ producer = "idle" /\ item = None
    /\ consumer = "idle" /\ held = None /\ peeked = None
    /\ accepted = 0
    /\ got = <<>>

-----------------------------------------------------------------------------
\* (i + 1) % capacity, of an index.
Succ(i) == IF i + 1 = Capacity THEN 0 ELSE i + 1

\* How many pushes lead from index i to index j.
Dist(i, j) == IF i <= j THEN j - i ELSE j - i + Capacity

\* The slot n pushes after index i, for n < Capacity.
SlotAfter(i, n) == IF i + n < Capacity THEN i + n ELSE i + n - Capacity

\* What a load of an index now at j may return to a thread that saw it at i.
Loads(i, j) == {k \in Slots : Dist(i, k) <= Dist(i, j)}

-----------------------------------------------------------------------------
(***************************************************************************)
(* Producer::push.                                                         *)
(***************************************************************************)
LoadHead(x) ==
    /\ producer = "idle"
    /\ accepted < MaxPushes
    /\ headSeen' \in Loads(headSeen, head)
    /\ item' = x
    /\ producer' = "check"
    /\ UNCHANGED <<slots, head, tail, accepted, consumerVars>>

\* Mutated form: the producer does not look for room.
FullNever == FALSE

Full == Succ(tail) = headSeen

Refuse ==
    /\ producer = "check"
    /\ Full
    /\ producer' = "idle"
    /\ item' = None
    /\ UNCHANGED <<slots, head, tail, headSeen, accepted, consumerVars>>

WriteSlot ==
    /\ producer = "check"
    /\ ~Full
    /\ slots' = [slots EXCEPT ![tail] = item]
    /\ producer' = "written"
    /\ UNCHANGED <<head, tail, headSeen, item, accepted, consumerVars>>

\* Mutated form: the store of the new index is lost.
StoreTailNever ==
    /\ producer = "written"
    /\ producer' = "idle"
    /\ item' = None
    /\ accepted' = accepted + 1
    /\ UNCHANGED <<slots, head, tail, headSeen, consumerVars>>

StoreTail ==
    /\ producer = "written"
    /\ tail' = Succ(tail)
    /\ producer' = "idle"
    /\ item' = None
    /\ accepted' = accepted + 1
    /\ UNCHANGED <<slots, head, headSeen, consumerVars>>

-----------------------------------------------------------------------------
(***************************************************************************)
(* Consumer::pop and Consumer::peek.                                       *)
(***************************************************************************)
LoadTail(op) ==
    /\ consumer = "idle"
    /\ tailSeen' \in Loads(tailSeen, tail)
    /\ consumer' = op
    /\ UNCHANGED <<slots, head, tail, producerVars, held, peeked, got>>

\* Mutated form: the consumer does not compare the indices.
EmptyNever == FALSE

Empty == head = tailSeen

FindEmpty ==
    /\ consumer \in {"pop", "peek"}
    /\ Empty
    /\ consumer' = "idle"
    /\ UNCHANGED <<slots, head, tail, producerVars, tailSeen, held, peeked, got>>

TakeSlot ==
    /\ consumer = "pop"
    /\ ~Empty
    /\ held' = slots[head]
    /\ slots' = [slots EXCEPT ![head] = None]
    /\ consumer' = "taken"
    /\ UNCHANGED <<head, tail, producerVars, tailSeen, peeked, got>>

StoreHead ==
    /\ consumer = "taken"
    /\ head' = Succ(head)
    /\ got' = Append(got, held)
    /\ held' = None
    /\ peeked' = None
    /\ consumer' = "idle"
    /\ UNCHANGED <<slots, tail, producerVars, tailSeen>>

PeekSlot ==
    /\ consumer = "peek"
    /\ ~Empty
    /\ peeked' = slots[head]
    /\ consumer' = "idle"
    /\ UNCHANGED <<slots, head, tail, producerVars, tailSeen, held, got>>

-----------------------------------------------------------------------------
Push == Refuse \/ WriteSlot \/ StoreTail \/ \E x \in Items : LoadHead(x)
Pop == FindEmpty \/ TakeSlot \/ StoreHead \/ LoadTail("pop")
Peek == PeekSlot \/ LoadTail("peek")

Next == Push \/ Pop \/ Peek

Spec == Init /\ [][Next]_vars

\* A push that was begun is finished, the consumer polls, and a store becomes
\* visible in the end: a load that is repeated sees the newest index.
FairSpec ==
    /\ Spec
    /\ WF_vars(Refuse \/ WriteSlot \/ StoreTail)
    /\ WF_vars(FindEmpty \/ TakeSlot \/ StoreHead \/ PeekSlot)
    /\ SF_vars(LoadTail("pop") /\ tailSeen' = tail)
-----------------------------------------------------------------------------
\* The indices stay inside the buffer.
TypeOK ==
    /\ slots \in [Slots -> Items \cup {None}]
    /\ head \in Slots /\ tail \in Slots
    /\ headSeen \in Slots /\ tailSeen \in Slots
    /\ producer \in {"idle", "check", "written"}
    /\ consumer \in {"idle", "pop", "peek", "taken"}
    /\ item \in Items \cup {None}
    /\ held \in Items \cup {None}
    /\ peeked \in Items \cup {None}
    /\ accepted \in Nat
    /\ got \in Seq(Items)

\* The unsafe blocks of push, pop and peek are sound: when both ends are about
\* to touch a slot, however old their views of each other's index are, the
\* slots are different ones.
NoRace ==
    (/\ producer = "check" /\ ~Full
     /\ consumer \in {"pop", "peek"} /\ ~Empty) => head # tail

\* ptr::write does not drop what it overwrites: push only ever writes to a
\* slot that pop has emptied, so no item (a boxed processor, on some rings)
\* is leaked or lost.
NothingOverwritten == producer = "check" /\ ~Full => slots[tail] = None

\* The items between the indices, the one in the hands of pop() included.
Queue ==
    [i \in 1 .. Dist(head, tail) |->
        IF i = 1 /\ consumer = "taken" THEN held ELSE slots[SlotAfter(head, i - 1)]]

\* What peek() showed is what the next pop() returns, whatever is pushed
\* meanwhile (the worker loop and the command kernel decide on a peek).
PeekIsNextPop == peeked # None => Queue # <<>> /\ peeked = Queue[1]

\* The ring implements a bounded queue that holds one item less than it has
\* slots: nothing is lost, invented, duplicated or reordered.
Fifo == INSTANCE BoundedFifo WITH queue <- Queue, Size <- Capacity - 1

ImplementsFifo == Fifo!FifoSpec

\* What push() accepted is popped in the end.
Delivers == \A n \in 1 .. MaxPushes : accepted >= n ~> Len(got) >= n
=============================================================================
