---------------------------- MODULE SampleRegistry ----------------------------
(***************************************************************************)
(* nullherz_dna::SampleRegistry: a map behind an atomic pointer.  A writer *)
(* copies the map, changes the copy and publishes it; the map it replaced  *)
(* goes on a garbage list; readers count themselves in and out, and        *)
(* drain_garbage frees the list when it finds the count at zero.           *)
(*                                                                         *)
(* The heap is modelled by address, and an address that was freed can be   *)
(* allocated again: a reader left with a freed pointer may find another    *)
(* map there.  Any thread may make any call (the registry is shared as     *)
(* Arc<dyn SampleRegistry>).                                               *)
(*                                                                         *)
(* Atomic accesses are interleaved: sequential consistency is assumed.     *)
(* The code has it for the count of the readers only; `inner' is stored    *)
(* with Release and loaded with Acquire, which alone does not order a      *)
(* reader's load after its increment in the eyes of drain_garbage.         *)
(***************************************************************************)
EXTENDS Naturals, FiniteSets

CONSTANTS
    Threads,    \* the threads that hold the registry
    Ids,        \* the sample ids
    Samples,    \* what can be registered under an id
    NoSample,   \* the id is not registered
    Addrs,      \* bound: addresses a map can be allocated at
    Free,       \* nothing is allocated at the address
    NoThread,   \* nobody holds the lock
    NoAddr,     \* the thread holds no pointer
    NoView,     \* (of SampleMap) the thread is not reading
    Ticker      \* the orchestration thread

Maps == [Ids -> Samples \cup {NoSample}]

ASSUME RegistryAssumption ==
    /\ IsFiniteSet(Threads)
    /\ NoThread \notin Threads
    /\ NoSample \notin Samples
    /\ Free \notin Maps
    /\ NoView \notin Maps
    /\ Addrs # {}
    /\ NoAddr \notin Addrs

VARIABLES
    heap,        \* what is allocated at each address
    inner,       \* the published map
    garbage,     \* retired maps that are not freed yet
    readers,     \* the number of calls that may be reading a map
    write_lock,  \* the thread that holds write_lock
    garbage_lock,\* the thread that holds garbage's lock
    pc,          \* where each thread is
    ptr,         \* the local pointer of each thread's call, if it has one
    alive        \* the registry has not been dropped

vars == <<heap, inner, garbage, readers, write_lock, garbage_lock, pc, ptr,
          alive>>

Init ==
    /\ inner \in Addrs
    /\ heap = [a \in Addrs |-> IF a = inner
                               THEN [i \in Ids |-> NoSample] ELSE Free]
    /\ garbage = {}
    /\ readers = 0
    /\ write_lock = NoThread
    /\ garbage_lock = NoThread
    /\ pc = [t \in Threads |-> "idle"]
    /\ ptr = [t \in Threads |-> NoAddr]
    /\ alive = TRUE

Goto(t, from, to) ==
    /\ pc[t] = from
    /\ pc' = [pc EXCEPT ![t] = to]

-----------------------------------------------------------------------------
(* register, register_with_metadata and remove.  A writer starts only while *)
(* an address is free: Addrs bounds how many maps there are at a time.      *)

\* Mutated form: a writer that does not wait for the one before it.
AcquireAnyway(t) ==
    /\ alive
    /\ \E a \in Addrs : heap[a] = Free
    /\ Goto(t, "idle", "copy")
    /\ write_lock' = t
    /\ UNCHANGED <<heap, inner, garbage, readers, garbage_lock, ptr, alive>>

AcquireWrite(t) ==
    /\ alive
    /\ \E a \in Addrs : heap[a] = Free
    /\ Goto(t, "idle", "copy")
    /\ write_lock = NoThread
    /\ write_lock' = t
    /\ UNCHANGED <<heap, inner, garbage, readers, garbage_lock, ptr, alive>>

\* Clone the published map, change one entry of the clone and box it.
Copy(t, i, s) ==
    /\ Goto(t, "copy", "publish")
    /\ s = NoSample => heap[inner][i] # NoSample
    /\ \E a \in Addrs :
          /\ heap[a] = Free
          /\ heap' = [heap EXCEPT ![a] = [heap[inner] EXCEPT ![i] = s]]
          /\ ptr' = [ptr EXCEPT ![t] = a]
    /\ UNCHANGED <<inner, garbage, readers, write_lock, garbage_lock, alive>>

\* remove finds nothing under the id.
Miss(t) ==
    /\ Goto(t, "copy", "idle")
    /\ \E i \in Ids : heap[inner][i] = NoSample
    /\ write_lock' = NoThread
    /\ UNCHANGED <<heap, inner, garbage, readers, garbage_lock, ptr, alive>>

\* inner.store(new_ptr): from here the thread holds old_ptr.
Publish(t) ==
    /\ Goto(t, "publish", "retire")
    /\ inner' = ptr[t]
    /\ ptr' = [ptr EXCEPT ![t] = inner]
    /\ UNCHANGED <<heap, garbage, readers, write_lock, garbage_lock, alive>>

\* garbage.lock().push(old_ptr), then the locks are released.
Retire(t) ==
    /\ Goto(t, "retire", "idle")
    /\ garbage_lock = NoThread
    /\ garbage' = garbage \cup {ptr[t]}
    /\ ptr' = [ptr EXCEPT ![t] = NoAddr]
    /\ write_lock' = NoThread
    /\ UNCHANGED <<heap, inner, readers, garbage_lock, alive>>

-----------------------------------------------------------------------------
(* get and list_ids.                                                       *)
Enter(t) ==
    /\ alive
    /\ Goto(t, "idle", "load")
    /\ readers' = readers + 1
    /\ UNCHANGED <<heap, inner, garbage, write_lock, garbage_lock, ptr, alive>>

\* The pointer as it was published last (see the assumption above).
Load(t) ==
    /\ Goto(t, "load", "read")
    /\ ptr' = [ptr EXCEPT ![t] = inner]
    /\ UNCHANGED <<heap, inner, garbage, readers, write_lock, garbage_lock,
                   alive>>

\* The map is read; the answer is a copy.
Read(t) ==
    /\ Goto(t, "read", "leave")
    /\ ptr' = [ptr EXCEPT ![t] = NoAddr]
    /\ UNCHANGED <<heap, inner, garbage, readers, write_lock, garbage_lock,
                   alive>>

\* Mutated form: a reader that forgets to count itself out.
LeaveUncounted(t) ==
    /\ Goto(t, "leave", "idle")
    /\ UNCHANGED <<heap, inner, garbage, readers, write_lock, garbage_lock, ptr,
                   alive>>

Leave(t) ==
    /\ Goto(t, "leave", "idle")
    /\ readers' = readers - 1
    /\ UNCHANGED <<heap, inner, garbage, write_lock, garbage_lock, ptr, alive>>

-----------------------------------------------------------------------------
(* drain_garbage: the lock first, the count second.                        *)
DrainLock(t) ==
    /\ alive
    /\ Goto(t, "idle", "check")
    /\ garbage_lock = NoThread
    /\ garbage_lock' = t
    /\ UNCHANGED <<heap, inner, garbage, readers, write_lock, ptr, alive>>

DrainCheck(t) ==
    /\ IF readers > 0
       THEN Goto(t, "check", "idle") /\ garbage_lock' = NoThread
       ELSE Goto(t, "check", "free") /\ UNCHANGED garbage_lock
    /\ UNCHANGED <<heap, inner, garbage, readers, write_lock, ptr, alive>>

DrainOne(t) ==
    /\ pc[t] = "free"
    /\ \E a \in garbage :
          /\ heap' = [heap EXCEPT ![a] = Free]
          /\ garbage' = garbage \ {a}
    /\ UNCHANGED <<inner, readers, write_lock, garbage_lock, pc, ptr, alive>>

DrainUnlock(t) ==
    /\ garbage = {}
    /\ Goto(t, "free", "idle")
    /\ garbage_lock' = NoThread
    /\ UNCHANGED <<heap, inner, garbage, readers, write_lock, ptr, alive>>

-----------------------------------------------------------------------------
\* Drop: the last Arc is gone, so no call is in progress.  The published map
\* is freed, then drain_garbage frees the retired ones.
Drop ==
    /\ alive
    /\ \A t \in Threads : pc[t] = "idle"
    /\ alive' = FALSE
    /\ heap' = [a \in Addrs |-> IF \/ a = inner
                                   \/ readers = 0 /\ a \in garbage
                                THEN Free ELSE heap[a]]
    /\ garbage' = IF readers = 0 THEN {} ELSE garbage
    /\ UNCHANGED <<inner, readers, write_lock, garbage_lock, pc, ptr>>

Write(t) ==
    \/ AcquireWrite(t)
    \/ \E i \in Ids, s \in Samples \cup {NoSample} : Copy(t, i, s)
    \/ Miss(t)
    \/ Publish(t)
    \/ Retire(t)

Get(t) == Enter(t) \/ Load(t) \/ Read(t) \/ Leave(t)

\* Mutated form: the count first and the lock second, as it once was.
DrainCountFirst(t) ==
    \/ /\ readers = 0
       /\ Goto(t, "idle", "check")
       /\ UNCHANGED <<heap, inner, garbage, readers, write_lock, garbage_lock,
                      ptr, alive>>
    \/ /\ garbage_lock = NoThread
       /\ Goto(t, "check", "free")
       /\ garbage_lock' = t
       /\ UNCHANGED <<heap, inner, garbage, readers, write_lock, ptr, alive>>
    \/ DrainOne(t)
    \/ DrainUnlock(t)

Drain(t) == DrainLock(t) \/ DrainCheck(t) \/ DrainOne(t) \/ DrainUnlock(t)

Next == (\E t \in Threads : Write(t) \/ Get(t) \/ Drain(t)) \/ Drop

Spec == Init /\ [][Next]_vars

\* A call that has begun goes on to its end: the OS schedules every thread and
\* parking_lot's locks are eventually fair.  The orchestration thread calls
\* drain_garbage on every tick.
Proceed(t) ==
    \/ \E i \in Ids, s \in Samples \cup {NoSample} : Copy(t, i, s)
    \/ Miss(t) \/ Publish(t) \/ Load(t) \/ Read(t) \/ Leave(t)
    \/ DrainCheck(t) \/ DrainOne(t) \/ DrainUnlock(t)

FairSpec ==
    /\ Spec
    /\ \A t \in Threads : WF_vars(Proceed(t)) /\ SF_vars(Retire(t))
    /\ SF_vars(DrainLock(Ticker))

-----------------------------------------------------------------------------
Reading(t) == pc[t] \in {"load", "read", "leave"}
Writing(t) == pc[t] \in {"copy", "publish", "retire"}
Draining(t) == pc[t] \in {"check", "free"}

TypeOK ==
    /\ heap \in [Addrs -> Maps \cup {Free}]
    /\ inner \in Addrs
    /\ garbage \in SUBSET Addrs
    /\ readers \in Nat
    /\ write_lock \in Threads \cup {NoThread}
    /\ garbage_lock \in Threads \cup {NoThread}
    /\ pc \in [Threads -> {"idle", "copy", "publish", "retire", "load", "read",
                           "leave", "check", "free"}]
    /\ ptr \in [Threads -> Addrs \cup {NoAddr}]
    /\ alive \in BOOLEAN

\* Each lock is held by the thread that is in its critical section, and the
\* reader count is the number of calls between fetch_add and fetch_sub.
LocksAndCount ==
    /\ \A t \in Threads : Writing(t) <=> write_lock = t
    /\ \A t \in Threads : Draining(t) <=> garbage_lock = t
    /\ readers = Cardinality({t \in Threads : Reading(t)})

\* What is published is allocated and not retired; what is retired is
\* allocated; a writer works on a map of its own that nobody else can reach.
HeapOK ==
    /\ alive => heap[inner] \in Maps /\ inner \notin garbage
    /\ \A a \in garbage : heap[a] \in Maps
    /\ \A t \in Threads : pc[t] \in {"publish", "retire"} =>
          /\ ptr[t] \in Addrs /\ heap[ptr[t]] \in Maps
          /\ ptr[t] # inner /\ ptr[t] \notin garbage
    /\ ~alive => \A t \in Threads : pc[t] = "idle"

\* A writer's copy differs from the published map in one entry.
OneEntry ==
    \A t \in Threads : pc[t] = "publish" =>
        \E i \in Ids, s \in Samples \cup {NoSample} :
            heap[ptr[t]] = [heap[inner] EXCEPT ![i] = s]

\* A map a reader holds is published, or about to be retired, or retired; and
\* it is not retired while a thread is past the check of drain_garbage.
ReadersHoldLive ==
    \A t \in Threads : pc[t] = "read" =>
        /\ heap[ptr[t]] \in Maps
        /\ \/ ptr[t] = inner
           \/ ptr[t] \in garbage
           \/ \E w \in Threads : pc[w] = "retire" /\ ptr[w] = ptr[t]
        /\ ptr[t] \in garbage => \A d \in Threads : pc[d] # "free"

RegistryInv == TypeOK /\ LocksAndCount /\ HeapOK /\ OneEntry /\ ReadersHoldLive

\* No call touches a map that drain_garbage has freed: not a reader the map it
\* loaded, not a writer the map it copies, and no map is retired twice or freed
\* while it is published (registry.rs, the ordering drain_garbage explains).
NoUseAfterFree ==
    /\ \A t \in Threads : pc[t] = "read" => heap[ptr[t]] # Free
    /\ \A t \in Threads : pc[t] = "copy" => heap[inner] # Free
    /\ \A t \in Threads : pc[t] = "retire" => ptr[t] \notin garbage
    /\ alive => heap[inner] # Free /\ inner \notin garbage

\* The registry is a map changed one entry at a time, and get and list_ids
\* answer from it as it was at one instant of the call: the map a reader loaded
\* neither changes nor is replaced under it, and no writer undoes another.
Abstract == INSTANCE SampleMap WITH
    map <- IF alive THEN heap[inner] ELSE [i \in Ids |-> NoSample],
    view <- [t \in Threads |-> IF pc[t] = "read" THEN heap[ptr[t]] ELSE NoView]

ImplementsSampleMap == Abstract!Spec

\* A retired map is freed once readers leave the registry alone for a while
\* (registry.rs says no more: one active reader defers all reclamation).
Reclaims ==
    <>[](\A t \in Threads : ~Reading(t)) =>
        \A a \in Addrs : a \in garbage ~> (a \notin garbage)
=============================================================================
