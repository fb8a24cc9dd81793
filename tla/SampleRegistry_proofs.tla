------------------------- MODULE SampleRegistry_proofs -------------------------
(***************************************************************************)
(* The registry is safe for any number of threads, ids and addresses: no   *)
(* call touches a freed map, and the registry implements SampleMap.        *)
(*                                                                         *)
(* The argument is the one registry.rs gives for drain_garbage.  A map is  *)
(* published, then about to be retired by the holder of write_lock, then   *)
(* retired; retiring takes the garbage lock, so no map is retired while a  *)
(* thread is past its look at the count, and that thread saw no reader.    *)
(*                                                                         *)
(* What the registry holds is the subject of the second half, where it is  *)
(* one map: see "Who keeps a sample" below.                                *)
(***************************************************************************)
EXTENDS SampleRegistry, SampleResidency, FiniteSetTheorems, TLAPS

Readers == {t \in Threads : Reading(t)}

\* What every step needs of the constants.
LEMMA ConstantFacts ==
    /\ IsFiniteSet(Threads) /\ NoThread \notin Threads
    /\ Free \notin Maps /\ NoView \notin Maps /\ NoAddr \notin Addrs
    /\ [i \in Ids |-> NoSample] \in Maps
BY RegistryAssumption DEF Maps

\* Changing one entry of a map gives a map.
LEMMA ChangedMap ==
    ASSUME NEW m \in Maps, NEW i \in Ids, NEW s \in Samples \cup {NoSample}
    PROVE  [m EXCEPT ![i] = s] \in Maps
BY DEF Maps

\* The number of readers and its changes.
LEMMA ReaderCount ==
    /\ Cardinality(Readers) \in Nat
    /\ Cardinality(Readers) = 0 <=> Readers = {}
    /\ \A t \in Threads :
          /\ t \notin Readers =>
                Cardinality(Readers \cup {t}) = Cardinality(Readers) + 1
          /\ t \in Readers =>
                /\ Cardinality(Readers \ {t}) = Cardinality(Readers) - 1
                /\ Cardinality(Readers) - 1 \in Nat
<1>1. IsFiniteSet(Readers)
  BY ConstantFacts, FS_Subset DEF Readers
<1>2. Cardinality(Readers) \in Nat
  BY <1>1, FS_CardinalityType
<1>3. Cardinality(Readers) = 0 <=> Readers = {}
  BY <1>1, FS_EmptySet
<1>4. ASSUME NEW t \in Threads, t \notin Readers
      PROVE  Cardinality(Readers \cup {t}) = Cardinality(Readers) + 1
  BY <1>1, <1>4, FS_AddElement
<1>5. ASSUME NEW t \in Threads, t \in Readers
      PROVE  Cardinality(Readers \ {t}) = Cardinality(Readers) - 1
             /\ Cardinality(Readers) - 1 \in Nat
  <2>1. Cardinality(Readers \ {t}) = Cardinality(Readers) - 1
    BY <1>1, <1>5, FS_RemoveElement
  <2>2. Cardinality(Readers) # 0
    BY <1>3, <1>5
  <2> QED
    BY <1>2, <2>1, <2>2
<1> QED
  BY <1>2, <1>3, <1>4, <1>5

\* A step that moves no thread into or out of a reading call.
LEMMA SameReaders ==
    ASSUME readers = Cardinality(Readers), Readers' = Readers, readers' = readers
    PROVE  readers' = Cardinality({t \in Threads : Reading(t)}')
BY DEF Readers

-----------------------------------------------------------------------------
(***************************************************************************)
(* The invariant, one lemma per operation.                                 *)
(***************************************************************************)
LEMMA InitInv == Init => RegistryInv
<1> SUFFICES ASSUME Init PROVE RegistryInv
  OBVIOUS
<1>1. {t \in Threads : Reading(t)} = {}
  BY DEF Init, Reading
<1>2. LocksAndCount
  BY <1>1, ConstantFacts, FS_EmptySet DEF Init, LocksAndCount, Writing, Draining
<1> QED
  BY <1>2, ConstantFacts
     DEF Init, RegistryInv, TypeOK, HeapOK, OneEntry, ReadersHoldLive

LEMMA AcquireWriteInv ==
    ASSUME RegistryInv, NEW t \in Threads, AcquireWrite(t)
    PROVE  RegistryInv'
<1> USE DEF RegistryInv
<1>1. TypeOK'
  BY DEF AcquireWrite, Goto, TypeOK
<1>2. Readers' = Readers
  BY DEF AcquireWrite, Goto, TypeOK, Readers, Reading
<1>3. LocksAndCount'
  BY <1>2, SameReaders, ConstantFacts
     DEF AcquireWrite, Goto, TypeOK, LocksAndCount, Readers, Writing, Draining
<1>4. HeapOK' /\ OneEntry' /\ ReadersHoldLive'
  BY DEF AcquireWrite, Goto, TypeOK, HeapOK, OneEntry, ReadersHoldLive
<1> QED
  BY <1>1, <1>3, <1>4

LEMMA CopyInv ==
    ASSUME RegistryInv, NEW t \in Threads,
           NEW i \in Ids, NEW s \in Samples \cup {NoSample}, Copy(t, i, s)
    PROVE  RegistryInv'
<1> USE DEF RegistryInv
<1>1. PICK a \in Addrs :
         /\ heap[a] = Free
         /\ heap' = [heap EXCEPT ![a] = [heap[inner] EXCEPT ![i] = s]]
         /\ ptr' = [ptr EXCEPT ![t] = a]
  BY DEF Copy
<1>2. alive /\ heap[inner] \in Maps /\ inner \in Addrs /\ inner \notin garbage
  BY DEF Copy, Goto, HeapOK, TypeOK
<1>3. a # inner /\ a \notin garbage
  BY <1>1, <1>2, ConstantFacts DEF HeapOK
<1>4. heap'[a] \in Maps /\ heap'[a] = [heap[inner] EXCEPT ![i] = s]
  BY <1>1, <1>2, ChangedMap DEF TypeOK
<1>5. \A b \in Addrs : b # a => heap'[b] = heap[b]
  BY <1>1 DEF TypeOK
<1>6. TypeOK'
  BY <1>1, <1>2, ChangedMap DEF Copy, Goto, TypeOK
<1>7. Readers' = Readers
  BY DEF Copy, Goto, TypeOK, Readers, Reading
<1>8. LocksAndCount'
  BY <1>7, SameReaders
     DEF Copy, Goto, TypeOK, LocksAndCount, Readers, Writing, Draining
<1>9. \A w \in Threads : Writing(w) => w = t
  BY DEF Copy, Goto, LocksAndCount, Writing
<1>10. \A w \in Threads : pc'[w] \in {"publish", "retire"} => w = t
  BY <1>9 DEF Copy, Goto, TypeOK, Writing
<1>11. ptr'[t] = a
  BY <1>1 DEF TypeOK
<1>12. HeapOK'
  <2>1. /\ UNCHANGED <<alive, inner, garbage>> /\ alive
        /\ heap'[inner] \in Maps
        /\ \A b \in garbage : heap'[b] \in Maps
    BY <1>2, <1>3, <1>5 DEF Copy, HeapOK, TypeOK
  <2> QED
    BY <1>2, <1>3, <1>4, <1>10, <1>11, <2>1 DEF HeapOK
<1>13. OneEntry'
  BY <1>1, <1>2, <1>3, <1>4, <1>5, <1>9
     DEF Copy, Goto, TypeOK, OneEntry, Writing
<1>14. \A r \in Threads : pc[r] = "read" =>
          ptr[r] \in Addrs /\ ptr[r] # a /\ ptr'[r] = ptr[r] /\ r # t
  BY <1>1, <1>2, <1>3, <1>9, ConstantFacts
     DEF Copy, Goto, TypeOK, HeapOK, ReadersHoldLive, Writing
<1>15. ReadersHoldLive'
  BY <1>1, <1>5, <1>9, <1>14
     DEF Copy, Goto, TypeOK, ReadersHoldLive, Writing
<1> QED
  BY <1>6, <1>8, <1>12, <1>13, <1>15

LEMMA MissInv ==
    ASSUME RegistryInv, NEW t \in Threads, Miss(t)
    PROVE  RegistryInv'
<1> USE DEF RegistryInv
<1>1. TypeOK'
  BY DEF Miss, Goto, TypeOK
<1>2. Readers' = Readers
  BY DEF Miss, Goto, TypeOK, Readers, Reading
<1>3. LocksAndCount'
  BY <1>2, SameReaders, ConstantFacts
     DEF Miss, Goto, TypeOK, LocksAndCount, Readers, Writing, Draining
<1>4. HeapOK'
  BY DEF Miss, Goto, TypeOK, HeapOK
<1>5. OneEntry'
  <2>1. /\ UNCHANGED <<heap, ptr, inner>>
        /\ \A w \in Threads : pc'[w] = "publish" => pc[w] = "publish"
    BY DEF Miss, Goto, TypeOK
  <2> QED
    BY <2>1 DEF OneEntry
<1>6. ReadersHoldLive'
  BY DEF Miss, Goto, TypeOK, ReadersHoldLive
<1> QED
  BY <1>1, <1>3, <1>4, <1>5, <1>6

\* What the writer replaced is what readers may still hold.
LEMMA PublishInv ==
    ASSUME RegistryInv, NEW t \in Threads, Publish(t)
    PROVE  RegistryInv'
<1> USE DEF RegistryInv
<1>1. TypeOK'
  BY DEF Publish, Goto, TypeOK, HeapOK
<1>2. Readers' = Readers
  BY DEF Publish, Goto, TypeOK, Readers, Reading
<1>3. LocksAndCount'
  BY <1>2, SameReaders
     DEF Publish, Goto, TypeOK, LocksAndCount, Readers, Writing, Draining
<1>4. \A w \in Threads : Writing(w) => w = t
  BY DEF Publish, Goto, LocksAndCount, Writing
<1>5. HeapOK'
  BY <1>4 DEF Publish, Goto, TypeOK, HeapOK, Writing
<1>6. OneEntry'
  BY <1>4 DEF Publish, Goto, TypeOK, OneEntry, Writing
<1>7. ReadersHoldLive'
  BY <1>4 DEF Publish, Goto, TypeOK, HeapOK, ReadersHoldLive, Writing
<1> QED
  BY <1>1, <1>3, <1>5, <1>6, <1>7

\* Retiring takes the garbage lock, so nobody is draining.
LEMMA RetireInv ==
    ASSUME RegistryInv, NEW t \in Threads, Retire(t)
    PROVE  RegistryInv'
<1> USE DEF RegistryInv
<1>1. TypeOK'
  BY DEF Retire, Goto, TypeOK, HeapOK
<1>2. Readers' = Readers
  BY DEF Retire, Goto, TypeOK, Readers, Reading
<1>3. LocksAndCount'
  BY <1>2, SameReaders, ConstantFacts
     DEF Retire, Goto, TypeOK, LocksAndCount, Readers, Writing, Draining
<1>4. \A w \in Threads : Writing(w) => w = t
  BY DEF Retire, Goto, LocksAndCount, Writing
<1>5. \A d \in Threads : pc[d] # "free" /\ pc'[d] # "free"
  BY ConstantFacts DEF Retire, Goto, TypeOK, LocksAndCount, Draining
<1>6. HeapOK' /\ OneEntry'
  BY <1>4 DEF Retire, Goto, TypeOK, HeapOK, OneEntry, Writing
<1>7. ReadersHoldLive'
  BY <1>4, <1>5 DEF Retire, Goto, TypeOK, HeapOK, ReadersHoldLive, Writing
<1> QED
  BY <1>1, <1>3, <1>6, <1>7

-----------------------------------------------------------------------------
LEMMA EnterInv ==
    ASSUME RegistryInv, NEW t \in Threads, Enter(t)
    PROVE  RegistryInv'
<1> USE DEF RegistryInv
<1>1. TypeOK'
  BY DEF Enter, Goto, TypeOK
<1>2. Readers' = Readers \cup {t} /\ t \notin Readers
  BY DEF Enter, Goto, TypeOK, Readers, Reading
<1>3. readers' = Cardinality(Readers')
  BY <1>2, ReaderCount DEF Enter, LocksAndCount, Readers
<1>4. LocksAndCount'
  BY <1>3 DEF Enter, Goto, TypeOK, LocksAndCount, Readers, Writing, Draining
<1>5. HeapOK' /\ OneEntry' /\ ReadersHoldLive'
  BY DEF Enter, Goto, TypeOK, HeapOK, OneEntry, ReadersHoldLive
<1> QED
  BY <1>1, <1>4, <1>5

LEMMA LoadInv ==
    ASSUME RegistryInv, NEW t \in Threads, Load(t)
    PROVE  RegistryInv'
<1> USE DEF RegistryInv
<1>1. TypeOK'
  BY DEF Load, Goto, TypeOK
<1>2. Readers' = Readers
  BY DEF Load, Goto, TypeOK, Readers, Reading
<1>3. LocksAndCount'
  BY <1>2, SameReaders
     DEF Load, Goto, TypeOK, LocksAndCount, Readers, Writing, Draining
<1>4. heap[inner] \in Maps /\ inner \notin garbage
  BY DEF Load, Goto, HeapOK
<1>5. HeapOK' /\ OneEntry'
  BY DEF Load, Goto, TypeOK, HeapOK, OneEntry
<1>6. ReadersHoldLive'
  BY <1>4 DEF Load, Goto, TypeOK, ReadersHoldLive
<1> QED
  BY <1>1, <1>3, <1>5, <1>6

LEMMA ReadInv ==
    ASSUME RegistryInv, NEW t \in Threads, Read(t)
    PROVE  RegistryInv'
<1> USE DEF RegistryInv
<1>1. TypeOK'
  BY DEF Read, Goto, TypeOK
<1>2. Readers' = Readers
  BY DEF Read, Goto, TypeOK, Readers, Reading
<1>3. LocksAndCount'
  BY <1>2, SameReaders
     DEF Read, Goto, TypeOK, LocksAndCount, Readers, Writing, Draining
<1>4. \A r \in Threads : r # t => pc'[r] = pc[r] /\ ptr'[r] = ptr[r]
  BY DEF Read, Goto, TypeOK
<1>5. pc[t] = "read" /\ pc'[t] = "leave"
  BY DEF Read, Goto, TypeOK
<1>6. HeapOK'
  BY <1>4, <1>5 DEF Read, HeapOK
<1>7. OneEntry'
  BY <1>4, <1>5 DEF Read, OneEntry
<1>8. ReadersHoldLive'
  BY <1>4, <1>5 DEF Read, ReadersHoldLive
<1> QED
  BY <1>1, <1>3, <1>6, <1>7, <1>8

LEMMA LeaveInv ==
    ASSUME RegistryInv, NEW t \in Threads, Leave(t)
    PROVE  RegistryInv'
<1> USE DEF RegistryInv
<1>1. Readers' = Readers \ {t} /\ t \in Readers
  BY DEF Leave, Goto, TypeOK, Readers, Reading
<1>2. readers' = Cardinality(Readers') /\ readers' \in Nat
  BY <1>1, ReaderCount DEF Leave, LocksAndCount, Readers
<1>3. TypeOK'
  BY <1>2 DEF Leave, Goto, TypeOK
<1>4. LocksAndCount'
  BY <1>2 DEF Leave, Goto, TypeOK, LocksAndCount, Readers, Writing, Draining
<1>5. HeapOK' /\ OneEntry' /\ ReadersHoldLive'
  BY DEF Leave, Goto, TypeOK, HeapOK, OneEntry, ReadersHoldLive
<1> QED
  BY <1>3, <1>4, <1>5

-----------------------------------------------------------------------------
LEMMA DrainLockInv ==
    ASSUME RegistryInv, NEW t \in Threads, DrainLock(t)
    PROVE  RegistryInv'
<1> USE DEF RegistryInv
<1>1. TypeOK'
  BY DEF DrainLock, Goto, TypeOK
<1>2. Readers' = Readers
  BY DEF DrainLock, Goto, TypeOK, Readers, Reading
<1>3. LocksAndCount'
  BY <1>2, SameReaders, ConstantFacts
     DEF DrainLock, Goto, TypeOK, LocksAndCount, Readers, Writing, Draining
<1>4. HeapOK' /\ OneEntry' /\ ReadersHoldLive'
  BY DEF DrainLock, Goto, TypeOK, HeapOK, OneEntry, ReadersHoldLive
<1> QED
  BY <1>1, <1>3, <1>4

\* The count is looked at under the lock: past it, nobody is reading.
LEMMA DrainCheckInv ==
    ASSUME RegistryInv, NEW t \in Threads, DrainCheck(t)
    PROVE  RegistryInv'
<1> USE DEF RegistryInv
<1>1. TypeOK'
  BY ConstantFacts DEF DrainCheck, Goto, TypeOK
<1>2. Readers' = Readers
  BY DEF DrainCheck, Goto, TypeOK, Readers, Reading
<1>3. LocksAndCount'
  BY <1>2, SameReaders, ConstantFacts
     DEF DrainCheck, Goto, TypeOK, LocksAndCount, Readers, Writing, Draining
<1>4. \A r \in Threads : r # t => pc'[r] = pc[r]
  BY DEF DrainCheck, Goto, TypeOK
<1>5. pc[t] = "check" /\ pc'[t] \in {"idle", "free"}
      /\ (pc'[t] = "free" => ~(readers > 0))
  BY DEF DrainCheck, Goto, TypeOK
<1>6. HeapOK' /\ OneEntry'
  BY <1>4, <1>5 DEF DrainCheck, HeapOK, OneEntry
<1>7. pc'[t] = "free" => \A r \in Threads : pc[r] # "read"
  BY <1>5, ReaderCount DEF TypeOK, LocksAndCount, Readers, Reading
<1>8. ReadersHoldLive'
  BY <1>4, <1>5, <1>7 DEF DrainCheck, ReadersHoldLive
<1> QED
  BY <1>1, <1>3, <1>6, <1>8

\* What is freed is retired, and no reader holds what is retired.
LEMMA DrainOneInv ==
    ASSUME RegistryInv, NEW t \in Threads, DrainOne(t)
    PROVE  RegistryInv'
<1> USE DEF RegistryInv
<1>1. PICK a \in garbage : /\ heap' = [heap EXCEPT ![a] = Free]
                           /\ garbage' = garbage \ {a}
  BY DEF DrainOne
<1>2. TypeOK'
  BY <1>1 DEF DrainOne, TypeOK
<1>3. Readers' = Readers
  BY DEF DrainOne, Readers, Reading
<1>4. LocksAndCount'
  BY <1>3, SameReaders
     DEF DrainOne, LocksAndCount, Readers, Writing, Draining
<1>5. \A b \in Addrs : b # a => heap'[b] = heap[b]
  BY <1>1 DEF TypeOK
<1>6. HeapOK'
  BY <1>1, <1>5 DEF DrainOne, TypeOK, HeapOK
<1>7. alive /\ inner # a
  BY <1>1 DEF DrainOne, HeapOK
<1>8. \A w \in Threads : pc[w] = "publish" =>
         heap'[ptr[w]] = heap[ptr[w]] /\ heap'[inner] = heap[inner]
  BY <1>1, <1>5, <1>7 DEF TypeOK, HeapOK
<1>11. OneEntry'
  BY <1>8 DEF DrainOne, OneEntry
<1>9. \A r \in Threads : pc[r] = "read" =>
         ptr[r] \in Addrs /\ ptr[r] \notin garbage
  BY DEF DrainOne, TypeOK, HeapOK, ReadersHoldLive
<1>10. ReadersHoldLive'
  BY <1>1, <1>5, <1>9 DEF DrainOne, ReadersHoldLive
<1> QED
  BY <1>2, <1>4, <1>6, <1>10, <1>11

LEMMA DrainUnlockInv ==
    ASSUME RegistryInv, NEW t \in Threads, DrainUnlock(t)
    PROVE  RegistryInv'
<1> USE DEF RegistryInv
<1>1. TypeOK'
  BY DEF DrainUnlock, Goto, TypeOK
<1>2. Readers' = Readers
  BY DEF DrainUnlock, Goto, TypeOK, Readers, Reading
<1>3. LocksAndCount'
  BY <1>2, SameReaders, ConstantFacts
     DEF DrainUnlock, Goto, TypeOK, LocksAndCount, Readers, Writing, Draining
<1>4. HeapOK'
  BY DEF DrainUnlock, Goto, TypeOK, HeapOK
<1>5. OneEntry'
  <2>1. /\ UNCHANGED <<heap, ptr, inner>>
        /\ \A w \in Threads : pc'[w] = "publish" => pc[w] = "publish"
    BY DEF DrainUnlock, Goto, TypeOK
  <2> QED
    BY <2>1 DEF OneEntry
<1>6. ReadersHoldLive'
  BY DEF DrainUnlock, Goto, TypeOK, ReadersHoldLive
<1> QED
  BY <1>1, <1>3, <1>4, <1>5, <1>6

LEMMA DropInv ==
    ASSUME RegistryInv, Drop
    PROVE  RegistryInv'
<1> USE DEF RegistryInv
<1>1. TypeOK'
  BY DEF Drop, TypeOK
<1>2. Readers' = Readers
  BY DEF Drop, Readers, Reading
<1>3. LocksAndCount'
  BY <1>2, SameReaders
     DEF Drop, LocksAndCount, Readers, Writing, Draining
<1>4. HeapOK' /\ OneEntry' /\ ReadersHoldLive'
  BY DEF Drop, TypeOK, HeapOK, OneEntry, ReadersHoldLive
<1> QED
  BY <1>1, <1>3, <1>4

\* RegistryInv is inductive.
THEOREM Invariance == Spec => []RegistryInv
<1>1. RegistryInv /\ [Next]_vars => RegistryInv'
  <2> SUFFICES ASSUME RegistryInv, [Next]_vars PROVE RegistryInv'
    OBVIOUS
  <2>1. ASSUME NEW t \in Threads, Write(t) PROVE RegistryInv'
    BY <2>1, AcquireWriteInv, CopyInv, MissInv, PublishInv, RetireInv DEF Write
  <2>2. ASSUME NEW t \in Threads, Get(t) PROVE RegistryInv'
    BY <2>2, EnterInv, LoadInv, ReadInv, LeaveInv DEF Get
  <2>3. ASSUME NEW t \in Threads, Drain(t) PROVE RegistryInv'
    BY <2>3, DrainLockInv, DrainCheckInv, DrainOneInv, DrainUnlockInv DEF Drain
  <2>4. CASE UNCHANGED vars
    BY <2>4 DEF vars, RegistryInv, TypeOK, LocksAndCount, HeapOK, OneEntry,
                ReadersHoldLive, Reading, Writing, Draining
  <2> QED
    BY <2>1, <2>2, <2>3, <2>4, DropInv DEF Next
<1> QED
  BY <1>1, InitInv, PTL DEF Spec

-----------------------------------------------------------------------------
\* No call touches a map that drain_garbage has freed, for any number of
\* threads: neither the map a reader loaded nor the one a writer copies.
THEOREM NoFreedMapIsRead == Spec => []NoUseAfterFree
<1>1. RegistryInv => NoUseAfterFree
  BY ConstantFacts
     DEF RegistryInv, HeapOK, ReadersHoldLive, NoUseAfterFree
<1> QED
  BY <1>1, Invariance, PTL

-----------------------------------------------------------------------------
(***************************************************************************)
(* The registry implements SampleMap.  Publish is the instant at which an  *)
(* entry changes, Load the one at which a reader's answer is fixed.        *)
(***************************************************************************)
TheMap == IF alive THEN heap[inner] ELSE [i \in Ids |-> NoSample]
TheView == [t \in Threads |-> IF pc[t] = "read" THEN heap[ptr[t]] ELSE NoView]

\* A reader's map stays what it is while the reader holds it.
LEMMA SameView ==
    ASSUME \A t \in Threads : pc'[t] = "read" <=> pc[t] = "read",
           \A t \in Threads : pc[t] = "read" => heap'[ptr'[t]] = heap[ptr[t]]
    PROVE  TheView' = TheView
BY DEF TheView

LEMMA QuietSteps ==
    ASSUME RegistryInv, NEW t \in Threads,
           \/ AcquireWrite(t) \/ Miss(t) \/ Retire(t) \/ Enter(t) \/ Leave(t)
           \/ DrainLock(t) \/ DrainCheck(t) \/ DrainUnlock(t)
    PROVE  TheMap' = TheMap /\ TheView' = TheView
<1>1. UNCHANGED <<heap, inner, alive>>
  BY DEF AcquireWrite, Miss, Retire, Enter, Leave, DrainLock, DrainCheck,
         DrainUnlock
<1>2. pc[t] # "read" /\ \A r \in Threads : pc'[r] = "read" <=> pc[r] = "read"
  BY DEF AcquireWrite, Miss, Retire, Enter, Leave, DrainLock, DrainCheck,
         DrainUnlock, Goto, RegistryInv, TypeOK
<1>3. \A r \in Threads : pc[r] = "read" => ptr'[r] = ptr[r]
  BY <1>2 DEF AcquireWrite, Miss, Retire, Enter, Leave, DrainLock, DrainCheck,
         DrainUnlock, RegistryInv, TypeOK
<1> QED
  BY <1>1, <1>2, <1>3, SameView DEF TheMap

LEMMA CopyIsQuiet ==
    ASSUME RegistryInv, NEW t \in Threads,
           NEW i \in Ids, NEW s \in Samples \cup {NoSample}, Copy(t, i, s)
    PROVE  TheMap' = TheMap /\ TheView' = TheView
<1> USE DEF RegistryInv
<1>1. PICK a \in Addrs :
         /\ heap[a] = Free
         /\ heap' = [heap EXCEPT ![a] = [heap[inner] EXCEPT ![i] = s]]
         /\ ptr' = [ptr EXCEPT ![t] = a]
  BY DEF Copy
<1>2. \A b \in Addrs : b # a => heap'[b] = heap[b]
  BY <1>1 DEF TypeOK
<1>3. alive /\ inner # a /\ inner \in Addrs
  BY <1>1, ConstantFacts DEF Copy, Goto, HeapOK, TypeOK
<1>4. pc[t] # "read" /\ \A r \in Threads : pc'[r] = "read" <=> pc[r] = "read"
  BY DEF Copy, Goto, TypeOK
<1>5. \A r \in Threads : pc[r] = "read" =>
         ptr[r] \in Addrs /\ ptr[r] # a /\ ptr'[r] = ptr[r]
  BY <1>1, <1>3, <1>4, ConstantFacts DEF HeapOK, ReadersHoldLive, TypeOK
<1> QED
  BY <1>2, <1>3, <1>4, <1>5, SameView DEF TheMap, Copy

LEMMA DrainOneIsQuiet ==
    ASSUME RegistryInv, NEW t \in Threads, DrainOne(t)
    PROVE  TheMap' = TheMap /\ TheView' = TheView
<1> USE DEF RegistryInv
<1>1. PICK a \in garbage : heap' = [heap EXCEPT ![a] = Free]
  BY DEF DrainOne
<1>2. \A b \in Addrs : b # a => heap'[b] = heap[b]
  BY <1>1 DEF TypeOK
<1>3. alive /\ inner # a /\ inner \in Addrs
  BY <1>1 DEF DrainOne, HeapOK, TypeOK
<1>4. \A r \in Threads : pc[r] = "read" => ptr[r] \in Addrs /\ ptr[r] # a
  BY <1>1 DEF DrainOne, TypeOK, HeapOK, ReadersHoldLive
<1> QED
  BY <1>2, <1>3, <1>4, SameView DEF TheMap, DrainOne

LEMMA PublishPuts ==
    ASSUME RegistryInv, NEW t \in Threads, Publish(t)
    PROVE  \E i \in Ids, s \in Samples \cup {NoSample} :
              TheMap' = [TheMap EXCEPT ![i] = s] /\ TheView' = TheView
<1> USE DEF RegistryInv
<1>1. alive /\ alive' /\ heap' = heap /\ inner' = ptr[t]
  BY DEF Publish, Goto, HeapOK
<1>2. PICK i \in Ids, s \in Samples \cup {NoSample} :
         heap[ptr[t]] = [heap[inner] EXCEPT ![i] = s]
  BY DEF Publish, Goto, OneEntry
<1>3. pc[t] # "read" /\ \A r \in Threads : pc'[r] = "read" <=> pc[r] = "read"
  BY DEF Publish, Goto, TypeOK
<1>4. \A r \in Threads : pc[r] = "read" => ptr'[r] = ptr[r]
  BY <1>3 DEF Publish, TypeOK
<1>5. TheView' = TheView
  BY <1>1, <1>3, <1>4, SameView
<1> QED
  BY <1>1, <1>2, <1>5 DEF TheMap

LEMMA LoadLooks ==
    ASSUME RegistryInv, NEW t \in Threads, Load(t)
    PROVE  /\ TheView[t] = NoView
           /\ TheView' = [TheView EXCEPT ![t] = TheMap]
           /\ TheMap' = TheMap
<1> USE DEF RegistryInv
<1>1. pc[t] = "load" /\ alive /\ pc' = [pc EXCEPT ![t] = "read"]
      /\ ptr' = [ptr EXCEPT ![t] = inner] /\ UNCHANGED <<heap, inner, alive>>
  BY DEF Load, Goto, HeapOK
<1>2. /\ pc'[t] = "read" /\ ptr'[t] = inner
      /\ \A r \in Threads : r # t => pc'[r] = pc[r] /\ ptr'[r] = ptr[r]
  BY <1>1 DEF TypeOK
<1>3. TheMap' = TheMap /\ TheMap = heap[inner]
  BY <1>1 DEF TheMap
<1>4. \A r \in Threads : TheView'[r] = IF r = t THEN TheMap ELSE TheView[r]
  BY <1>1, <1>2, <1>3 DEF TheView
<1>5. TheView[t] = NoView
  BY <1>1 DEF TheView
<1>6. TheView' = [TheView EXCEPT ![t] = TheMap]
  BY <1>4 DEF TheView
<1> QED
  BY <1>3, <1>5, <1>6

LEMMA ReadAnswers ==
    ASSUME RegistryInv, NEW t \in Threads, Read(t)
    PROVE  /\ TheView[t] # NoView
           /\ TheView' = [TheView EXCEPT ![t] = NoView]
           /\ TheMap' = TheMap
<1> USE DEF RegistryInv
<1>1. pc[t] = "read" /\ pc' = [pc EXCEPT ![t] = "leave"]
      /\ ptr' = [ptr EXCEPT ![t] = NoAddr] /\ UNCHANGED <<heap, inner, alive>>
  BY DEF Read, Goto
<1>2. heap[ptr[t]] \in Maps
  BY <1>1 DEF ReadersHoldLive
<1>3. \A r \in Threads : TheView'[r] = IF r = t THEN NoView ELSE TheView[r]
  BY <1>1 DEF TypeOK, TheView
<1>4. TheView[t] # NoView
  BY <1>1, <1>2, ConstantFacts DEF TheView
<1>5. TheView' = [TheView EXCEPT ![t] = NoView]
  BY <1>3 DEF TheView
<1>6. TheMap' = TheMap
  BY <1>1 DEF TheMap
<1> QED
  BY <1>4, <1>5, <1>6

LEMMA DropDrops ==
    ASSUME RegistryInv, Drop
    PROVE  /\ \A t \in Threads : TheView[t] = NoView
           /\ TheMap' = [i \in Ids |-> NoSample]
           /\ TheView' = TheView
BY DEF Drop, TheView, TheMap

\* The registry is one map changed one entry at a time, and every reader
\* answers from the map as it was at one instant of its call.
THEOREM RegistryRefines == Spec => ImplementsSampleMap
<1>1. Init => Abstract!Init
  <2> SUFFICES ASSUME Init
               PROVE  TheMap = [i \in Ids |-> NoSample]
                      /\ TheView = [t \in Threads |-> NoView]
    BY DEF Abstract!Init, TheMap, TheView
  <2> QED
    BY DEF Init, TheMap, TheView
<1>2. RegistryInv /\ [Next]_vars => [Abstract!Next]_(<<TheMap, TheView>>)
  <2> SUFFICES ASSUME RegistryInv, [Next]_vars
               PROVE  Abstract!Next \/ UNCHANGED <<TheMap, TheView>>
    OBVIOUS
  <2>1. ASSUME NEW t \in Threads, Publish(t) PROVE Abstract!Next
    BY <2>1, PublishPuts DEF Abstract!Next, Abstract!Put, TheMap, TheView
  <2>2. ASSUME NEW t \in Threads, Load(t) PROVE Abstract!Next
    BY <2>2, LoadLooks DEF Abstract!Next, Abstract!Look, TheMap, TheView
  <2>3. ASSUME NEW t \in Threads, Read(t) PROVE Abstract!Next
    BY <2>3, ReadAnswers DEF Abstract!Next, Abstract!Answer, TheMap, TheView
  <2>4. CASE Drop
    BY <2>4, DropDrops DEF Abstract!Next, Abstract!Drop, TheMap, TheView
  <2>5. ASSUME NEW t \in Threads, Write(t) PROVE Publish(t) \/ UNCHANGED <<TheMap, TheView>>
    BY <2>5, QuietSteps, CopyIsQuiet DEF Write
  <2>6. ASSUME NEW t \in Threads, Get(t)
        PROVE  Load(t) \/ Read(t) \/ UNCHANGED <<TheMap, TheView>>
    BY <2>6, QuietSteps DEF Get
  <2>7. ASSUME NEW t \in Threads, Drain(t) PROVE UNCHANGED <<TheMap, TheView>>
    BY <2>7, QuietSteps, DrainOneIsQuiet DEF Drain
  <2>8. CASE UNCHANGED vars
    BY <2>8 DEF vars, TheMap, TheView
  <2> QED
    BY <2>1, <2>2, <2>3, <2>4, <2>5, <2>6, <2>7, <2>8 DEF Next
<1> QED
  BY <1>1, <1>2, Invariance, PTL
     DEF Spec, ImplementsSampleMap, Abstract!Spec, TheMap, TheView

-----------------------------------------------------------------------------
(***************************************************************************)
(* Who keeps a sample.  The sweep evicts only what may be released, and    *)
(* analysis never brings back what was evicted, for any library, decks,    *)
(* scanners and bounds.                                                    *)
(*                                                                         *)
(* Two facts carry the argument.  The conductor takes one step at a time,  *)
(* so what a sweep pinned when it began is what is in use until it ends.   *)
(* And what the worker has in hand is not analysed yet, so no sweep evicts *)
(* it; it is analysed only after it was registered again.                  *)
(***************************************************************************)
\* What is in use cannot change under a sweep.
SweepPins == sweep # None => sweep.pinned = Pinned

\* What the worker fetched is registered, and not analysed before it is marked.
InHand ==
    /\ \A i \in SampleIds : i \in batch \/ results[i] # None \/ i = marking =>
                          i \notin analysed
    /\ \A i \in SampleIds : results[i] # None \/ i = marking => registry[i] # None
    /\ marking # None => batch = {} /\ results[marking] = None

IInv == ResidencyTypeOK /\ SweepPins /\ InHand

LEMMA NoneIsNothing ==
    None \notin SampleIds /\ None \notin Audio /\ None # "undecoded" /\ None # "registered"
BY ResidencyAssumption DEF Audio

LEMMA ResidencyInitInv == ResidencyInit => IInv
<1> SUFFICES ASSUME ResidencyInit PROVE IInv
  OBVIOUS
<1>1. ResidencyTypeOK
  BY DEF ResidencyInit, ResidencyTypeOK, NoWork
<1>2. SweepPins /\ InHand
  BY NoneIsNothing DEF ResidencyInit, SweepPins, InHand, NoWork
<1> QED
  BY <1>1, <1>2 DEF IInv

-----------------------------------------------------------------------------
(***************************************************************************)
(* Registering, whoever does it, evicts nothing.                           *)
(***************************************************************************)
LEMMA RegisterKeeps ==
    ASSUME ResidencyTypeOK, NEW i \in SampleIds, NEW audio \in Audio, Register(i, audio)
    PROVE  /\ registry' \in [SampleIds -> Audio \cup {None}]
           /\ \A j \in SampleIds : registry[j] # None => registry'[j] # None
           /\ registry'[i] # None
BY NoneIsNothing DEF Register, ResidencyTypeOK

\* A step of the scanner, a hydration thread, the conductor between sweeps,
\* the audio thread or the disk: it may register, and leaves the worker alone.
LEMMA OthersKeepInHand ==
    ASSUME IInv, UNCHANGED workVars,
           \A j \in SampleIds : registry[j] # None => registry'[j] # None
    PROVE  InHand'
BY DEF IInv, InHand, workVars

LEMMA ScanInv ==
    ASSUME IInv, NEW s \in Scanners, Scan(s)
    PROVE  IInv' /\ \A j \in SampleIds : registry[j] # None => registry'[j] # None
<1>1. CASE \E t \in Tracks : ScanDecode(s, t)
  <2>1. ResidencyTypeOK'
    BY <1>1 DEF IInv, ResidencyTypeOK, ScanDecode, workVars, hydraVars, libraryVars, editVars
  <2>2. registry' = registry /\ UNCHANGED <<workVars, sweep, pending, deck>>
    BY <1>1 DEF ScanDecode, workVars, hydraVars, sweepVars, deckVars
  <2> QED
    BY <2>1, <2>2, OthersKeepInHand DEF IInv, SweepPins, Pinned
<1>2. CASE ScanMark(s)
  <2>1. ResidencyTypeOK'
    BY <1>2 DEF IInv, ResidencyTypeOK, ScanMark, workVars, hydraVars, libraryVars, editVars,
       Decoded, Audio
  <2>2. registry' = registry /\ UNCHANGED <<workVars, sweep, pending, deck>>
    BY <1>2 DEF ScanMark, workVars, hydraVars, sweepVars, deckVars
  <2> QED
    BY <2>1, <2>2, OthersKeepInHand DEF IInv, SweepPins, Pinned
<1>3. CASE ScanRegister(s)
  <2>1. scan[s].id \in Tracks /\ scan[s].id \in SampleIds /\ scan[s].audio \in Audio
    BY <1>3 DEF IInv, ResidencyTypeOK, ScanRegister, SampleIds
  <2>2. /\ registry' \in [SampleIds -> Audio \cup {None}]
        /\ \A j \in SampleIds : registry[j] # None => registry'[j] # None
    BY <1>3, <2>1, RegisterKeeps DEF ScanRegister, IInv
  <2>3. ResidencyTypeOK'
    BY <1>3, <2>1, <2>2 DEF IInv, ResidencyTypeOK, ScanRegister, workVars, hydraVars, editVars
  <2>4. UNCHANGED <<workVars, sweep, pending, deck>>
    BY <1>3 DEF ScanRegister, workVars, hydraVars, sweepVars, deckVars
  <2> QED
    BY <2>2, <2>3, <2>4, OthersKeepInHand DEF IInv, SweepPins, Pinned
<1> QED
  BY <1>1, <1>2, <1>3 DEF Scan
-----------------------------------------------------------------------------
(***************************************************************************)
(* The analysis worker.                                                    *)
(***************************************************************************)
LEMMA WorkLeaves ==
    ASSUME Work
    PROVE  UNCHANGED <<libraryVars, scanVars, hydraVars, sweepVars, deckVars, editVars>>
BY DEF Work, WorkerList, WorkerFetch, WorkerRegister, WorkerMark

LEMMA WorkInv ==
    ASSUME IInv, Work
    PROVE  /\ IInv'
           /\ \A j \in SampleIds : registry[j] # None => registry'[j] # None
           /\ marking' # marking /\ marking' # None => registry[marking'] # None
<1> DEFINE Goal ==
       /\ registry' \in [SampleIds -> Audio \cup {None}]
       /\ analysed' \subseteq SampleIds /\ batch' \subseteq SampleIds
       /\ results' \in [SampleIds -> Audio \cup {None}]
       /\ marking' \in SampleIds \cup {None}
       /\ InHand'
       /\ \A j \in SampleIds : registry[j] # None => registry'[j] # None
       /\ marking' # marking /\ marking' # None => registry[marking'] # None
<1>1. ASSUME WorkerList PROVE Goal
  BY <1>1, NoneIsNothing
     DEF IInv, ResidencyTypeOK, InHand, WorkerList, WorkerIdle, NoWork, Resident
<1>2. ASSUME NEW i \in SampleIds, WorkerFetch(i) PROVE Goal
  <2>1. i \in batch /\ batch' = batch \ {i} /\ marking = None
        /\ results' = [results EXCEPT ![i] = registry[i]]
        /\ UNCHANGED <<registry, analysed, marking>>
    BY <1>2 DEF WorkerFetch, IInv, InHand
  <2>2. registry[i] \in Audio \cup {None}
    BY DEF IInv, ResidencyTypeOK
  <2> QED
    BY <2>1, <2>2, NoneIsNothing DEF IInv, ResidencyTypeOK, InHand
<1>3. ASSUME NEW i \in SampleIds, WorkerRegister(i) PROVE Goal
  <2>1. /\ batch = {} /\ marking = None /\ results[i] \in Audio
        /\ results' = [results EXCEPT ![i] = None]
        /\ marking' = i /\ UNCHANGED <<analysed, batch>>
    BY <1>3 DEF WorkerRegister, IInv, ResidencyTypeOK
  <2>2. /\ registry' \in [SampleIds -> Audio \cup {None}]
        /\ \A j \in SampleIds : registry[j] # None => registry'[j] # None
        /\ registry'[i] # None
    BY <1>3, <2>1, RegisterKeeps DEF WorkerRegister, IInv
  <2>3. registry[i] # None /\ i \notin analysed
    BY <2>1, NoneIsNothing DEF IInv, InHand
  <2> QED
    BY <2>1, <2>2, <2>3, NoneIsNothing DEF IInv, ResidencyTypeOK, InHand
<1>4. ASSUME WorkerMark PROVE Goal
  BY <1>4, NoneIsNothing DEF IInv, ResidencyTypeOK, InHand, WorkerMark
<1>5. Goal
  BY <1>1, <1>2, <1>3, <1>4 DEF Work
<1>6. ResidencyTypeOK'
  BY <1>5, WorkLeaves DEF IInv, ResidencyTypeOK, libraryVars, scanVars, hydraVars, editVars
<1>7. SweepPins'
  BY WorkLeaves DEF IInv, SweepPins, Pinned, sweepVars, hydraVars, deckVars
<1> QED
  BY <1>5, <1>6, <1>7 DEF IInv

-----------------------------------------------------------------------------
(***************************************************************************)
(* Hydration threads, the audio thread, the disk.                          *)
(***************************************************************************)
LEMMA HydratorInv ==
    ASSUME IInv, NEW t \in Tracks, Hydrator(t)
    PROVE  IInv' /\ \A j \in SampleIds : registry[j] # None => registry'[j] # None
<1>1. UNCHANGED <<workVars, sweep, pending, deck>>
      /\ UNCHANGED <<libraryVars, scanVars, editVars>>
  BY DEF Hydrator, HydratorDecode, HydratorRegister, HydratorReport, sweepVars, deckVars
<1>2. hydrator' \in [Tracks -> Audio \cup {None, "undecoded", "registered"}]
  BY DEF Hydrator, HydratorDecode, HydratorRegister, HydratorReport, IInv, ResidencyTypeOK,
         Decoded, Audio
<1>3. /\ registry' \in [SampleIds -> Audio \cup {None}]
      /\ \A j \in SampleIds : registry[j] # None => registry'[j] # None
  <2>1. CASE HydratorRegister(t)
    <3>1. hydrator[t] \in Audio /\ t \in SampleIds
      BY <2>1 DEF HydratorRegister, Audio, SampleIds
    <3> QED
      BY <2>1, <3>1, RegisterKeeps DEF HydratorRegister, IInv
  <2>2. CASE HydratorDecode(t) \/ HydratorReport(t)
    BY <2>2 DEF HydratorDecode, HydratorReport, IInv, ResidencyTypeOK
  <2> QED
    BY <2>1, <2>2 DEF Hydrator
<1>4. ResidencyTypeOK'
  BY <1>1, <1>2, <1>3 DEF IInv, ResidencyTypeOK, workVars, libraryVars, scanVars, editVars
<1> QED
  BY <1>1, <1>3, <1>4, OthersKeepInHand DEF IInv, SweepPins, Pinned

LEMMA AudioInv ==
    ASSUME IInv, AddSourceFromRegistry
    PROVE  IInv' /\ registry' = registry
<1>1. UNCHANGED <<registry, workVars, sweep, hydraVars, deck, libraryVars, scanVars, editVars>>
  BY DEF AddSourceFromRegistry, sweepVars
<1>2. ResidencyTypeOK'
  BY <1>1 DEF IInv, ResidencyTypeOK, workVars, libraryVars, scanVars, hydraVars, editVars
<1> QED
  BY <1>1, <1>2, OthersKeepInHand DEF IInv, SweepPins, Pinned, hydraVars

LEMMA UnplugInv ==
    ASSUME IInv, Unplug
    PROVE  IInv' /\ registry' = registry
<1>1. UNCHANGED <<registry, rows, workVars, sweep, hydraVars, deck, scanVars, editVars>>
  BY DEF Unplug, sweepVars, deckVars
<1>2. ResidencyTypeOK'
  BY <1>1 DEF IInv, ResidencyTypeOK, Unplug, workVars, scanVars, hydraVars, editVars
<1> QED
  BY <1>1, <1>2, OthersKeepInHand DEF IInv, SweepPins, Pinned, hydraVars

-----------------------------------------------------------------------------
(***************************************************************************)
(* The conductor between sweeps: deck loads, edits, captures, re-drives.   *)
(***************************************************************************)
LEMMA DeckLoadInv ==
    ASSUME IInv, NEW d \in Decks, NEW i \in SampleIds, LoadTrackToDeck(d, i)
    PROVE  IInv' /\ registry' = registry
<1>1. UNCHANGED <<registry, workVars, sweep, libraryVars, scanVars, editVars>> /\ sweep = None
  BY DEF LoadTrackToDeck, ConductorIdle, sweepVars
<1>2. /\ pending' \subseteq Tracks
      /\ hydrator' \in [Tracks -> Audio \cup {None, "undecoded", "registered"}]
  BY DEF LoadTrackToDeck, Hydrate, NeedsHydration, IInv, ResidencyTypeOK
<1>3. ResidencyTypeOK'
  BY <1>1, <1>2 DEF IInv, ResidencyTypeOK, workVars, libraryVars, scanVars, editVars
<1> QED
  BY <1>1, <1>3, OthersKeepInHand DEF IInv, SweepPins

LEMMA RedriveInv ==
    ASSUME IInv, NEW t \in Tracks, Redrive(t)
    PROVE  IInv' /\ registry' = registry
<1>1. UNCHANGED <<registry, workVars, sweep, libraryVars, scanVars, editVars>> /\ sweep = None
  BY DEF Redrive, ConductorIdle, sweepVars
<1>2. /\ pending' \subseteq Tracks
      /\ hydrator' \in [Tracks -> Audio \cup {None, "undecoded", "registered"}]
  BY DEF Redrive, IInv, ResidencyTypeOK
<1>3. ResidencyTypeOK'
  BY <1>1, <1>2 DEF IInv, ResidencyTypeOK, workVars, libraryVars, scanVars, editVars
<1> QED
  BY <1>1, <1>3, OthersKeepInHand DEF IInv, SweepPins

LEMMA EditInv ==
    ASSUME IInv, EditRegister \/ \E i \in SampleIds : EditGet(i) \/ Capture(i)
    PROVE  IInv' /\ \A j \in SampleIds : registry[j] # None => registry'[j] # None
<1>1. UNCHANGED <<workVars, sweep, pending, deck, libraryVars, scanVars, hydraVars>>
  BY DEF EditRegister, EditGet, Capture, sweepVars, hydraVars, deckVars
<1>2. edit' \in SampleIds \cup {None}
  BY DEF EditRegister, EditGet, Capture, IInv, ResidencyTypeOK
<1>3. /\ registry' \in [SampleIds -> Audio \cup {None}]
      /\ \A j \in SampleIds : registry[j] # None => registry'[j] # None
  <2>1. CASE EditRegister
    <3>1. edit \in SampleIds /\ "edited" \in Audio
      BY <2>1 DEF EditRegister, IInv, ResidencyTypeOK, Audio
    <3> QED
      BY <2>1, <3>1, RegisterKeeps DEF EditRegister, IInv
  <2>2. ASSUME NEW i \in SampleIds, Capture(i)
        PROVE  /\ registry' \in [SampleIds -> Audio \cup {None}]
               /\ \A j \in SampleIds : registry[j] # None => registry'[j] # None
    BY <2>2, RegisterKeeps DEF Capture, IInv, Audio
  <2>3. CASE \E i \in SampleIds : EditGet(i)
    BY <2>3 DEF EditGet, IInv, ResidencyTypeOK
  <2> QED
    BY <2>1, <2>2, <2>3
<1>4. ResidencyTypeOK'
  BY <1>1, <1>2, <1>3 DEF IInv, ResidencyTypeOK, workVars, libraryVars, scanVars, hydraVars
<1> QED
  BY <1>1, <1>3, <1>4, OthersKeepInHand DEF IInv, SweepPins, Pinned

-----------------------------------------------------------------------------
(***************************************************************************)
(* The sweep.                                                              *)
(***************************************************************************)
\* What a sweep may evict.
Releasable(i) ==
    /\ \A d \in Decks : deck[d] # i
    /\ i \notin pending
    /\ i \in analysed
    /\ i \in Tracks /\ mounted

LEMMA SweepLeaves ==
    ASSUME Sweep
    PROVE  UNCHANGED <<workVars, pending, deck, libraryVars, scanVars, hydraVars, editVars>>
BY DEF Sweep, SweepStart, SweepOne, SweepEnd, hydraVars, deckVars

LEMMA SweepEvicts ==
    ASSUME IInv, Sweep
    PROVE  /\ registry' \in [SampleIds -> Audio \cup {None}]
           /\ \A i \in SampleIds : \/ registry'[i] = registry[i]
                             \/ Releasable(i)
<1>1. CASE SweepStart \/ SweepEnd
  BY <1>1 DEF SweepStart, SweepEnd, IInv, ResidencyTypeOK
<1>2. ASSUME NEW i \in SampleIds, SweepOne(i)
      PROVE  /\ registry' \in [SampleIds -> Audio \cup {None}]
             /\ \A j \in SampleIds : registry'[j] = registry[j] \/ Releasable(j)
  <2>1. CASE Evictable(i)
    <3>1. registry' = [registry EXCEPT ![i] = None]
      BY <1>2, <2>1 DEF SweepOne, Register
    <3>2. i \notin Pinned
      BY <1>2, <2>1 DEF SweepOne, Evictable, IInv, SweepPins
    <3>3. Releasable(i)
      BY <2>1, <3>2 DEF Evictable, Recoverable, Releasable, Pinned, IInv, ResidencyTypeOK
    <3> QED
      BY <3>1, <3>3 DEF IInv, ResidencyTypeOK
  <2>2. CASE ~Evictable(i)
    BY <1>2, <2>2 DEF SweepOne, IInv, ResidencyTypeOK
  <2> QED
    BY <2>1, <2>2
<1> QED
  BY <1>1, <1>2 DEF Sweep

LEMMA SweepInv ==
    ASSUME IInv, Sweep
    PROVE  IInv'
<1>1. ResidencyTypeOK'
  BY SweepLeaves, SweepEvicts
     DEF IInv, ResidencyTypeOK, workVars, libraryVars, scanVars, hydraVars, editVars
<1>2. InHand'
  BY SweepLeaves, SweepEvicts DEF IInv, InHand, workVars, Releasable
<1>3. SweepPins'
  <2>1. CASE SweepStart
    BY <2>1, SweepLeaves DEF SweepStart, SweepPins, Pinned
  <2>2. ASSUME NEW i \in SampleIds, SweepOne(i) PROVE SweepPins'
    BY <2>2, SweepLeaves DEF SweepOne, IInv, SweepPins, Pinned
  <2>3. CASE SweepEnd
    BY <2>3 DEF SweepEnd, SweepPins
  <2> QED
    BY <2>1, <2>2, <2>3 DEF Sweep
<1> QED
  BY <1>1, <1>2, <1>3 DEF IInv

-----------------------------------------------------------------------------
\* What one step of the whole system does.
LEMMA Step ==
    ASSUME IInv, [ResidencyNext]_residencyVars
    PROVE  /\ IInv'
           /\ \A i \in SampleIds : registry[i] # None /\ registry'[i] = None =>
                                       Releasable(i)
           /\ marking' # marking /\ marking' # None => registry[marking'] # None
<1>1. CASE UNCHANGED residencyVars
  <2>1. UNCHANGED <<registry, libraryVars, scanVars, workVars, hydraVars, sweep, deck, editVars>>
    BY <1>1 DEF residencyVars, sweepVars, deckVars
  <2>2. ResidencyTypeOK'
    BY <2>1 DEF IInv, ResidencyTypeOK, workVars, libraryVars, scanVars, hydraVars, editVars
  <2> QED
    BY <2>1, <2>2, OthersKeepInHand DEF IInv, SweepPins, Pinned, hydraVars, workVars
<1>2. CASE Work
  BY <1>2, WorkInv
<1>3. CASE Sweep
  BY <1>3, SweepInv, SweepEvicts, SweepLeaves DEF workVars
<1>4. CASE \/ \E s \in Scanners : Scan(s)
           \/ \E t \in Tracks : Hydrator(t) \/ Redrive(t)
           \/ EditRegister \/ Request \/ AddSourceFromRegistry \/ Unplug
  <2>1. IInv' /\ \A j \in SampleIds : registry[j] # None => registry'[j] # None
    BY <1>4, ScanInv, HydratorInv, RedriveInv, EditInv, DeckLoadInv, AudioInv, UnplugInv
       DEF Request
  <2>2. marking' = marking
    BY <1>4 DEF Scan, ScanDecode, ScanMark, ScanRegister, Hydrator, HydratorDecode,
                HydratorRegister, HydratorReport, Redrive, EditRegister, Request,
                LoadTrackToDeck, EditGet, Capture, AddSourceFromRegistry, Unplug,
                workVars
  <2> QED
    BY <2>1, <2>2
<1> QED
  BY <1>1, <1>2, <1>3, <1>4 DEF ResidencyNext, Tick

LEMMA ResidencyInvariance == ResidencySpec => []IInv
BY ResidencyInitInv, Step, PTL DEF ResidencySpec

\* The sweep never evicts a sample that a deck holds, that is being decoded,
\* that analysis is not done with or that no file can bring back.
THEOREM SweepsOnlyTheReleasable == ResidencySpec => EvictsTheReleasable
<1>1. IInv /\ [ResidencyNext]_residencyVars =>
        [\A i \in SampleIds : registry[i] # None /\ registry'[i] = None =>
            /\ \A d \in Decks : deck[d] # i
            /\ i \notin pending
            /\ i \in analysed
            /\ i \in Tracks /\ mounted]_residencyVars
  BY Step DEF Releasable
<1> QED
  BY <1>1, ResidencyInvariance, PTL DEF ResidencySpec, EvictsTheReleasable

\* Analysis never brings back a sample that was evicted under its hands.
THEOREM AnalysisBringsNothingBack == ResidencySpec => WorkerAddsNothing
<1>1. IInv /\ [ResidencyNext]_residencyVars =>
        [marking' # marking /\ marking' # None => registry[marking'] # None]_residencyVars
  BY Step
<1> QED
  BY <1>1, ResidencyInvariance, PTL DEF ResidencySpec, WorkerAddsNothing
=============================================================================
