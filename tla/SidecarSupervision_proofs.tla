----------------------- MODULE SidecarSupervision_proofs -----------------------
(***************************************************************************)
(* The supervision of sidecars keeps its books, for any number of nodes,   *)
(* plugins, restarts and loads and any size of the topology ring: the      *)
(* memory quota is exact, and segments are mapped as long as a processor   *)
(* that reads them plays or is on its way to the audio thread.             *)
(*                                                                         *)
(* Both rest on where a processor can be: with supervise(), in the ring or *)
(* at a node, in one of these places and once.                             *)
(***************************************************************************)
EXTENDS SidecarSupervision, FiniteSetTheorems, SequenceTheorems, WellFoundedInduction, TLAPS

Queued == {ring[k].proc : k \in DOMAIN ring}
Playing == {playing[n] : n \in Nodes}

\* A processor owns its segments exactly while it plays or is on its way.
ProcessorsHeld ==
    \A i \in Spawned :
        sidecar[i].proc = "held" <=> i \in recovered \cup Queued \cup Playing

\* No processor is in two places.
OnePlace ==
    /\ recovered \cap (Queued \cup Playing) = {}
    /\ Queued \cap Playing \cap Spawned = {}
    /\ \A k, l \in DOMAIN ring :
         ring[k].proc = ring[l].proc /\ ring[k].proc \in Spawned => k = l
    /\ \A m, n \in Nodes : playing[m] = playing[n] /\ playing[m] \in Spawned => m = n

\* What waits to be restarted has a restart left.
RestartsLeft == \A i \in toRestart : sidecar[i].restarts < MaxRestarts

\* The list of stalled nodes is used up before anything else happens.
StalledInPhase == phase # "stalled" => stalled = {}

Inv == TypeOK /\ QuotaExact /\ RestartsLeft /\ StalledInPhase /\ ProcessorsHeld /\ OnePlace

-----------------------------------------------------------------------------
(***************************************************************************)
(* Lists of instances.                                                     *)
(***************************************************************************)
LEMMA FirstFacts ==
  ASSUME NEW S, S \subseteq Nat, S # {}
  PROVE  First(S) \in S
<1>1. PICK R : IsWellFoundedOn(R, Nat) /\ \A x, y \in Nat : y < x => <<y, x>> \in R
  <2>1. \A x, y \in Nat : y < x => <<y, x>> \in OpToRel(<, Nat)
    BY DEF OpToRel
  <2> QED
    BY <2>1, NatLessThanWellFounded, Zenon
<1>2. PICK x \in S : \A y \in S : ~ (<<y, x>> \in R)
  BY <1>1, WFMin
<1>3. \A y \in S : ~ (y < x)
  BY <1>1, <1>2
<1>4. \A y \in S : x <= y
  BY <1>3
<1> QED
  BY <1>4, Zenon DEF First

LEMMA SpawnedFacts ==
  ASSUME TypeOK
  PROVE  /\ Len(sidecar) \in Nat /\ Spawned = DOMAIN sidecar
         /\ Spawned \subseteq Nat /\ Spawned \subseteq Instances
         /\ IsFiniteSet(handles) /\ Cardinality(handles) \in Nat
         /\ \A i \in Spawned : sidecar[i] \in Sidecar
         /\ None \notin Spawned /\ Fallback \notin Spawned
         /\ Len(sidecar) + 1 \notin Spawned
<1>1. Len(sidecar) \in Nat /\ Spawned = DOMAIN sidecar /\ Len(sidecar) <= MaxSpawns
  BY LenProperties DEF TypeOK, Spawned
<1>2. Spawned \subseteq Nat /\ Spawned \subseteq Instances
  BY <1>1, SidecarAssumption DEF Spawned, Instances
<1>3. IsFiniteSet(Spawned)
  BY <1>1, FS_Interval DEF Spawned
<1>4. IsFiniteSet(handles) /\ Cardinality(handles) \in Nat
  BY <1>3, FS_Subset, FS_CardinalityType DEF TypeOK
<1>5. \A i \in Spawned : sidecar[i] \in Sidecar
  BY ElementOfSeq DEF TypeOK, Spawned
<1>6. None \notin Spawned /\ Fallback \notin Spawned
  BY <1>2, SidecarAssumption
<1>7. Len(sidecar) + 1 \notin Spawned
  BY <1>1 DEF Spawned
<1> QED
  BY <1>1, <1>2, <1>4, <1>5, <1>6, <1>7

\* An instance that changes.
LEMMA BecomesFacts ==
  ASSUME TypeOK, NEW i \in Spawned, NEW s \in Sidecar, Becomes(i, s)
  PROVE  /\ sidecar' \in Seq(Sidecar) /\ Len(sidecar') = Len(sidecar) /\ Spawned' = Spawned
         /\ \A j \in Spawned : sidecar'[j] = IF j = i THEN s ELSE sidecar[j]
BY ExceptSeq DEF TypeOK, Spawned, Becomes

\* A pass over all instances.
LEMMA PassFacts ==
  ASSUME TypeOK, NEW f \in [Spawned -> Sidecar], sidecar' = f
  PROVE  /\ sidecar' \in Seq(Sidecar) /\ Len(sidecar') = Len(sidecar) /\ Spawned' = Spawned
<1>1. Len(sidecar) \in Nat
  BY LenProperties DEF TypeOK
<1>2. f \in Seq(Sidecar)
  BY <1>1 DEF Spawned
<1>3. Len(f) = Len(sidecar)
  BY <1>1, <1>2, LenProperties DEF Spawned
<1> QED
  BY <1>2, <1>3 DEF Spawned

\* An instance that is born.
LEMMA SpawnFacts ==
  ASSUME TypeOK, NEW p \in Plugins, NEW n \in Nodes, NEW c \in 0 .. MaxRestarts,
         NEW x \in {"held", "freed"}, SpawnSucceeds(p, n, c, x)
  PROVE  /\ sidecar' \in Seq(Sidecar) /\ Len(sidecar') = Len(sidecar) + 1
         /\ Len(sidecar') <= MaxSpawns
         /\ Spawned' = Spawned \cup {Len(sidecar) + 1}
         /\ \A j \in Spawned : sidecar'[j] = sidecar[j]
         /\ sidecar'[Len(sidecar) + 1].proc = x
<1>1. NewSidecar(p, n, c, x) \in Sidecar /\ NewSidecar(p, n, c, x).proc = x
  BY DEF NewSidecar, Sidecar
<1>2. Len(sidecar) \in Nat /\ Len(sidecar) < MaxSpawns
  BY SpawnedFacts DEF SpawnSucceeds
<1>3. sidecar' = Append(sidecar, NewSidecar(p, n, c, x))
  BY DEF SpawnSucceeds
<1> QED
  BY <1>1, <1>2, <1>3, SidecarAssumption DEF TypeOK, Spawned

-----------------------------------------------------------------------------
(***************************************************************************)
(* The initial state, and the steps that leave the processors where they   *)
(* are.                                                                    *)
(***************************************************************************)
LEMMA InitInv == Init => Inv
<1> SUFFICES ASSUME Init PROVE Inv
  OBVIOUS
<1>1. /\ sidecar = <<>> /\ ring = <<>> /\ handles = {} /\ usage = 0
      /\ toRestart = {} /\ recovered = {} /\ stalled = {}
      /\ playing = [n \in Nodes |-> None] /\ named = [p \in Plugins |-> None]
      /\ phase = "idle" /\ loads = 0
  BY DEF Init
<1>2. Len(sidecar) = 0 /\ Spawned = {} /\ DOMAIN ring = {}
  BY <1>1 DEF Spawned
<1>3. TypeOK
  BY <1>1, <1>2, SidecarAssumption, EmptySeq DEF TypeOK
<1>4. QuotaExact
  BY <1>1, FS_EmptySet DEF QuotaExact
<1>5. RestartsLeft /\ StalledInPhase /\ ProcessorsHeld /\ OnePlace
  BY <1>1, <1>2 DEF RestartsLeft, StalledInPhase, ProcessorsHeld, OnePlace
<1> QED
  BY <1>3, <1>4, <1>5 DEF Inv

\* A step that changes one instance, but neither its processor nor its restarts.
LEMMA ChildInv ==
  ASSUME Inv, NEW i \in Spawned, NEW s \in Sidecar, Becomes(i, s),
         s.proc = sidecar[i].proc, s.restarts = sidecar[i].restarts,
         UNCHANGED <<handles, usage, named, ring, playing, tickVars, loads>>
  PROVE  Inv'
<1> USE DEF Inv
<1>1. /\ sidecar' \in Seq(Sidecar) /\ Len(sidecar') = Len(sidecar) /\ Spawned' = Spawned
      /\ \A j \in Spawned : sidecar'[j] = IF j = i THEN s ELSE sidecar[j]
  BY BecomesFacts
<1>2. TypeOK'
  BY <1>1 DEF TypeOK, tickVars
<1>3. QuotaExact'
  BY DEF QuotaExact
<1>4. \A j \in Spawned : /\ sidecar'[j].proc = sidecar[j].proc
                         /\ sidecar'[j].restarts = sidecar[j].restarts
  BY <1>1
<1>5. RestartsLeft' /\ StalledInPhase'
  BY <1>4 DEF RestartsLeft, StalledInPhase, tickVars, TypeOK
<1>6. Queued' = Queued /\ Playing' = Playing /\ recovered' = recovered
  BY DEF Queued, Playing, tickVars
<1>7. ProcessorsHeld'
  BY <1>1, <1>4, <1>6 DEF ProcessorsHeld
<1>8. OnePlace'
  BY <1>1, <1>6 DEF OnePlace
<1> QED
  BY <1>2, <1>3, <1>5, <1>7, <1>8

LEMMA ChildStepInv ==
  ASSUME Inv, NEW i \in Spawned, Open(i) \/ Beat(i) \/ Hang(i) \/ Exit(i) \/ Elapse(i)
  PROVE  Inv'
<1>1. sidecar[i] \in Sidecar
  BY SpawnedFacts DEF Inv
<1>2. CASE Open(i)
  <2> DEFINE seg == named[sidecar[i].plugin]
             s == [sidecar[i] EXCEPT !.attached = seg,
                                     !.child = IF seg = None THEN "dead" ELSE "up"]
  <2>1. seg \in Instances \cup {None}
    BY <1>1 DEF Inv, TypeOK, Sidecar
  <2>2. s \in Sidecar /\ s.proc = sidecar[i].proc /\ s.restarts = sidecar[i].restarts
    BY <1>1, <2>1 DEF Sidecar
  <2>3. Becomes(i, s) /\ UNCHANGED <<handles, usage, named, ring, playing, tickVars, loads>>
    BY <1>2 DEF Open
  <2> HIDE DEF s
  <2> QED
    BY <2>2, <2>3, ChildInv
<1>3. CASE Beat(i)
  <2> DEFINE s == [sidecar[i] EXCEPT !.beat = TRUE]
  <2>1. s \in Sidecar /\ s.proc = sidecar[i].proc /\ s.restarts = sidecar[i].restarts
    BY <1>1 DEF Sidecar
  <2>2. Becomes(i, s) /\ UNCHANGED <<handles, usage, named, ring, playing, tickVars, loads>>
    BY <1>3 DEF Beat
  <2> HIDE DEF s
  <2> QED
    BY <2>1, <2>2, ChildInv
<1>4. ASSUME NEW c \in {"hung", "dead"},
             Becomes(i, [sidecar[i] EXCEPT !.child = c, !.attached = None]),
             UNCHANGED <<handles, usage, named, ring, playing, tickVars, loads>>
      PROVE  Inv'
  <2> DEFINE s == [sidecar[i] EXCEPT !.child = c, !.attached = None]
  <2>1. s \in Sidecar /\ s.proc = sidecar[i].proc /\ s.restarts = sidecar[i].restarts
    BY <1>1 DEF Sidecar
  <2> HIDE DEF s
  <2> QED
    BY <1>4, <2>1, ChildInv DEF s
<1>5. CASE Hang(i) \/ Exit(i)
  BY <1>4, <1>5 DEF Hang, Exit
<1>6. ASSUME NEW a \in {"200ms", "5s"},
             Becomes(i, [sidecar[i] EXCEPT !.age = a]),
             UNCHANGED <<handles, usage, named, ring, playing, tickVars, loads>>
      PROVE  Inv'
  <2> DEFINE s == [sidecar[i] EXCEPT !.age = a]
  <2>1. s \in Sidecar /\ s.proc = sidecar[i].proc /\ s.restarts = sidecar[i].restarts
    BY <1>1 DEF Sidecar
  <2> HIDE DEF s
  <2> QED
    BY <1>6, <2>1, ChildInv DEF s
<1>7. CASE Elapse(i)
  BY <1>6, <1>7 DEF Elapse
<1> QED
  BY <1>2, <1>3, <1>5, <1>7

LEMMA ListStalledNodesInv == ASSUME Inv, ListStalledNodes PROVE Inv'
<1> USE DEF Inv, ListStalledNodes
<1>1. Spawned' = Spawned
  BY DEF Spawned
<1>2. TypeOK'
  BY <1>1 DEF TypeOK
<1>3. QuotaExact' /\ RestartsLeft' /\ StalledInPhase'
  BY DEF QuotaExact, RestartsLeft, StalledInPhase
<1>4. Queued' = Queued /\ Playing' = Playing /\ recovered' = recovered
  BY DEF Queued, Playing
<1>5. ProcessorsHeld' /\ OnePlace'
  BY <1>1, <1>4 DEF ProcessorsHeld, OnePlace
<1> QED
  BY <1>2, <1>3, <1>5

\* Those to be restarted leave the list and give back their quota.
LEMMA SuperviseInv == ASSUME Inv, Supervise PROVE Inv'
<1>0. PICK oom \in SUBSET {i \in Spawned : Watched(i)} :
        LET R == {i \in Spawned : Watched(i) /\ Failed(i, oom) /\ MayRestart(i)}
            last == {sidecar[i].plugin : i \in {i \in R : sidecar[i].proc = "freed"}}
        IN /\ sidecar' = [i \in Spawned |->
                             IF Watched(i) THEN Supervised(i, oom) ELSE sidecar[i]]
           /\ handles' = handles \ R
           /\ toRestart' = R
           /\ usage' = usage - Cardinality(R)
           /\ named' = [p \in Plugins |-> IF p \in last THEN None ELSE named[p]]
  BY DEF Supervise
<1> DEFINE R == {i \in Spawned : Watched(i) /\ Failed(i, oom) /\ MayRestart(i)}
           f == [i \in Spawned |-> IF Watched(i) THEN Supervised(i, oom) ELSE sidecar[i]]
<1>1. /\ sidecar' = f /\ handles' = handles \ R /\ toRestart' = R
      /\ usage' = usage - Cardinality(R) /\ phase' \in {"first", "second"}
      /\ UNCHANGED <<ring, playing, recovered, stalled, loads>>
      /\ phase = "idle" \/ stalled = {}
  BY <1>0 DEF Supervise
<1>2. ASSUME NEW i \in Spawned
      PROVE  /\ f[i] \in Sidecar
             /\ f[i].proc = sidecar[i].proc /\ f[i].restarts = sidecar[i].restarts
  <2>1. sidecar[i] \in Sidecar
    BY SpawnedFacts DEF Inv
  <2>2. /\ Supervised(i, oom) \in Sidecar
        /\ Supervised(i, oom).proc = sidecar[i].proc
        /\ Supervised(i, oom).restarts = sidecar[i].restarts
    BY <2>1 DEF Supervised, Sidecar
  <2> QED
    BY <2>1, <2>2
<1>3. f \in [Spawned -> Sidecar]
  BY <1>2
<1>4. R \subseteq handles
  BY DEF Watched, Listed
<1>5. named' \in [Plugins -> Instances \cup {None}]
  BY <1>0 DEF Inv, TypeOK
<1>6. \A i \in R : sidecar[i].restarts < MaxRestarts
  BY DEF MayRestart
<1>7. R \subseteq Spawned
  OBVIOUS
<1> HIDE DEF R, f
<1>8. sidecar' \in Seq(Sidecar) /\ Len(sidecar') = Len(sidecar) /\ Spawned' = Spawned
  BY <1>1, <1>3, PassFacts DEF Inv
<1>9. IsFiniteSet(handles) /\ Cardinality(handles) \in Nat
  BY SpawnedFacts DEF Inv
<1>10. /\ Cardinality(R) \in Nat /\ Cardinality(R) <= Cardinality(handles)
       /\ Cardinality(handles \ R) = Cardinality(handles) - Cardinality(R)
  <2>1. IsFiniteSet(R) /\ Cardinality(R) <= Cardinality(handles)
    BY <1>4, <1>9, FS_Subset
  <2>2. handles \cap R = R
    BY <1>4
  <2>3. Cardinality(handles \ R) = Cardinality(handles) - Cardinality(handles \cap R)
    BY <1>9, FS_Difference
  <2> QED
    BY <2>1, <2>2, <2>3, FS_CardinalityType
<1>11. QuotaExact' /\ usage' \in Nat
  BY <1>1, <1>9, <1>10 DEF Inv, QuotaExact
<1>12. TypeOK' /\ StalledInPhase'
  <2>1. stalled = {}
    BY <1>1 DEF Inv, StalledInPhase
  <2> QED
    BY <1>1, <1>5, <1>7, <1>8, <1>11, <2>1 DEF Inv, TypeOK, StalledInPhase
<1>13. RestartsLeft'
  BY <1>1, <1>2, <1>6, <1>7 DEF RestartsLeft
<1>14. Queued' = Queued /\ Playing' = Playing /\ recovered' = recovered
  BY <1>1 DEF Queued, Playing
<1>15. ProcessorsHeld' /\ OnePlace'
  BY <1>1, <1>2, <1>8, <1>14 DEF Inv, ProcessorsHeld, OnePlace
<1> QED
  BY <1>11, <1>12, <1>13, <1>15 DEF Inv

-----------------------------------------------------------------------------
(***************************************************************************)
(* The topology ring.                                                      *)
(***************************************************************************)
LEMMA RingFacts ==
  ASSUME Inv
  PROVE  /\ Len(ring) \in Nat /\ DOMAIN ring = 1 .. Len(ring)
         /\ \A k \in DOMAIN ring : ring[k].node \in Nodes /\ ring[k].proc \in Spawned \cup {Fallback}
         /\ Queued \subseteq Spawned \cup {Fallback}
         /\ Playing \subseteq Spawned \cup {None, Fallback}
<1>1. ring \in Seq([node : Nodes, proc : Spawned \cup {Fallback}])
  BY DEF Inv, TypeOK
<1>2. Len(ring) \in Nat /\ DOMAIN ring = 1 .. Len(ring)
  BY <1>1, LenProperties
<1>3. \A k \in DOMAIN ring : ring[k] \in [node : Nodes, proc : Spawned \cup {Fallback}]
  BY <1>1, <1>2, ElementOfSeq
<1>4. Playing \subseteq Spawned \cup {None, Fallback}
  BY DEF Inv, TypeOK, Playing
<1> QED
  BY <1>2, <1>3, <1>4 DEF Queued

LEMMA PushFacts ==
  ASSUME Inv, Spawned \subseteq Spawned',
         NEW e \in [node : Nodes, proc : Spawned' \cup {Fallback}], ring' = Append(ring, e)
  PROVE  /\ (ring \in Seq([node : Nodes, proc : Spawned \cup {Fallback}]))'
         /\ Queued' = Queued \cup {e.proc}
         /\ \A k \in DOMAIN ring' : \/ k \in DOMAIN ring /\ ring'[k] = ring[k]
                                    \/ k = Len(ring) + 1 /\ ring'[k] = e
<1> DEFINE M == [node : Nodes, proc : Spawned' \cup {Fallback}]
<1>1. ring \in Seq(M)
  <2>1. [node : Nodes, proc : Spawned \cup {Fallback}] \subseteq M
    OBVIOUS
  <2> HIDE DEF M
  <2> QED
    BY <2>1, SeqMonotonic DEF Inv, TypeOK
<1>2. e \in M
  OBVIOUS
<1> HIDE DEF M
<1>3. /\ ring' \in Seq(M) /\ Len(ring) \in Nat /\ DOMAIN ring = 1 .. Len(ring)
      /\ DOMAIN ring' = 1 .. Len(ring) + 1
      /\ \A k \in 1 .. Len(ring) : ring'[k] = ring[k]
      /\ ring'[Len(ring) + 1] = e
  BY <1>1, <1>2
<1>4. \A k \in DOMAIN ring' : \/ k \in DOMAIN ring /\ ring'[k] = ring[k]
                              \/ k = Len(ring) + 1 /\ ring'[k] = e
  BY <1>3
<1>5. Queued' = Queued \cup {e.proc}
  <2>1. \A x : x \in Queued' <=> \E k \in DOMAIN ring' : x = ring'[k].proc
    BY DEF Queued
  <2>2. \A x : x \in Queued <=> \E k \in DOMAIN ring : x = ring[k].proc
    BY DEF Queued
  <2>3. Len(ring) + 1 \in DOMAIN ring' /\ \A k \in DOMAIN ring : k \in DOMAIN ring'
    BY <1>3
  <2> QED
    BY <1>3, <1>4, <2>1, <2>2, <2>3
<1> QED
  BY <1>3, <1>4, <1>5 DEF M

\* A fresh processor in the ring has one place.
LEMMA PushOnePlace ==
  ASSUME Inv, Spawned \subseteq Spawned', Spawned' \cap (Queued \cup Playing) \subseteq Spawned,
         NEW e \in [node : Nodes, proc : Spawned' \cup {Fallback}], ring' = Append(ring, e),
         e.proc \in Spawned' => e.proc \notin Queued \cup Playing,
         playing' = playing, recovered' \cap (Queued \cup Playing \cup {e.proc}) = {}
  PROVE  OnePlace'
<1>1. Playing' = Playing /\ Queued' = Queued \cup {e.proc}
  BY PushFacts DEF Playing
<1>2. recovered' \cap (Queued' \cup Playing') = {}
  BY <1>1
<1>3. Queued' \cap Playing' \cap Spawned' = {}
  BY <1>1 DEF Inv, OnePlace
<1>4. ASSUME NEW k \in DOMAIN ring', NEW l \in DOMAIN ring',
             ring'[k].proc = ring'[l].proc, ring'[k].proc \in Spawned'
      PROVE  k = l
  <2>1. \A j \in DOMAIN ring' : \/ j \in DOMAIN ring /\ ring'[j] = ring[j]
                                \/ j = Len(ring) + 1 /\ ring'[j] = e
    BY PushFacts
  <2>2. \A j \in DOMAIN ring : ring[j].proc \in Queued
    BY DEF Queued
  <2>3. CASE k \in DOMAIN ring /\ ring'[k] = ring[k] /\ l \in DOMAIN ring /\ ring'[l] = ring[l]
    <3>1. ring[k].proc = ring[l].proc /\ ring[k].proc \in Spawned
      BY <1>4, <2>2, <2>3
    <3> QED
      BY <2>3, <3>1 DEF Inv, OnePlace
  <2> QED
    BY <1>4, <2>1, <2>2, <2>3
<1>5. ASSUME NEW m \in Nodes, NEW n \in Nodes, playing'[m] = playing'[n], playing'[m] \in Spawned'
      PROVE  m = n
  <2>1. playing[m] \in Spawned
    BY <1>5 DEF Playing
  <2> QED
    BY <1>5, <2>1 DEF Inv, OnePlace
<1> QED
  BY <1>2, <1>3, <1>4, <1>5 DEF OnePlace

\* The mutation the audio thread takes.
LEMMA TakeFacts ==
  ASSUME Inv, ring # <<>>, ring' = Tail(ring), Spawned' = Spawned
  PROVE  /\ (ring \in Seq([node : Nodes, proc : Spawned \cup {Fallback}]))'
         /\ Head(ring).node \in Nodes /\ Head(ring).proc \in Queued
         /\ \A i \in Spawned : i \in Queued' <=> i \in Queued /\ i # Head(ring).proc
         /\ \A k, l \in DOMAIN ring' :
              ring'[k].proc = ring'[l].proc /\ ring'[k].proc \in Spawned => k = l
<1> DEFINE M == [node : Nodes, proc : Spawned \cup {Fallback}]
<1>1. ring \in Seq(M)
  BY DEF Inv, TypeOK
<1>2. M' = M
  OBVIOUS
<1>3. \A e \in M : e.node \in Nodes
  OBVIOUS
<1> HIDE DEF M
<1>4. /\ ring' \in Seq(M) /\ Head(ring) \in M /\ Head(ring) = ring[1]
      /\ Len(ring) \in Nat \ {0} /\ DOMAIN ring = 1 .. Len(ring)
      /\ DOMAIN ring' = 1 .. Len(ring) - 1
      /\ \A k \in 1 .. Len(ring) - 1 : ring'[k] = ring[k + 1]
  BY <1>1
<1>5. \A k \in DOMAIN ring' : k + 1 \in DOMAIN ring /\ ring'[k] = ring[k + 1]
  BY <1>4
<1>6. \A k \in DOMAIN ring : k = 1 \/ (k - 1 \in DOMAIN ring' /\ ring'[k - 1] = ring[k])
  BY <1>4
<1>7. /\ \A x : x \in Queued' <=> \E k \in DOMAIN ring' : x = ring'[k].proc
      /\ \A x : x \in Queued <=> \E k \in DOMAIN ring : x = ring[k].proc
  BY DEF Queued
<1>8. Head(ring).proc \in Queued
  BY <1>4, <1>7
<1>9. \A k, l \in DOMAIN ring : ring[k].proc = ring[l].proc /\ ring[k].proc \in Spawned => k = l
  BY DEF Inv, OnePlace
<1>10. ASSUME NEW i \in Spawned PROVE i \in Queued' <=> i \in Queued /\ i # Head(ring).proc
  <2>1. ASSUME i \in Queued' PROVE i \in Queued /\ i # Head(ring).proc
    <3>1. PICK k \in DOMAIN ring' : i = ring'[k].proc
      BY <1>7, <2>1
    <3>2. k + 1 \in DOMAIN ring /\ i = ring[k + 1].proc
      BY <1>5, <3>1
    <3>3. k + 1 # 1 /\ 1 \in DOMAIN ring
      BY <1>4, <3>1
    <3> QED
      BY <1>4, <1>7, <1>9, <3>2, <3>3
  <2>2. ASSUME i \in Queued, i # Head(ring).proc PROVE i \in Queued'
    <3>1. PICK k \in DOMAIN ring : i = ring[k].proc
      BY <1>7, <2>2
    <3>2. k # 1
      BY <1>4, <2>2, <3>1
    <3>3. k - 1 \in DOMAIN ring' /\ ring'[k - 1] = ring[k]
      BY <1>6, <3>2
    <3> QED
      BY <1>7, <3>1, <3>3
  <2> QED
    BY <2>1, <2>2
<1>11. ASSUME NEW k \in DOMAIN ring', NEW l \in DOMAIN ring',
              ring'[k].proc = ring'[l].proc, ring'[k].proc \in Spawned
       PROVE  k = l
  <2>1. k + 1 = l + 1
    BY <1>5, <1>9, <1>11
  <2>2. k \in Nat /\ l \in Nat
    BY <1>4, <1>11
  <2> QED
    BY <2>1, <2>2
<1>12. (ring \in Seq([node : Nodes, proc : Spawned \cup {Fallback}]))'
  BY <1>2, <1>4 DEF M
<1> QED
  BY <1>3, <1>4, <1>8, <1>10, <1>11, <1>12

-----------------------------------------------------------------------------
(***************************************************************************)
(* The steps that spawn, move or free processors.                          *)
(***************************************************************************)
\* A failed spawn changes nothing but a name.
LEMMA SpawnFailsFacts ==
  ASSUME Inv, NEW p \in Plugins, SpawnFails(p)
  PROVE  /\ UNCHANGED <<sidecar, handles, usage>>
         /\ named' \in [Plugins -> Instances \cup {None}]
  BY DEF SpawnFails, Inv, TypeOK

\* A spawn takes quota for the handle it adds.
LEMMA SpawnBooks ==
  ASSUME Inv, NEW p \in Plugins, NEW n \in Nodes, NEW c \in 0 .. MaxRestarts,
         NEW x \in {"held", "freed"}, SpawnSucceeds(p, n, c, x)
  PROVE  /\ QuotaExact' /\ usage' \in Nat
         /\ handles' \in SUBSET Spawned' /\ handles \subseteq handles'
         /\ named' \in [Plugins -> Instances \cup {None}]
<1>1. /\ handles' = handles \cup {Len(sidecar) + 1} /\ usage' = usage + 1
      /\ named' = [named EXCEPT ![p] = Len(sidecar) + 1]
  BY DEF SpawnSucceeds
<1>2. Spawned' = Spawned \cup {Len(sidecar) + 1} /\ Len(sidecar') <= MaxSpawns
      /\ Len(sidecar') = Len(sidecar) + 1
  BY SpawnFacts DEF Inv
<1>3. /\ IsFiniteSet(handles) /\ Cardinality(handles) \in Nat
      /\ Len(sidecar) + 1 \notin handles /\ Len(sidecar) \in Nat
  BY SpawnedFacts DEF Inv, TypeOK
<1>4. Cardinality(handles') = Cardinality(handles) + 1
  BY <1>1, <1>3, FS_AddElement
<1>5. Len(sidecar) + 1 \in Instances
  BY <1>2, <1>3, SidecarAssumption DEF Instances
<1> QED
  BY <1>1, <1>2, <1>3, <1>4, <1>5 DEF Inv, TypeOK, QuotaExact

\* The new instance is nowhere yet.
LEMMA NewIsNowhere ==
  ASSUME Inv, Len(sidecar) < MaxSpawns
  PROVE  Len(sidecar) + 1 \notin recovered \cup toRestart \cup Queued \cup Playing \cup Spawned
<1>1. Len(sidecar) + 1 \notin Spawned /\ Len(sidecar) \in Nat
  BY SpawnedFacts DEF Inv
<1>2. recovered \subseteq Spawned /\ toRestart \subseteq Spawned
  BY DEF Inv, TypeOK
<1>3. Len(sidecar) + 1 \in Instances
  BY <1>1, SidecarAssumption DEF Instances
<1>4. Queued \cup Playing \subseteq Spawned \cup {None, Fallback}
  BY RingFacts
<1> QED
  BY <1>1, <1>2, <1>3, <1>4, SidecarAssumption

LEMMA HotLoadInv ==
  ASSUME Inv, NEW p \in Plugins, NEW n \in Nodes, HotLoad(p, n) PROVE Inv'
<1>1. /\ phase = "idle" /\ loads' = loads + 1 /\ loads < MaxLoads
      /\ UNCHANGED <<playing, phase, toRestart, recovered, stalled>>
  BY DEF HotLoad, tickVars
<1>2. loads' \in 0 .. MaxLoads
  BY <1>1, SidecarAssumption DEF Inv, TypeOK
<1>3. CASE SpawnFails(p) /\ UNCHANGED ring
  <2>1. UNCHANGED <<sidecar, handles, usage>> /\ named' \in [Plugins -> Instances \cup {None}]
    BY <1>3, SpawnFailsFacts
  <2>2. Spawned' = Spawned /\ Queued' = Queued /\ Playing' = Playing
    BY <1>1, <1>3, <2>1 DEF Spawned, Queued, Playing
  <2>3. TypeOK'
    BY <1>1, <1>2, <1>3, <2>1, <2>2 DEF Inv, TypeOK
  <2> QED
    BY <1>1, <1>3, <2>1, <2>2, <2>3 DEF Inv, QuotaExact, RestartsLeft, StalledInPhase,
       ProcessorsHeld, OnePlace
<1>4. ASSUME NEW x \in {"held", "freed"}, SpawnSucceeds(p, n, 0, x),
             x = IF HasRoom THEN "held" ELSE "freed",
             ring' = IF HasRoom THEN Append(ring, [node |-> n, proc |-> Len(sidecar) + 1])
                     ELSE ring
      PROVE  Inv'
  <2> DEFINE new == Len(sidecar) + 1
             e == [node |-> n, proc |-> new]
  <2>1. /\ sidecar' \in Seq(Sidecar) /\ Len(sidecar') <= MaxSpawns
        /\ Spawned' = Spawned \cup {new}
        /\ \A j \in Spawned : sidecar'[j] = sidecar[j]
        /\ sidecar'[new].proc = x
    BY <1>4, SpawnFacts, SidecarAssumption DEF Inv
  <2>2. /\ QuotaExact' /\ usage' \in Nat
        /\ handles' \in SUBSET Spawned' /\ handles \subseteq handles'
        /\ named' \in [Plugins -> Instances \cup {None}]
    BY <1>4, SpawnBooks, SidecarAssumption
  <2>3. new \notin recovered \cup toRestart \cup Queued \cup Playing \cup Spawned
    BY <1>4, NewIsNowhere DEF SpawnSucceeds
  <2>4. /\ recovered \subseteq Spawned /\ toRestart \subseteq Spawned
        /\ Playing' = Playing
    BY <1>1 DEF Inv, TypeOK, Playing
  <2> HIDE DEF new
  <2>5. e \in [node : Nodes, proc : Spawned' \cup {Fallback}] /\ e.proc = new
    BY <2>1
  <2> HIDE DEF e
  <2>6. /\ (ring \in Seq([node : Nodes, proc : Spawned \cup {Fallback}]))'
        /\ Queued' = IF HasRoom THEN Queued \cup {new} ELSE Queued
    <3>1. CASE HasRoom
      <4>1. ring' = Append(ring, e)
        BY <1>4, <3>1 DEF e, new
      <4> QED
        BY <2>1, <2>5, <3>1, <4>1, PushFacts
    <3>2. CASE ~HasRoom
      <4>1. ring' = ring
        BY <1>4, <3>2
      <4>2. [node : Nodes, proc : Spawned \cup {Fallback}]
               \subseteq [node : Nodes, proc : Spawned' \cup {Fallback}]
        BY <2>1
      <4> QED
        BY <3>2, <4>1, <4>2, SeqMonotonic DEF Inv, TypeOK, Queued
    <3> QED
      BY <3>1, <3>2
  <2>7. OnePlace'
    <3>1. CASE HasRoom
      <4>1. ring' = Append(ring, e)
        BY <1>4, <3>1 DEF e, new
      <4>2. recovered' \cap (Queued \cup Playing \cup {e.proc}) = {}
        BY <1>1, <2>3, <2>5 DEF Inv, OnePlace
      <4> QED
        BY <1>1, <2>1, <2>3, <2>5, <4>1, <4>2, PushOnePlace
    <3>2. CASE ~HasRoom
      <4>1. ring' = ring /\ Queued' = Queued
        BY <1>4, <2>6, <3>2
      <4>2. /\ \A k \in DOMAIN ring : ring[k].proc \in Queued
            /\ \A m \in Nodes : playing[m] \in Playing
        BY DEF Queued, Playing
      <4> QED
        BY <1>1, <2>1, <2>3, <2>4, <4>1, <4>2 DEF Inv, OnePlace
    <3> QED
      BY <3>1, <3>2
  <2>8. ProcessorsHeld'
    <3>1. ASSUME NEW i \in Spawned'
          PROVE  sidecar'[i].proc = "held" <=> i \in recovered' \cup Queued' \cup Playing'
      <4>1. CASE i = new
        <5>1. i \notin recovered \cup Queued \cup Playing
          BY <2>3, <4>1
        <5>2. sidecar'[i].proc = "held" <=> HasRoom
          BY <1>4, <2>1, <4>1
        <5> QED
          BY <1>1, <2>4, <2>6, <4>1, <5>1, <5>2
      <4>2. CASE i \in Spawned
        <5>1. sidecar'[i] = sidecar[i] /\ i # new
          BY <2>1, <2>3, <4>2
        <5> QED
          BY <1>1, <2>4, <2>6, <4>2, <5>1 DEF Inv, ProcessorsHeld
      <4> QED
        BY <2>1, <4>1, <4>2
    <3> QED
      BY <3>1 DEF ProcessorsHeld
  <2>9. RestartsLeft' /\ StalledInPhase'
    BY <1>1, <2>1, <2>4 DEF Inv, RestartsLeft, StalledInPhase
  <2>10. TypeOK'
    <3>1. playing' \in [Nodes -> Spawned' \cup {None, Fallback}]
      BY <1>1, <2>1 DEF Inv, TypeOK
    <3>2. recovered' \in SUBSET Spawned' /\ toRestart' \in SUBSET Spawned'
      BY <1>1, <2>1, <2>4
    <3> QED
      BY <1>1, <1>2, <2>1, <2>2, <2>6, <3>1, <3>2 DEF Inv, TypeOK
  <2> QED
    BY <2>2, <2>7, <2>8, <2>9, <2>10 DEF Inv
<1> QED
  <2>1. CASE /\ SpawnSucceeds(p, n, 0, IF HasRoom THEN "held" ELSE "freed")
             /\ ring' = IF HasRoom
                        THEN Append(ring, [node |-> n, proc |-> Len(sidecar) + 1])
                        ELSE ring
    BY <1>4, <2>1
  <2> QED
    BY <1>3, <2>1 DEF HotLoad

LEMMA RespawnInv == ASSUME Inv, Respawn PROVE Inv'
<1> DEFINE old == First(toRestart)
           p == sidecar[old].plugin
           n == sidecar[old].node
           c == RestartCount(old)
<1>1. /\ toRestart' = toRestart \ {old} /\ UNCHANGED <<ring, playing, phase, stalled, loads>>
      /\ \/ SpawnFails(p) /\ UNCHANGED recovered
         \/ /\ SpawnSucceeds(p, n, c, "held")
            /\ recovered' = recovered \cup {Len(sidecar) + 1}
  BY DEF Respawn
<1>2. old \in toRestart /\ old \in Spawned
  BY SpawnedFacts, FirstFacts DEF Respawn, Inv, TypeOK
<1>3. p \in Plugins /\ n \in Nodes /\ c \in 0 .. MaxRestarts
  <2>1. sidecar[old] \in Sidecar
    BY <1>2, SpawnedFacts DEF Inv
  <2>2. sidecar[old].restarts \in 0 .. MaxRestarts /\ sidecar[old].restarts < MaxRestarts
    BY <1>2, <2>1 DEF Sidecar, Inv, RestartsLeft
  <2> QED
    BY <2>1, <2>2, SidecarAssumption DEF Sidecar, RestartCount
<1> HIDE DEF old, p, n, c
<1>4. CASE SpawnFails(p) /\ UNCHANGED recovered
  <2>1. UNCHANGED <<sidecar, handles, usage>> /\ named' \in [Plugins -> Instances \cup {None}]
    BY <1>3, <1>4, SpawnFailsFacts
  <2>2. Spawned' = Spawned /\ Queued' = Queued /\ Playing' = Playing
    BY <1>1, <2>1 DEF Spawned, Queued, Playing
  <2>3. TypeOK'
    BY <1>1, <1>4, <2>1, <2>2 DEF Inv, TypeOK
  <2> QED
    BY <1>1, <1>4, <2>1, <2>2, <2>3 DEF Inv, QuotaExact, RestartsLeft, StalledInPhase,
       ProcessorsHeld, OnePlace
<1>5. CASE SpawnSucceeds(p, n, c, "held") /\ recovered' = recovered \cup {Len(sidecar) + 1}
  <2> DEFINE new == Len(sidecar) + 1
  <2>1. /\ sidecar' \in Seq(Sidecar) /\ Len(sidecar') <= MaxSpawns
        /\ Spawned' = Spawned \cup {new}
        /\ \A j \in Spawned : sidecar'[j] = sidecar[j]
        /\ sidecar'[new].proc = "held"
    BY <1>3, <1>5, SpawnFacts DEF Inv
  <2>2. /\ QuotaExact' /\ usage' \in Nat
        /\ handles' \in SUBSET Spawned' /\ handles \subseteq handles'
        /\ named' \in [Plugins -> Instances \cup {None}]
    BY <1>3, <1>5, SpawnBooks
  <2>3. new \notin recovered \cup toRestart \cup Queued \cup Playing \cup Spawned
    BY <1>5, NewIsNowhere DEF SpawnSucceeds
  <2>4. /\ recovered \subseteq Spawned /\ toRestart \subseteq Spawned
        /\ Queued' = Queued /\ Playing' = Playing /\ recovered' = recovered \cup {new}
    BY <1>1, <1>5 DEF Inv, TypeOK, Queued, Playing
  <2> HIDE DEF new
  <2>5. ProcessorsHeld'
    <3>1. ASSUME NEW i \in Spawned'
          PROVE  sidecar'[i].proc = "held" <=> i \in recovered' \cup Queued' \cup Playing'
      <4>1. CASE i = new
        BY <2>1, <2>4, <4>1
      <4>2. CASE i \in Spawned
        <5>1. sidecar'[i] = sidecar[i] /\ i # new
          BY <2>1, <2>3, <4>2
        <5> QED
          BY <2>4, <4>2, <5>1 DEF Inv, ProcessorsHeld
      <4> QED
        BY <2>1, <4>1, <4>2
    <3> QED
      BY <3>1 DEF ProcessorsHeld
  <2>6. OnePlace'
    <3>1. /\ \A k \in DOMAIN ring : ring[k].proc \in Queued
          /\ \A m \in Nodes : playing[m] \in Playing
      BY DEF Queued, Playing
    <3> QED
      BY <1>1, <2>1, <2>3, <2>4, <3>1 DEF Inv, OnePlace
  <2>7. RestartsLeft' /\ StalledInPhase'
    BY <1>1, <2>1, <2>4 DEF Inv, RestartsLeft, StalledInPhase
  <2>8. TypeOK'
    <3>1. playing' \in [Nodes -> Spawned' \cup {None, Fallback}]
      BY <1>1, <2>1 DEF Inv, TypeOK
    <3>2. recovered' \in SUBSET Spawned' /\ toRestart' \in SUBSET Spawned'
      BY <1>1, <2>1, <2>4
    <3>3. (ring \in Seq([node : Nodes, proc : Spawned \cup {Fallback}]))'
      <4>1. [node : Nodes, proc : Spawned \cup {Fallback}]
               \subseteq [node : Nodes, proc : Spawned' \cup {Fallback}]
        BY <2>1
      <4> QED
        BY <1>1, <4>1, SeqMonotonic DEF Inv, TypeOK
    <3> QED
      BY <1>1, <2>1, <2>2, <3>1, <3>2, <3>3 DEF Inv, TypeOK
  <2> QED
    BY <2>2, <2>5, <2>6, <2>7, <2>8 DEF Inv
<1> QED
  BY <1>1, <1>4, <1>5

\* The processors supervise() made go to the ring or are freed.
LEMMA ReinsertInv == ASSUME Inv, Reinsert PROVE Inv'
<1> DEFINE i == First(recovered)
           e == [node |-> sidecar[i].node, proc |-> i]
           s == [sidecar[i] EXCEPT !.proc = "freed"]
<1>1. /\ recovered' = recovered \ {i}
      /\ UNCHANGED <<handles, usage, named, playing, phase, toRestart, stalled, loads>>
      /\ \/ HasRoom /\ ring' = Append(ring, e) /\ UNCHANGED sidecar
         \/ ~HasRoom /\ Becomes(i, s) /\ UNCHANGED ring
  BY DEF Reinsert
<1>2. i \in recovered /\ i \in Spawned
  BY SpawnedFacts, FirstFacts DEF Reinsert, Inv, TypeOK
<1>3. i \notin Queued \cup Playing
  BY <1>2 DEF Inv, OnePlace
<1>4. sidecar[i] \in Sidecar
  BY <1>2, SpawnedFacts DEF Inv
<1>5. e \in [node : Nodes, proc : Spawned \cup {Fallback}] /\ e.proc = i
  BY <1>2, <1>4 DEF Sidecar
<1>6. s \in Sidecar /\ s.proc = "freed" /\ s.restarts = sidecar[i].restarts
  BY <1>4 DEF Sidecar
<1> HIDE DEF i, e, s
<1>7. CASE ring' = Append(ring, e) /\ UNCHANGED sidecar
  <2>1. Spawned' = Spawned /\ Playing' = Playing
    BY <1>1, <1>7 DEF Spawned, Playing
  <2>2. /\ (ring \in Seq([node : Nodes, proc : Spawned \cup {Fallback}]))'
        /\ Queued' = Queued \cup {i}
    BY <1>5, <1>7, <2>1, PushFacts
  <2>3. OnePlace'
    <3>1. recovered' \cap (Queued \cup Playing \cup {e.proc}) = {}
      BY <1>1, <1>5 DEF Inv, OnePlace
    <3> QED
      BY <1>1, <1>3, <1>5, <1>7, <2>1, <3>1, PushOnePlace
  <2>4. ProcessorsHeld'
    BY <1>1, <1>2, <1>7, <2>1, <2>2 DEF Inv, ProcessorsHeld
  <2>5. TypeOK'
    BY <1>1, <1>7, <2>1, <2>2 DEF Inv, TypeOK
  <2> QED
    BY <1>1, <1>7, <2>3, <2>4, <2>5 DEF Inv, QuotaExact, RestartsLeft, StalledInPhase
<1>8. CASE Becomes(i, s) /\ UNCHANGED ring
  <2>1. /\ sidecar' \in Seq(Sidecar) /\ Len(sidecar') = Len(sidecar) /\ Spawned' = Spawned
        /\ \A j \in Spawned : sidecar'[j] = IF j = i THEN s ELSE sidecar[j]
    BY <1>2, <1>6, <1>8, BecomesFacts DEF Inv
  <2>2. Queued' = Queued /\ Playing' = Playing
    BY <1>1, <1>8 DEF Queued, Playing
  <2>3. ProcessorsHeld'
    BY <1>1, <1>3, <1>6, <2>1, <2>2 DEF Inv, ProcessorsHeld
  <2>4. OnePlace'
    BY <1>1, <1>8, <2>1, <2>2 DEF Inv, OnePlace
  <2>5. TypeOK'
    BY <1>1, <1>8, <2>1 DEF Inv, TypeOK
  <2>6. RestartsLeft'
    BY <1>1, <1>6, <2>1 DEF Inv, TypeOK, RestartsLeft
  <2> QED
    BY <1>1, <2>3, <2>4, <2>5, <2>6 DEF Inv, QuotaExact, StalledInPhase
<1> QED
  BY <1>1, <1>7, <1>8

\* A fallback is sent for a node, and the first handle of the node is marked.
LEMMA FallBackInv == ASSUME Inv, FallBack PROVE Inv'
<1> DEFINE late == First(stalled)
           n == sidecar[late].node
           marked == First({i \in handles : sidecar[i].node = n})
           s == [sidecar[marked] EXCEPT !.status = "Bypassing", !.beat = FALSE, !.age = "fresh"]
           e == [node |-> n, proc |-> Fallback]
<1>1. /\ phase = "stalled" /\ stalled # {}
      /\ ring' = IF HasRoom THEN Append(ring, e) ELSE ring
      /\ Becomes(marked, s) /\ stalled' = stalled \ {late}
      /\ UNCHANGED <<handles, usage, named, playing, phase, toRestart, recovered, loads>>
  BY DEF FallBack
<1>2. handles \subseteq Spawned /\ stalled \subseteq handles /\ Spawned \subseteq Nat
  BY SpawnedFacts DEF Inv, TypeOK
<1>3. late \in stalled
  BY <1>1, <1>2, FirstFacts
<1>4. marked \in handles
  <2> DEFINE S == {i \in handles : sidecar[i].node = n}
  <2>1. late \in S
    BY <1>2, <1>3
  <2>2. S \subseteq handles
    OBVIOUS
  <2> HIDE DEF S
  <2>3. First(S) \in S
    BY <1>2, <2>1, <2>2, FirstFacts
  <2> QED
    BY <2>2, <2>3 DEF S
<1>5. marked \in Spawned /\ late \in Spawned
  BY <1>2, <1>3, <1>4
<1>6. sidecar[late] \in Sidecar /\ sidecar[marked] \in Sidecar
  BY <1>5, SpawnedFacts DEF Inv
<1>7. e \in [node : Nodes, proc : Spawned \cup {Fallback}] /\ e.proc = Fallback
  BY <1>6 DEF Sidecar
<1> HIDE DEF marked
<1>8. /\ s \in Sidecar /\ s.proc = sidecar[marked].proc
      /\ s.restarts = sidecar[marked].restarts
  BY <1>6 DEF Sidecar
<1> HIDE DEF late, n, s, e
<1>9. /\ sidecar' \in Seq(Sidecar) /\ Len(sidecar') = Len(sidecar) /\ Spawned' = Spawned
      /\ \A j \in Spawned : sidecar'[j] = IF j = marked THEN s ELSE sidecar[j]
  BY <1>1, <1>5, <1>8, BecomesFacts DEF Inv
<1>10. /\ (ring \in Seq([node : Nodes, proc : Spawned \cup {Fallback}]))'
       /\ Queued' \in {Queued, Queued \cup {Fallback}} /\ Playing' = Playing
  <2>1. CASE HasRoom
    <3>1. ring' = Append(ring, e)
      BY <1>1, <2>1
    <3>2. /\ (ring \in Seq([node : Nodes, proc : Spawned \cup {Fallback}]))'
          /\ Queued' = Queued \cup {e.proc}
      <4>1. Spawned \subseteq Spawned' /\ e \in [node : Nodes, proc : Spawned' \cup {Fallback}]
        BY <1>7, <1>9
      <4> QED
        BY <3>1, <4>1, PushFacts
    <3>3. Playing' = Playing
      BY <1>1 DEF Playing
    <3> QED
      BY <1>7, <3>2, <3>3
  <2>2. CASE ~HasRoom
    BY <1>1, <1>9, <2>2 DEF Inv, TypeOK, Queued, Playing
  <2> QED
    BY <2>1, <2>2
<1>11. Fallback \notin Spawned
  BY SpawnedFacts DEF Inv
<1>12. OnePlace'
  <2>1. CASE HasRoom
    <3>1. ring' = Append(ring, e)
      BY <1>1, <2>1
    <3>2. recovered \subseteq Spawned
      BY DEF Inv, TypeOK
    <3>3. recovered' \cap (Queued \cup Playing \cup {e.proc}) = {}
      BY <1>1, <1>7, <1>11, <3>2 DEF Inv, OnePlace
    <3> QED
      BY <1>1, <1>7, <1>9, <1>11, <3>1, <3>3, PushOnePlace
  <2>2. CASE ~HasRoom
    BY <1>1, <1>9, <2>2 DEF Inv, OnePlace, Queued, Playing
  <2> QED
    BY <2>1, <2>2
<1>13. \A j \in Spawned : /\ sidecar'[j].proc = sidecar[j].proc
                          /\ sidecar'[j].restarts = sidecar[j].restarts
  BY <1>8, <1>9
<1>14. ProcessorsHeld'
  BY <1>1, <1>9, <1>10, <1>11, <1>13 DEF Inv, ProcessorsHeld
<1>15. RestartsLeft' /\ StalledInPhase'
  BY <1>1, <1>13 DEF Inv, TypeOK, RestartsLeft, StalledInPhase
<1>16. TypeOK'
  BY <1>1, <1>2, <1>9, <1>10 DEF Inv, TypeOK
<1> QED
  BY <1>1, <1>12, <1>14, <1>15, <1>16 DEF Inv, QuotaExact

\* What the audio thread retired is freed; what is held stays held.
LEMMA DrainGarbageInv == ASSUME Inv, DrainGarbage PROVE Inv'
<1> DEFINE f == [i \in Spawned |-> IF sidecar[i].proc = "retired"
                                   THEN [sidecar[i] EXCEPT !.proc = "freed"]
                                   ELSE sidecar[i]]
<1>1. /\ sidecar' = f /\ phase = "second" /\ phase' = "idle"
      /\ UNCHANGED <<handles, usage, ring, playing, toRestart, recovered, stalled, loads>>
  BY DEF DrainGarbage
<1>2. ASSUME NEW i \in Spawned
      PROVE  /\ f[i] \in Sidecar /\ f[i].restarts = sidecar[i].restarts
             /\ f[i].proc = "held" <=> sidecar[i].proc = "held"
  <2>1. sidecar[i] \in Sidecar
    BY SpawnedFacts DEF Inv
  <2>2. /\ [sidecar[i] EXCEPT !.proc = "freed"] \in Sidecar
        /\ [sidecar[i] EXCEPT !.proc = "freed"].restarts = sidecar[i].restarts
        /\ [sidecar[i] EXCEPT !.proc = "freed"].proc = "freed"
    BY <2>1 DEF Sidecar
  <2> QED
    BY <2>1, <2>2
<1>3. f \in [Spawned -> Sidecar]
  BY <1>2
<1>4. named' \in [Plugins -> Instances \cup {None}]
  BY DEF DrainGarbage, Inv, TypeOK
<1> HIDE DEF f
<1>5. sidecar' \in Seq(Sidecar) /\ Len(sidecar') = Len(sidecar) /\ Spawned' = Spawned
  BY <1>1, <1>3, PassFacts DEF Inv
<1>6. Queued' = Queued /\ Playing' = Playing
  BY <1>1 DEF Queued, Playing
<1>7. ProcessorsHeld' /\ OnePlace'
  BY <1>1, <1>2, <1>5, <1>6 DEF Inv, ProcessorsHeld, OnePlace
<1>8. TypeOK'
  BY <1>1, <1>4, <1>5 DEF Inv, TypeOK
<1>9. QuotaExact' /\ RestartsLeft' /\ StalledInPhase'
  BY <1>1, <1>2 DEF Inv, TypeOK, QuotaExact, RestartsLeft, StalledInPhase
<1> QED
  BY <1>7, <1>8, <1>9 DEF Inv

\* The processor that is installed was on its way; the one before it is retired.
LEMMA InstallInv == ASSUME Inv, Install PROVE Inv'
<1> DEFINE n == Head(ring).node
           new == Head(ring).proc
           old == playing[n]
           s == [sidecar[old] EXCEPT !.proc = "retired"]
<1>1. /\ ring # <<>> /\ ring' = Tail(ring) /\ playing' = [playing EXCEPT ![n] = new]
      /\ IF old \in Spawned THEN Becomes(old, s) ELSE UNCHANGED sidecar
      /\ UNCHANGED <<handles, usage, named, phase, toRestart, recovered, stalled, loads>>
  BY DEF Install, tickVars
<1>2. /\ Spawned' = Spawned /\ sidecar' \in Seq(Sidecar) /\ Len(sidecar') = Len(sidecar)
      /\ \A j \in Spawned :
           /\ sidecar'[j].proc = IF j = old THEN "retired" ELSE sidecar[j].proc
           /\ sidecar'[j].restarts = sidecar[j].restarts
  <2>1. CASE old \in Spawned
    <3>1. sidecar[old] \in Sidecar
      BY <2>1, SpawnedFacts DEF Inv
    <3>2. s \in Sidecar /\ s.proc = "retired" /\ s.restarts = sidecar[old].restarts
      BY <3>1 DEF Sidecar
    <3>3. Becomes(old, s)
      BY <1>1, <2>1
    <3> HIDE DEF old, s
    <3> QED
      BY <2>1, <3>2, <3>3, BecomesFacts DEF Inv
  <2>2. CASE old \notin Spawned
    <3>1. UNCHANGED sidecar
      BY <1>1, <2>2
    <3> QED
      BY <2>2, <3>1 DEF Inv, TypeOK, Spawned
  <2> QED
    BY <2>1, <2>2
<1>3. /\ (ring \in Seq([node : Nodes, proc : Spawned \cup {Fallback}]))'
      /\ n \in Nodes /\ new \in Queued
      /\ \A i \in Spawned : i \in Queued' <=> i \in Queued /\ i # new
      /\ \A k, l \in DOMAIN ring' :
           ring'[k].proc = ring'[l].proc /\ ring'[k].proc \in Spawned => k = l
  BY <1>1, <1>2, TakeFacts
<1>4. Queued \subseteq Spawned \cup {Fallback} /\ Playing \subseteq Spawned \cup {None, Fallback}
  BY RingFacts
<1>5. playing \in [Nodes -> Spawned \cup {None, Fallback}]
  BY DEF Inv, TypeOK
<1> HIDE DEF n, new, s
<1>6. playing' \in [Nodes -> Spawned \cup {None, Fallback}]
  BY <1>1, <1>3, <1>4, <1>5
<1>7. \A m \in Nodes : playing'[m] = IF m = n THEN new ELSE playing[m]
  BY <1>1, <1>3, <1>5
<1>8. /\ \A x : x \in Playing' <=> \E m \in Nodes : x = playing'[m]
      /\ \A x : x \in Playing <=> \E m \in Nodes : x = playing[m]
  BY DEF Playing
<1>9. ASSUME NEW i \in Spawned
      PROVE  i \in Playing' <=> i = new \/ (i \in Playing /\ i # old)
  <2>1. ASSUME i \in Playing, i # old PROVE i \in Playing'
    BY <1>7, <1>8, <2>1
  <2>2. ASSUME i \in Playing', i # new PROVE i \in Playing /\ i # old
    <3>1. PICK m \in Nodes : i = playing'[m]
      BY <1>8, <2>2
    <3>2. m # n /\ i = playing[m]
      BY <1>7, <2>2, <3>1
    <3>3. i # old
      BY <1>3, <3>2 DEF Inv, OnePlace
    <3> QED
      BY <1>8, <3>2, <3>3
  <2>3. new \in Playing'
    BY <1>3, <1>7, <1>8
  <2> QED
    BY <2>1, <2>2, <2>3
<1>10. ~ (new \in Playing /\ new \in Spawned) /\ (new \in Spawned => new # old)
  <2>1. old \in Playing
    BY <1>3, <1>8
  <2> QED
    BY <1>3, <2>1 DEF Inv, OnePlace
<1>11. ProcessorsHeld'
  <2>1. ASSUME NEW i \in Spawned
        PROVE  sidecar'[i].proc = "held" <=> i \in recovered' \cup Queued' \cup Playing'
    <3>1. sidecar[i].proc = "held" <=> i \in recovered \cup Queued \cup Playing
      BY DEF Inv, ProcessorsHeld
    <3>2. CASE i = old
      <4>1. i \in Playing /\ i \notin recovered \cup Queued
        BY <1>3, <1>8, <3>2 DEF Inv, OnePlace
      <4>2. i \notin recovered' \cup Queued' \cup Playing'
        BY <1>1, <1>3, <1>9, <1>10, <3>2, <4>1
      <4> QED
        BY <1>2, <3>2, <4>2
    <3>3. CASE i # old
      <4>1. sidecar'[i].proc = sidecar[i].proc
        BY <1>2, <3>3
      <4>2. i \in Queued' \cup Playing' <=> i \in Queued \cup Playing
        BY <1>3, <1>9, <3>3
      <4> QED
        BY <1>1, <3>1, <4>1, <4>2
    <3> QED
      BY <3>2, <3>3
  <2> QED
    BY <1>2, <2>1 DEF ProcessorsHeld
<1>12. OnePlace'
  <2>1. recovered \subseteq Spawned /\ recovered' = recovered
    BY <1>1 DEF Inv, TypeOK
  <2>2. recovered' \cap (Queued' \cup Playing') = {}
    <3>1. recovered \cap (Queued \cup Playing) = {}
      BY DEF Inv, OnePlace
    <3> QED
      BY <1>3, <1>9, <2>1, <3>1
  <2>3. Queued' \cap Playing' \cap Spawned' = {}
    <3>1. Queued \cap Playing \cap Spawned = {}
      BY DEF Inv, OnePlace
    <3> QED
      BY <1>2, <1>3, <1>9, <3>1
  <2>4. ASSUME NEW l \in Nodes, NEW m \in Nodes,
               playing'[l] = playing'[m], playing'[l] \in Spawned
        PROVE  l = m
    <3>1. \A k \in Nodes : playing[k] \in Playing
      BY <1>8
    <3>2. \A j, k \in Nodes : playing[j] = playing[k] /\ playing[j] \in Spawned => j = k
      BY DEF Inv, OnePlace
    <3> QED
      BY <1>7, <1>10, <2>4, <3>1, <3>2
  <2> QED
    BY <1>2, <1>3, <2>2, <2>3, <2>4 DEF OnePlace
<1>13. TypeOK'
  BY <1>1, <1>2, <1>3, <1>6 DEF Inv, TypeOK
<1>14. QuotaExact' /\ RestartsLeft' /\ StalledInPhase'
  BY <1>1, <1>2 DEF Inv, TypeOK, QuotaExact, RestartsLeft, StalledInPhase
<1> QED
  BY <1>11, <1>12, <1>13, <1>14 DEF Inv

LEMMA NextInv == Inv /\ [Next]_vars => Inv'
<1> SUFFICES ASSUME Inv, [Next]_vars PROVE Inv'
  OBVIOUS
<1>1. CASE Tick
  BY <1>1, SuperviseInv, RespawnInv, ReinsertInv, ListStalledNodesInv, FallBackInv,
     DrainGarbageInv DEF Tick
<1>2. CASE \E p \in Plugins, n \in Nodes : HotLoad(p, n)
  BY <1>2, HotLoadInv
<1>3. CASE Install
  BY <1>3, InstallInv
<1>4. CASE \E i \in Spawned : Open(i) \/ Beat(i) \/ Hang(i) \/ Exit(i) \/ Elapse(i)
  BY <1>4, ChildStepInv
<1>5. CASE UNCHANGED vars
  <2>1. UNCHANGED <<Spawned, Queued, Playing>>
    BY <1>5 DEF vars, Spawned, Queued, Playing
  <2>2. TypeOK'
    BY <1>5, <2>1 DEF Inv, TypeOK, vars, tickVars
  <2> QED
    BY <1>5, <2>1, <2>2 DEF Inv, QuotaExact, RestartsLeft, StalledInPhase, ProcessorsHeld,
       OnePlace, vars, tickVars
<1> QED
  BY <1>1, <1>2, <1>3, <1>4, <1>5 DEF Next

LEMMA Invariance == Spec => []Inv
BY InitInv, NextInv, PTL DEF Spec

\* Lists and queues keep to their ranges: nobody is restarted more often than
\* MaxRestarts, every stalled node has a handle, every name leads to an instance.
THEOREM TypesKept == Spec => []TypeOK
BY Invariance, PTL DEF Inv

\* The memory quota is exact, however many sidecars are loaded, fail, are started
\* again or could not be, and with it the limit: what is taken is what the handles
\* in the list stand for, at every moment of a tick.
THEOREM QuotaIsExact == Spec => []QuotaExact
BY Invariance, PTL DEF Inv

\* No processor is retired or freed while the audio thread may still reach it, so
\* the segments it reads stay mapped, and none is forgotten: it is held exactly
\* while it is with supervise(), in the topology ring or at a node.
THEOREM SegmentsOutliveTheirUse == Spec => []ProcessorsHeld
BY Invariance, PTL DEF Inv

=============================================================================
