---------------------------- MODULE SampleResidency ----------------------------
(***************************************************************************)
(* Which decoded samples stay in memory, and for how long.                 *)
(*                                                                         *)
(*   scanners       decode every file of the library and register it, which *)
(*                  is how a track reaches analysis;                       *)
(*   analysis worker lists the registry, analyses what it has not seen,    *)
(*                  registers the audio again with its metadata and marks  *)
(*                  it analysed;                                           *)
(*   hydrators      decode a track a deck asked for and report back;       *)
(*   conductor      one thread: deck loads, edits, captures, and in tick() *)
(*                  the sweep that evicts what is analysed, unused and     *)
(*                  recoverable;                                           *)
(*   audio thread   takes a deck's source from the registry.               *)
(*                                                                         *)
(* The registry is the map of SampleMap (what SampleRegistry implements).  *)
(* A sample is what its audio is: the file's, an edit of it, silence where *)
(* decoding failed.  Metadata, stems, streaming decks and undo are left    *)
(* out; `analysed` only grows, since ReAnalyze does not reach a worker     *)
(* that runs on its own thread.                                            *)
(***************************************************************************)
EXTENDS Naturals, SequencesExt

CONSTANTS
    Tracks,      \* ids of tracks: each has a file when the disk is there
    Takes,       \* ids of captures, children and slices: never a file
    Decks,
    Scanners,    \* threads running scan_folder_sync
    None,        \* no sample, no track, no step in progress
    MaxLoads,    \* bound: deck loads
    MaxEdits,    \* bound: in-place edits and captures
    MaxUnplugs   \* bound: how often the disk goes away

SampleIds == Tracks \cup Takes

ASSUME ResidencyAssumption ==
    /\ IsFiniteSet(SampleIds)
    /\ Tracks \cap Takes = {}
    /\ None \notin SampleIds \cup {"undecoded", "file", "silence", "edited", "registered"}

VARIABLES
    registry,    \* the sample under each id
    rows,        \* tracks the library has a row for
    mounted,     \* the files are on disk
    scanned,     \* FolderMonitor::scanned
    scan,        \* what each scanner has decoded and not yet registered
    analysed,    \* AnalysisWorker::processed_ids, shared with the conductor
    batch,       \* ids the worker still has to fetch
    results,     \* what it analysed: the audio by id
    marking,     \* the id it registered last and has not marked yet
    deck,        \* MixerManager::deck_samples
    pending,     \* Conductor::hydration_pending
    hydrator,    \* what each hydration thread has decoded
    done,        \* the hydration_done channel
    sweep,       \* the sweep in progress: the ids it listed and pinned
    lastLens,    \* last_registry_reap_len and last_analysed_len
    edit,        \* the in-place edit in progress
    toEngine,    \* AddSourceFromRegistry commands on their way
    source,      \* the sample each deck's sampler plays
    loads, edits, unplugs

libraryVars == <<rows, mounted, unplugs>>
scanVars == <<scanned, scan>>
workVars == <<analysed, batch, results, marking>>
hydraVars == <<pending, hydrator, done>>
sweepVars == <<sweep, lastLens>>
deckVars == <<deck, toEngine, source, loads>>
editVars == <<edit, edits>>
residencyVars == <<registry, libraryVars, scanVars, workVars, hydraVars, sweepVars,
          deckVars, editVars>>

Resident == {i \in SampleIds : registry[i] # None}
NoWork == [i \in SampleIds |-> None]

\* library rows outlive the session; everything else starts empty.
ResidencyInit ==
    /\ registry = [i \in SampleIds |-> None]
    /\ rows \in SUBSET Tracks
    /\ mounted = TRUE
    /\ scanned = {}
    /\ scan = [s \in Scanners |-> None]
    /\ analysed = {}
    /\ batch = {}
    /\ results = NoWork
    /\ marking = None
    /\ deck = [d \in Decks |-> None]
    /\ pending = {}
    /\ hydrator = [t \in Tracks |-> None]
    /\ done = {}
    /\ sweep = None
    /\ lastLens = None
    /\ edit = None
    /\ toEngine = <<>>
    /\ source = [d \in Decks |-> None]
    /\ loads = 0 /\ edits = 0 /\ unplugs = 0

Register(i, audio) == registry' = [registry EXCEPT ![i] = audio]

\* decode_audio_file: a file that cannot be opened decodes to silence.
Decoded == IF mounted THEN "file" ELSE "silence"

-----------------------------------------------------------------------------
(* FolderMonitor::load_and_register                                        *)
ScanDecode(s, t) ==
    /\ scan[s] = None
    /\ mounted
    /\ t \notin Resident \cup scanned
    /\ scan' = [scan EXCEPT ![s] = [id |-> t, audio |-> "undecoded"]]
    /\ UNCHANGED <<registry, libraryVars, scanned, workVars, hydraVars,
                   sweepVars, deckVars, editVars>>

ScanMark(s) ==
    /\ scan[s] # None
    /\ scan[s].audio = "undecoded"
    /\ scan' = [scan EXCEPT ![s].audio = Decoded]
    /\ scanned' = scanned \cup {scan[s].id}
    /\ UNCHANGED <<registry, libraryVars, workVars, hydraVars, sweepVars,
                   deckVars, editVars>>

ScanRegister(s) ==
    /\ scan[s] # None
    /\ scan[s].audio # "undecoded"
    /\ Register(scan[s].id, scan[s].audio)
    /\ rows' = rows \cup {scan[s].id}
    /\ scan' = [scan EXCEPT ![s] = None]
    /\ UNCHANGED <<mounted, unplugs, scanned, workVars, hydraVars, sweepVars,
                   deckVars, editVars>>

-----------------------------------------------------------------------------
(* AnalysisWorker::run_once                                                *)
WorkerIdle == batch = {} /\ results = NoWork /\ marking = None

WorkerList ==
    /\ WorkerIdle
    /\ batch' = Resident \ analysed
    /\ batch' # {}
    /\ UNCHANGED <<registry, libraryVars, scanVars, analysed, results, marking,
                   hydraVars, sweepVars, deckVars, editVars>>

\* Mutated form: the id is marked when it is fetched.
WorkerFetchMarking(i) ==
    /\ i \in batch
    /\ batch' = batch \ {i}
    /\ results' = [results EXCEPT ![i] = registry[i]]
    /\ analysed' = analysed \cup {i}
    /\ UNCHANGED <<registry, libraryVars, scanVars, marking, hydraVars,
                   sweepVars, deckVars, editVars>>

\* The parallel map over the batch: an id that is gone is filtered out.
WorkerFetch(i) ==
    /\ i \in batch
    /\ batch' = batch \ {i}
    /\ results' = [results EXCEPT ![i] = registry[i]]
    /\ UNCHANGED <<registry, libraryVars, scanVars, analysed, marking,
                   hydraVars, sweepVars, deckVars, editVars>>

WorkerRegister(i) ==
    /\ batch = {} /\ marking = None
    /\ results[i] # None
    /\ Register(i, results[i])
    /\ results' = [results EXCEPT ![i] = None]
    /\ marking' = i
    /\ UNCHANGED <<libraryVars, scanVars, analysed, batch, hydraVars, sweepVars,
                   deckVars, editVars>>

WorkerMark ==
    /\ marking # None
    /\ analysed' = analysed \cup {marking}
    /\ marking' = None
    /\ UNCHANGED <<registry, libraryVars, scanVars, batch, results, hydraVars,
                   sweepVars, deckVars, editVars>>

-----------------------------------------------------------------------------
(* The conductor thread takes one step at a time: it loads no deck and     *)
(* starts no edit in the middle of a sweep.                                *)
ConductorIdle == sweep = None /\ edit = None

\* The translated load goes to the engine whether or not there is audio.
SendLoad(d, i) == toEngine' = Append(toEngine, [deck |-> d, id |-> i])

\* apply_mixer_commands on LoadTrackToDeck: the deck is mapped first; audio
\* that is neither registered nor on its way is decoded in the background if
\* the library knows the track and its file is there.
NeedsHydration(i) ==
    /\ i \in rows
    /\ i \notin Resident \cup pending
    /\ mounted

Hydrate(i) ==
    IF NeedsHydration(i)
    THEN /\ pending' = pending \cup {i}
         /\ hydrator' = [hydrator EXCEPT ![i] = "undecoded"]
    ELSE UNCHANGED <<pending, hydrator>>

LoadTrackToDeck(d, i) ==
    /\ ConductorIdle
    /\ loads < MaxLoads
    /\ loads' = loads + 1
    /\ deck' = [deck EXCEPT ![d] = i]
    /\ Hydrate(i)
    /\ SendLoad(d, i)
    /\ UNCHANGED <<registry, libraryVars, scanVars, workVars, done, sweepVars,
                   source, editVars>>

\* The hydration thread: decode, register, and only then report.
HydratorDecode(t) ==
    /\ hydrator[t] = "undecoded"
    /\ hydrator' = [hydrator EXCEPT ![t] = Decoded]
    /\ UNCHANGED <<registry, libraryVars, scanVars, workVars, pending, done,
                   sweepVars, deckVars, editVars>>

HydratorRegister(t) ==
    /\ hydrator[t] \in {"file", "silence"}
    /\ Register(t, hydrator[t])
    /\ hydrator' = [hydrator EXCEPT ![t] = "registered"]
    /\ UNCHANGED <<libraryVars, scanVars, workVars, pending, done, sweepVars,
                   deckVars, editVars>>

HydratorReport(t) ==
    /\ hydrator[t] = "registered"
    /\ done' = done \cup {t}
    /\ hydrator' = [hydrator EXCEPT ![t] = None]
    /\ UNCHANGED <<registry, libraryVars, scanVars, workVars, pending, sweepVars,
                   deckVars, editVars>>

\* tick(): a finished hydration re-drives the load of every deck still mapped
\* to the sample (LoadTrackToDeck again, which now finds it registered).
RedrivenLoads(i) ==
    SetToSeq({[deck |-> d, id |-> i] : d \in {e \in Decks : deck[e] = i}})

Redrive(i) ==
    /\ ConductorIdle
    /\ i \in done
    /\ done' = done \ {i}
    /\ toEngine' = toEngine \o RedrivenLoads(i)
    /\ IF /\ \E d \in Decks : deck[d] = i
          /\ i \in rows /\ i \notin Resident /\ mounted
       THEN /\ hydrator' = [hydrator EXCEPT ![i] = "undecoded"]
            /\ UNCHANGED pending
       ELSE /\ pending' = pending \ {i}
            /\ UNCHANGED hydrator
    /\ UNCHANGED <<registry, libraryVars, scanVars, workVars, sweepVars, deck,
                   source, loads, editVars>>

\* The audio thread: AddSourceFromRegistry does nothing if the registry misses.
AddSourceFromRegistry ==
    /\ toEngine # <<>>
    /\ LET cmd == Head(toEngine) IN
       source' = IF cmd.id \in Resident
                 THEN [source EXCEPT ![cmd.deck] = cmd.id] ELSE source
    /\ toEngine' = Tail(toEngine)
    /\ UNCHANGED <<registry, libraryVars, scanVars, workVars, hydraVars,
                   sweepVars, deck, loads, editVars>>

-----------------------------------------------------------------------------
(* reap_registry: list, compare the lengths, pin, then id by id.           *)
Lens == <<Cardinality(Resident), Cardinality(analysed)>>

\* Mutated form: decks are not pinned.
PinnedHydrations == pending

Pinned == pending \cup {deck[d] : d \in Decks}

SweepStart ==
    /\ ConductorIdle
    /\ Resident # {}
    /\ Lens # lastLens
    /\ lastLens' = Lens
    /\ sweep' = [left |-> Resident, pinned |-> Pinned]
    /\ UNCHANGED <<registry, libraryVars, scanVars, workVars, hydraVars,
                   deckVars, editVars>>

\* A track whose file is on disk can be decoded again; nothing else can.
Recoverable(i) == i \in rows /\ mounted

\* Mutated form: the sweep does not ask the analysis worker.
EvictableUnanalysed(i) == i \notin sweep.pinned /\ Recoverable(i)

Evictable(i) ==
    /\ i \notin sweep.pinned
    /\ i \in analysed
    /\ Recoverable(i)

SweepOne(i) ==
    /\ sweep # None
    /\ i \in sweep.left
    /\ sweep' = [sweep EXCEPT !.left = @ \ {i}]
    /\ IF Evictable(i) THEN Register(i, None) ELSE UNCHANGED registry
    /\ UNCHANGED <<libraryVars, scanVars, workVars, hydraVars, lastLens,
                   deckVars, editVars>>

SweepEnd ==
    /\ sweep # None
    /\ sweep.left = {}
    /\ sweep' = None
    /\ UNCHANGED <<registry, libraryVars, scanVars, workVars, hydraVars,
                   lastLens, deckVars, editVars>>

-----------------------------------------------------------------------------
\* Normalize, Crop, TimeStretch: get the sample, change it, register it under
\* its own id.
EditGet(i) ==
    /\ ConductorIdle
    /\ edits < MaxEdits
    /\ i \in Resident
    /\ edit' = i
    /\ edits' = edits + 1
    /\ UNCHANGED <<registry, libraryVars, scanVars, workVars, hydraVars,
                   sweepVars, deckVars>>

EditRegister ==
    /\ edit # None
    /\ Register(edit, "edited")
    /\ edit' = None
    /\ UNCHANGED <<libraryVars, scanVars, workVars, hydraVars, sweepVars,
                   deckVars, edits>>

\* Captures, transfusion children and slices: audio no file holds.
Capture(i) ==
    /\ ConductorIdle
    /\ edits < MaxEdits
    /\ edits' = edits + 1
    /\ i \in Takes \ Resident
    /\ Register(i, "edited")
    /\ UNCHANGED <<libraryVars, scanVars, workVars, hydraVars, sweepVars,
                   deckVars, edit>>

\* The drive the library is on is unplugged, or comes back.
Unplug ==
    /\ unplugs < MaxUnplugs
    /\ unplugs' = unplugs + 1
    /\ mounted' = ~mounted
    /\ UNCHANGED <<registry, rows, scanVars, workVars, hydraVars, sweepVars,
                   deckVars, editVars>>

-----------------------------------------------------------------------------
Scan(s) == (\E t \in Tracks : ScanDecode(s, t)) \/ ScanMark(s) \/ ScanRegister(s)
Work == WorkerList \/ (\E i \in SampleIds : WorkerFetch(i) \/ WorkerRegister(i))
          \/ WorkerMark
Hydrator(t) == HydratorDecode(t) \/ HydratorRegister(t) \/ HydratorReport(t)
Sweep == SweepStart \/ (\E i \in SampleIds : SweepOne(i)) \/ SweepEnd
Tick == Sweep \/ EditRegister \/ \E i \in Tracks : Redrive(i)
Request == (\E d \in Decks, i \in SampleIds : LoadTrackToDeck(d, i))
             \/ \E i \in SampleIds : EditGet(i) \/ Capture(i)

ResidencyNext ==
    \/ \E s \in Scanners : Scan(s)
    \/ Work
    \/ \E t \in Tracks : Hydrator(t)
    \/ Tick
    \/ Request
    \/ AddSourceFromRegistry
    \/ Unplug

ResidencySpec == ResidencyInit /\ [][ResidencyNext]_residencyVars

\* The worker, the hydration threads, tick() and the audio callback all keep
\* running; nobody has to scan, load, edit or pull a drive.
ResidencyFairSpec ==
    /\ ResidencySpec
    /\ WF_residencyVars(Work)
    /\ \A t \in Tracks : WF_residencyVars(Hydrator(t))
    /\ WF_residencyVars(Tick)
    /\ WF_residencyVars(AddSourceFromRegistry)

-----------------------------------------------------------------------------
Audio == {"file", "silence", "edited"}

ResidencyTypeOK ==
    /\ registry \in [SampleIds -> Audio \cup {None}]
    /\ rows \subseteq Tracks /\ mounted \in BOOLEAN
    /\ scan \in [Scanners -> [id : Tracks, audio : Audio \cup {"undecoded"}]
                               \cup {None}]
    /\ analysed \subseteq SampleIds /\ batch \subseteq SampleIds
    /\ results \in [SampleIds -> Audio \cup {None}]
    /\ marking \in SampleIds \cup {None}
    /\ hydrator \in [Tracks -> Audio \cup {None, "undecoded", "registered"}]
    /\ pending \subseteq Tracks /\ scanned \subseteq Tracks
    /\ edit \in SampleIds \cup {None}

\* The sweep evicts a sample only while no deck holds it, no decode of it is
\* running, analysis is done with it and its file can be decoded again
\* (reap_registry's two predicates and the analysis pin), although it judges
\* by what it pinned when it began and three kinds of thread register meanwhile.
EvictsTheReleasable ==
    [][\A i \in SampleIds : registry[i] # None /\ registry'[i] = None =>
          /\ \A d \in Decks : deck[d] # i
          /\ i \notin pending
          /\ i \in analysed
          /\ i \in Tracks /\ mounted]_residencyVars

\* Analysis never brings back a sample that was evicted while it was working
\* on it: what the worker registers is still registered.
WorkerAddsNothing ==
    [][marking' # marking /\ marking' # None => registry[marking'] # None]_residencyVars

\* Every sample that was registered is analysed in the end: eviction does not
\* skip the queue of the worker, which finds its work in the registry.
EverySampleAnalysed == \A i \in SampleIds : i \in Resident ~> i \in analysed

\* A deck whose track is being decoded for it, or is registered while the load
\* is on its way, plays it unless another track is loaded first: the load that
\* missed is driven again once the decode is registered, and no sweep evicts the
\* track before the audio thread has taken it.  (A load that found neither the
\* sample nor a file to decode is refused for good.)
OnItsWay(d, i) ==
    \/ i \in pending
    \/ i \in Resident /\ [deck |-> d, id |-> i] \in Range(toEngine)

DeckGetsItsAudio ==
    \A d \in Decks, i \in SampleIds :
        deck[d] = i /\ OnItsWay(d, i) ~> source[d] = i \/ deck[d] # i

\* "Only evict what we can produce again" (orchestrator.rs, reap_registry): an
\* edit made in place is in no file.
EvictsWhatTheFileHolds ==
    [][\A i \in SampleIds : registry[i] = "edited" => registry'[i] # None]_residencyVars
=============================================================================
