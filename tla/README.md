# Verification of the nullherz engine

nullherz is a real-time audio engine with a mixing console on top of it. A
*conductor* (control thread) edits a graph of signal processors while an *audio
thread*, called by the device for every block of samples, plays that graph on a
pool of worker threads. The audio thread may not lock, allocate or free, so
everything the two exchange goes through bounded lock-free rings, and every
structural change is staged on one side of a double buffer and swapped in at a
block boundary. Around them run workers that decode and analyse tracks, all of
them on one shared registry of samples, and child processes that host effects.

This directory specifies that machinery in TLA+, checks it with TLC on small
instances and proves part of it with TLAPS for all instances. The source of
every definition is listed in `PROJECT.json` under `map`; paths below are
relative to `src/crates/`.

1. [The system](#1-the-system)
2. [The modules](#2-the-modules)
3. [The runs](#3-the-runs)
4. [Fairness](#4-fairness)
5. [What is proved](#5-what-is-proved)
6. [What is only model-checked](#6-what-is-only-model-checked)
7. [Where the code and its comments disagree](#7-where-the-code-and-its-comments-disagree)
8. [What is not modelled](#8-what-is-not-modelled)
9. [What could come next](#9-what-could-come-next)

## 1. The system

```
 console, gateway            conductor thread                      audio thread (one block)
 ----------------   commands  ---------------------------   rings  --------------------------------
 UI, HTTP, tests   --------> Conductor (orchestrator.rs)
                              session edits, reconciler
                              TopologyManager  --- structural --> 1. drain <= 16 mutations
                                mirror of the graph               2. commit staged side, then
                                GraphCompiler -> SetTopology         apply the drained mutations
                              MixerBridge ------- bundles ------> 3. drain command bundles
 UI, tests, processors -------- timestamped commands -----------> 4. split the block at the
                                (MPSC queue)                         timestamps, render chunk by
                                                                     chunk, stage by stage, on
 conductor tick <------------------ garbage ring ----------------    the worker pool
   frees retired processors, sweeps the sample registry,          reads samples from the registry
   supervises the sidecars                                        plays SidecarProcessors
        |                                                                   | shared memory
 scanner, analysis worker, hydration threads: sample registry      child processes (sidecar-sdk)
```

Components, the state each keeps, and what makes it correct. Those marked * are
modelled, at least in part.

| component | state | operations | hard behaviour | correctness |
|---|---|---|---|---|
| Topology pipeline * (`topology_manager.rs`, `input_handler.rs`, `graph/topology_coordinator.rs`, `graph/mod.rs`) | mirror graph, topology ring, pending buffer, two sides, `needs_commit`, node array, garbage ring | one handler per command, `push_mutation`, drain, commit, apply, retire | two replicas edited by two copies of the code; batches longer than a block; back-pressure and drops; refused commits | the graph played is one that was compiled, with its own plan; replicas agree; no processor lost, shared or - but for one overflow - freed on the audio thread; the last topology arrives |
| Graph compiler * (`nullherz-topology/src/compiler.rs`) | `in_degree`, stages, islands, latencies | `compile`, `identify_islands`, `calculate_pdc`, `verify_no_hazards` | in-place buffers, several writers, bypassed nodes pruned mid-scan, loops | stages free of hazards, producers first, each node once, latencies aligned, loops refused, it returns |
| Message rings * (`ipc-layer/src/lib.rs`) | slots, head, tail; sequence numbers in the command queue | `push`, `pop`, `peek` | no locks; each end works on an old index; several producers between claim and publication | bounded FIFO, no data race, nothing overwritten |
| Command scheduler * (`engine/processing_kernel.rs`, `nullherz-traits/src/execution.rs`) | the command in hand, the one kept for later, offset, budget | split of a block at the timestamps, drain of a batch, chunks | late commands, commands due later, batches cut by the budget, pushes during rendering | commands in order, each once, at its sample, none for ever delayed |
| Worker pool * (`graph/pool.rs`, `graph/executor.rs`) | job rings, eventfds, completion counter, fault flags | `execute_stage`, worker loop, `wait_for_completion`, `Drop` | batched completions, lost wake-ups, full job rings, panics, shutdown | no job outlives its stage, each accepted job runs once, no hang |
| Graph reconciler * and session edits * (`nullherz-topology/src/lib.rs`, `orchestrator.rs`) | desired state, live graph, node names | `reconcile`, `add_channel_strip`, `remove_nodes`, `set_master_limiter` | commands computed against one graph and run on a changing one; reuse of slots and buffers | the target is reached; nothing leaks; every strip is audible |
| Sample registry * (`nullherz-dna/src/registry.rs`) | published map, garbage list, reader count, two locks | `register`, `remove`, `get`, `list_ids`, `drain_garbage`, `Drop` | readers without locks; freeing while they come and go; reused addresses | no freed map is read; one map changed one entry at a time; what is retired is freed |
| Sample residency * (`orchestrator.rs`, `analysis_worker.rs`, `folder_monitor.rs`, `command_handler.rs`) | who holds, decodes, analyses, edits which sample | deck loads, hydration, analysis, sweep, edits, captures | six threads on one registry; a sweep judges by what it saw when it began; the library's drive comes and goes | only what is unused, analysed and recoverable is evicted; every sample is analysed; a deck gets its audio |
| Sidecar supervision * (`sidecar_supervisor.rs`, `fx-runtime`, `nullherz-processors/src/sidecar.rs`, `sidecar-sdk`) | handles, restart counts, heartbeats, quota, segment names, fallbacks | load, `supervise`, restart, soft fallback, install | exit, hang, failing spawns, a full ring, a name taken over by the next instance | the quota is exact; supervision comes to rest, and what it still lists as running has a heartbeat |
| Graph hand-over (`engine/graph_manager.rs`) | pending and active pointer | swap, set, drop | pointer exchange | only an example submits a graph this way |
| Render buffers (`graph/buffer_pool.rs`) | sample arrays, delay lines | acquire, delay | numeric | - |
| Network audio jitter buffer (`ipc_audio_bridge.rs`) | a queue of samples behind a mutex, drift estimate | push, pull | length and float drift steer the play-out | - |
| Clock recovery (`clock.rs`, `ptp_engine.rs`) | servo, outstanding sync messages | sync, follow-up | floating-point control | - |
| Streaming manager (`streaming_manager.rs`, `streaming_sampler.rs`) | decoder and feeder per stream, ring | start, feed, stop | pacing | - |
| DNA network (`network.rs`, `consensus.rs`) | peers, offers, pulls | gossip and pull over TCP | duplicate pulls | - |
| Orchestrator, rest (`engine_coordinator.rs`, `mixer_orchestrator.rs`, `timeline.rs`) | transport, undo, telemetry | console intents | - | - |
| Mixer builders, processors, DSP, backends, persistence, UI and tools | see section 8 | | | |

How they interact. `Conductor` turns an edit into topology commands
(`SessionEdits`); each command is handled by `TopologyManager`, which edits its
mirror and pushes a mutation on an SPSC ring (`TopologyPipeline`, on top of
`SpscRing`); `CommitTopology` runs the compiler on the mirror (`GraphCompiler`)
and ships the plan as one more mutation; the audio thread plays the plan stage by
stage through the pool (`TaskPool`), which relies on what the compiler promises
about a stage (`StagedPlan`). Inside a block the kernel takes timestamped
commands from the queue all threads push to (`CommandPath` on `MpscRing`).
Deck loads look samples up in the registry (`SampleResidency`, on what
`SampleRegistry` promises, which is `SampleMap`). Retired processors travel back
on the garbage ring, and a retired `SidecarProcessor` that is freed takes its
segments' names with it (`SidecarSupervision`).

`PROJECT.json` lists the hazards of this code line by line, with the properties
that watch each of them.

## 2. The modules

| module | lines up with | used by |
|---|---|---|
| `GraphEdits` | the arms of `TopologyManager::handle_topology_command` that edit a routing table | `StagedEdits`, `SessionEdits` |
| `StagedEdits` | the arms of `TopologyCoordinator::apply_mutation` that edit a routing table, the second copy of these edits | `TopologyPipeline` |
| `TopologyPipeline` | conductor handlers, rings, block phases of the audio thread, garbage | |
| `StagedPlan` | what a plan promises (abstract) | `GraphCompiler` implements it |
| `GraphCompiler` | `GraphCompiler::compile`, one action per node scanned | |
| `BoundedFifo` | what a ring promises (abstract) | `SpscRing` and `MpscRing` implement it |
| `SpscRing` | `Producer::push`, `Consumer::pop`, `Consumer::peek`, one action per shared access | |
| `MpscRing` | `MpscRingBuffer::push` and `pop`, one action per shared access | `CommandPath` |
| `CommandPath` | `StandardKernel::execute`, with the queue it pops and the producers that push | |
| `TaskPool` | `execute_stage`, the worker closure, `wait_for_completion`, `Drop` | |
| `SessionEdits` | desired state, `reconcile`, and the three edits of a running session | |
| `SampleMap` | what the sample registry promises (abstract) | `SampleRegistry` implements it |
| `SampleRegistry` | `nullherz_dna::SampleRegistry`, one action per atomic access or lock | |
| `SampleResidency` | scanner, analysis worker, hydration threads, deck loads, sweep, edits, on a registry that is one map | |
| `SidecarSupervision` | `SidecarManager`, the conductor's supervisor, the installing of processors, the children | |
| `MCTopologyPipeline`, `MCGraphCompiler`, `MCCommandPath` | instances for TLC | |
| `TopologyPipeline_proofs`, `GraphCompiler_proofs`, `SpscRing_proofs`, `CommandPath_proofs`, `TaskPool_proofs`, `SessionEdits_proofs`, `SampleRegistry_proofs`, `SidecarSupervision_proofs` | theorems (those about `MpscRing` are the first half of `CommandPath_proofs`, those about `SampleResidency` the second half of `SampleRegistry_proofs`) | |

**GraphEdits, StagedEdits.** A graph is a routing table and a node count. A node reads
`in[0..nin-1]` and writes `out[0..nout-1]`; what lies above a count is stale and
kept, as in the fixed arrays of `NodeRouting`, because `AddNode` resets only the
counts. `RemoveNodeFrom` also clears every slot of the *other* nodes that names a
buffer of the removed one, without touching their counts: that side effect is
where `session_limiter` of section 7 comes from.

The code has these edits twice, once for the conductor's mirror and once for the
staged side, and so have the modules: `AddNodeTo`, `SetInput`, `SetOutput`,
`DropInput`, `RemoveNodeFrom` are the conductor's, `StagedAddNode` ..
`StagedRemoveNode` the audio thread's, each written as its own lines are (after a
removal the one counts to the last typed node, the other goes down the node array; a
disconnect moves the slots above it, or runs a loop and clears the slot that is left
over). That they do the same is not by construction:
`ReplicasAgree` is about it, and section 5 proves it edit by edit.

**TopologyPipeline.** Three threads. The conductor is synchronous: a command
edits `mirror` and leaves one mutation in `pushing`; `Push` is the attempt of
`push_mutation` that succeeds, `GiveUp` the last of the 500 that did not. The
audio thread goes through `drain`, `commit`, `apply`, `async`, `render`:
`PopTopology` (at most `DrainCap` per block, then `EndDrain` records in
`streamPending` whether the cap was hit), one of `NothingToCommit`,
`RefuseCommit`, `SwapSides`, then `ApplyOne` per pending mutation - the code
commits *before* it applies, so that what one block stages plays from the next -
then `PopBundle` for each command of a bundle, `Render`. `DrainGarbage` is the
orchestration thread. A bundle is a sequence of forwarded commands, at most
`MaxBundle` of them. `Retire` pushes whatever a mutation displaces, dummies too, so
the garbage ring fills as early as in the code. `Staged`
is `inactive_topology_mut`: the first edit after a commit clones the active side,
every edit voids the plan of the staged side. A compiled topology is immutable
once sent, so a side's plan is its position in `published` (0 is
`num_stages = 0`). A new processor takes the first unused name (`Created`).
Processors are followed by `fate`: unborn, live, freed (by the
conductor or the orchestration thread), leaked (`mem::forget` when the garbage
ring is full) or `freedOnRT`. Variables called history do not exist in the code;
no guard reads them, except `issued`, the bound on commands, and `fate` for a name
that is unused.

**GraphCompiler over StagedPlan.** `Place`, `Postpone`, `PruneBypassed` and
`NotReady` are the arms of one scan; `CloseStage` is the end of a pass. Bypassed
nodes settle in the middle of a pass and may make a *lower* index ready, which
only the next pass can see; a placed node releases its dependents only when the
pass ends. Then islands (breadth first, both directions), delay compensation,
and the verification of the result. `BuildsStagedPlan` says that all of it, seen
through `topo`, `settled`, `stages`, takes only the steps `PassOver` and `Issue`
of `StagedPlan`, whose guards are the promises.

**SpscRing over BoundedFifo.** One action per access of shared memory: load the
other's index, write or take the slot, store one's own index. A load may return
*any* value the index had since the last one this end saw (`Loads`), which covers
what acquire/release allows on any architecture; the slot accesses themselves are
ordered by those pairs. The queue that implements `BoundedFifo` is read off the
slots between the indices, with the item in the hands of `pop()` still in it.

**TaskPool.** The audio thread offers every node of a stage to some worker (which
one depends on measured times and is left open), counts refusals of full job
rings, wakes those that got a job, then waits for the counter to reach `start +
nodes - refused`, spinning first and sleeping on an eventfd after. Workers count
per job and notify per batch. A job is made with the node's bypass flag as it is then
(`IsBypassed`): the topology's switch, which may have either value, or the fault
flag. `RunJob` may panic and set the fault flag. `Stop`,
`WakeAll`, `Join` are the drop of the pool. A ring operation is one step here,
which `SpscRing` justifies.

**SessionEdits.** `FromLive` reads the desired state off the mirror; each edit
builds a target; `Reconciled` goes through the slots in index order
(`SlotReconciled`), and within a slot through its inputs, its outputs and then the
inputs it has too many (`InputsWired`, `OutputsWired`, `ExcessDropped`). What to do
is decided on the graph *before* the first command (`have`), and done, with the
operators of `GraphEdits`, to what the commands before have made of it (`g`):
`RemoveNodeFrom` also edits slots that are not its own. The bootstrapped session is
cut down to the nodes these edits meet and is built by the same commands
(`SessionInit`). `Live` is the desired state at any time.

**MpscRing over BoundedFifo.** One action per access again. A producer loads the
tail, looks at the sequence number of that slot, tries the compare-and-swap,
writes the item, stores the next sequence number; between any two of these the
others and the consumer move. `ClaimFails` is both the failed exchange and the
weak one that fails for no reason: the code then tries *the same* position again.
Loads return the newest value, since claiming goes through the exchange: an older
tail or number only makes push look again or refuse. The abstract queue holds the
positions claimed and not released, written or not.

**CommandPath.** The kernel's places are `outside`, `fetch`, `popping`, `render`,
`drain`, `draining`, `rest`; `popping` and `draining` are calls of `pop()`, whose
steps interleave with the producers'. `RenderTo` is one chunk of
`SubBlockIterator`; between chunks - the processors push while they render - the
producers move as well. Time is the absolute sample `now`, that is the block's
start plus the offset the code keeps; `ready` and `lastAt` are history. Which
items there are decides the timestamps: an item is a command.

**SampleRegistry over SampleMap.** The heap is modelled by address, and a freed
address can be allocated again, so that a reader left with a freed pointer may
find another map there. `AcquireWrite` .. `Retire` is a writer under
`write_lock`, `Enter` .. `Leave` a reader, `DrainLock` .. `DrainUnlock` the freeing,
which takes the garbage lock first and looks at the count second. `Drop` needs
that no call is in progress (the last `Arc` is gone). The atomic accesses are
interleaved, which assumes sequential consistency (section 8).

**SampleResidency.** A sample is what its audio is: the file's, an edit of it,
silence where decoding failed. Each thread's steps are its accesses to shared
state: the scanner marks, decodes and registers, the worker lists, fetches,
registers again and marks, the hydration thread decodes, registers and reports,
the conductor's sweep lists and pins once and then evicts id by id. `Unplug` takes
the drive with the files away and brings it back.

**SidecarSupervision.** An instance stands for a spawned child, its handle, its
segments and its processor. `Supervise` is the pass over the handles, `Respawn`
and `Reinsert` the restarts it asks for, `ListStalledNodes` and `FallBack` the soft
fallback after 200 ms; a tick runs the pass twice and frees the garbage at its
end. A handle is pushed to the end of the list when it is spawned, so instances are
numbered in the order of the list, and the list of handles, `to_restart`, the
processors `supervise()` returns and the stalled nodes are sets of instances that
the passes over them go through from the least (`First`). Who frees a processor's
segments is read off `proc`: held, retired by the audio thread, freed.
The heartbeat's age is `fresh`, `200ms` or `5s`. A child beats once per block
its own processor notifies it of, so it is silent when that processor does not play;
but it beats on the segments it found under the plugin's name (`attached`), which may
be those of a later instance (`BeatsFor`), and the heartbeat does not tell
(`Beats`). A child that hangs or is dead is attached to nothing. A handle fails for one
of three reasons (`Failed`): its child exited, its heartbeat stood still, or the
control group of the plugin counts an out-of-memory kill the handle has not seen.
The group is named by the plugin and goes only with its last child, so `Supervise`
lets any set of watched handles see one. Only a child that timed out is killed (`Supervised`):
after an out-of-memory event the old one may live on beside the new one.

## 3. The runs

Every run finishes on two cores in less than five minutes. Bounds that only bound
are named in the modules (`Ops`, `Wires`, `MaxBundle`, `MaxCommands`, `MaxPushes`, `MaxStages`, `Inputs`,
`Addrs`, `MaxLoads`, `MaxEdits`, `MaxUnplugs`, `MaxSpawns`, `Horizon`).

| run | result | distinct states | what it checks |
|---|---|---|---|
| `pipeline` | pass | 1,526,807 | `ActiveIsPublished`, `InstallsForward`, `WiringChangesAtCommit`: the graph being played is one the conductor compiled, with its own plan, installed in order and only at a commit; `ReplicasAgree`: the two copies of the edits do the same; `OwnedOnce`, `FreedOnlyOnOverflow`: where boxed processors go; `Converges`: what was compiled last is played in the end |
| `compiler_plans` | pass | 448,056 | `StagesHazardFree`, `ProducersRunFirst`, `LoopsAreRefused`, `IslandsAreComponents`, `InputsAligned`, `BuildsStagedPlan`, `Terminates` |
| `spsc_ring` | pass | 3,001 | `NoRace`, `PeekIsNextPop`, `ImplementsFifo`, `Delivers` |
| `command_path` | pass | 517,716 | `ImplementsFifo`, `OnTime`, `EveryCommandRuns` |
| `task_pool` | pass | 494,760 | `NoJobOutlivesItsStage`, `FaultedStaysOut`, `EachAcceptedRunsOnce`, `StagesEnd`, `PoolStops` |
| `session_edits` | pass | 362 | `StripsReachTheBus`, `NothingLeaks`, `OneWriterPerBuffer`, `LimiterInChain`, `ReconcileReaches` |
| `sample_registry` | pass | 150,639 | `NoUseAfterFree`, `ImplementsSampleMap`, `Reclaims` |
| `sample_residency` | pass | 299,705 | `EvictsTheReleasable`, `WorkerAddsNothing`, `EverySampleAnalysed`, `DeckGetsItsAudio` |
| `sidecar_supervision` | pass | 647,219 | `QuotaExact`, `SupervisionSettles` |
| `session_limiter` | violation | | `EqDrivesTheMaster` |
| `residency_edit` | violation | | `EvictsWhatTheFileHolds` |
| `queue_waits` | violation | | `PushReturnsAlone` |

The type invariants of the modules are not among the checked properties: they are
proved where the module has theorems, and were checked while the modules were
written.

**Bounds, and why they are enough.**

*pipeline*: three commands of any kind - adding, swapping, removing and disconnecting
nodes, edges on both sides, bypass, sources, bundles, commits - on two nodes with
two channels each and two buffers, of which 0 is also the null buffer. The edges
asked for (`MCWires`) are slot 0 of node 0 and slot 1 of node 1 on buffer 1, as input
or as output, so that removing a node clears a slot of the other one and so that
disconnecting the slot below shifts what is above it; an edge of a node past the end;
and one to a buffer past the end, which travels in a bundle. What matters besides is
how mutations fall on blocks: with a topology ring of one slot and a drain cap of
two, every way of cutting the mutations into blocks occurs, with edits before,
between and behind a `SetTopology`, drops, and refused commits. The pending buffer
has two slots and the garbage ring one: a bundle of two fills the first between two
blocks, an addition behind it finds it full, and if a displaced processor is still on
the garbage ring, the one that arrives is freed on the audio thread, the overflow
`FreedOnlyOnOverflow` is about. The garbage ring also fills by itself, so that the
leak is taken. Fairness rules symmetry out, so new processors are named in one
order. The proofs remove the bounds for all but `Converges`.

*compiler_plans*: **Sharing** is every wiring of three nodes over two common
buffers with every set of bypassed nodes: in-place nodes, self loops, feedback,
several writers. **Mixing** gives each node its own buffer, read by any others,
and latencies 0 to 2. **Illegal** takes the refusals. `InputsAligned` is about
graphs where each buffer has one writer that does not read it and nothing is
bypassed (`OwnBuffers`), the graphs delay compensation is made for; section 7 says
what happens outside.

*spsc_ring*: three slots hold two items; four pushes wrap both indices.

*command_path*: two producers and two slots are the smallest ring in which
producers meet on a slot and a position comes round again; three pushes fill it,
wrap it and leave somebody refused. Blocks of two samples rendered one by one,
commands due at the first, second and fourth sample, and a budget of two per block
give late commands, commands in the middle of a block, two of one timestamp, a
batch cut by the budget, and a command that waits in front of others for the next
block. `Horizon` sets the clock back between blocks to a sample behind all
timestamps, where only "has passed" is left of a timestamp.

*task_pool*: two stages of at most two nodes, two workers, job rings of one slot
so that a refusal occurs, any panic, any sleep and wake-up, a shutdown at any
idle point, and a bypass switch of either value for every job. Two stages are needed for a stale notification or a late worker to
meet the next stage.

*session_edits*: all sequences of edits - the state space is finite because
nodes, buffers and bus inputs are, and all three run out: with the limiter in
place slots and buffers run out, and without it the bus does. Two strips can be
removed in any order, from slots below and above the bus nodes.

*sample_registry*: three threads, each of which may read, write and drain; with
three addresses a map is published, one is being built, one is retired, and a freed
address comes back while a reader may still hold it.

*sample_residency*: one track and one capture, a deck, a scanner; two loads (a deck
moves away and back), one edit, and the drive going away once. All the races are
about one id that several threads register; the sweep judges each id by itself.
The proofs are for any number of everything.

*sidecar_supervision*: one node and one plugin, so that two loads meet on the
node, in the segment names and in the quota of two; one restart each; three spawns
succeed at most, and a spawn may fail at any time; any look at the handles may find
out-of-memory kills for any of those that are watched. A topology ring of one slot
makes fallbacks and restarted processors drop.

Deadlock is checked except where the system really ends or rests: a dropped pool
(`task_pool`), a dropped registry (`sample_registry`), and a session in which
nobody asks for anything any more (`sample_residency`, `residency_edit`). In the
pipeline and the command path the audio thread turns for ever, with or without
something to do.

Each property of a passing run is paired in `PROJECT.json` with a mutated form of
one definition (a dropped guard, an off-by-one, a lost store) that violates it.
The mutated forms stand in the modules before the definition they replace and are
used nowhere else.

## 4. Fairness

- `TopologyPipeline`: weak fairness of the audio thread as a whole (the device
  calls it for every block, and it runs to the end of the block) and of `Push`
  (the retry loop of `push_mutation`). None on the conductor: it need not issue
  anything, and `GiveUp` is never forced.
- `GraphCompiler`: `compile` is one call that runs until it returns.
- `SpscRing`: a push that was begun is finished and a begun pop too; strong
  fairness on a load that sees the newest tail, which says that the consumer
  polls and that stores become visible in the end. The *start* of a push and
  `peek` carry none.
- `CommandPath`: weak fairness of the audio thread and of each thread inside
  `push()`, and strong fairness of `Claim`: an exchange that could succeed again
  and again does not fail for no reason for ever. Nobody need begin a push. In
  `queue_waits` only one producer, `Host`, and the audio thread are scheduled:
  lock-freedom is about the threads that run when others do not.
- `TaskPool`: every thread that can run is scheduled in the end. Nothing obliges
  the audio thread to begin a stage or to drop the pool.
- `SessionEdits` has no liveness.
- `SampleRegistry`: calls that were begun go on; strong fairness for the two
  places that wait for the garbage lock, of which the conductor's tick is the one
  that drains. Nobody need begin a call.
- `SampleResidency`: the analysis worker, the hydration threads, the conductor's
  tick and the audio callback keep running (each is a loop). Nobody has to scan,
  load, edit or pull a drive.
- `SidecarSupervision`: the conductor ticks, the audio thread installs, a started
  process runs, and time passes for a handle that keeps being silent. Nothing makes
  a child fail, and nothing makes it beat.

## 5. What is proved

All theorems are checked by tlapm from nothing. They assume only the named
assumptions on the constants (`SizeAssumption`, `PipelineAssumption`,
`NoMutationAssumption`, `PlanAssumption`, `CompilerAssumption`, `RingAssumption`,
`MpscAssumption`, `PathAssumption`, `PoolAssumption`, `NoJobAssumption`,
`RegistryAssumption`, `ResidencyAssumption`, `SidecarAssumption`,
`SessionAssumption`): sizes are natural numbers, null values are no values, a
multi-producer ring has at least two slots, timestamps are samples, there is a worker
and there are finitely many, and a session has room for the nodes and buffers that
bootstrap gives it.

**Topology pipeline** (`TopologyPipeline_proofs`, which begins with lemmas that
every edit of `GraphEdits` maps graphs to graphs and that its twin in `StagedEdits`
maps them to the same ones) - for any number of nodes,
channels, buffers and processors, any ring sizes, any drain cap, any number of
commands:

- `TypeCorrect`: `TypeOK`. Not inductive alone - a `SetTopology` in flight could
  name a topology that was never published - so it is proved together with
  `QueuedKnown`.
- `PlaysWhatWasPublished` (`ActiveIsPublished`), `NeverInstallsBackwards`
  (`InstallsForward`), `WiringStableWithinBlock` (`WiringChangesAtCommit`) from
  `PlayInv`, which has four parts: `SidesPublished` (a side with a plan holds
  exactly the topology of that plan; the side being played has one or is empty),
  `QueueOrdered` (the `SetTopology`s in `pending`, the ring and `pushing` are in
  the order of their compilation), `PlansBehind` (both sides' plans are older
  than anything in flight) and `StagedAhead` (a staged plan is newer than the one
  being played). `StagedAhead` is what `InstallsForward` needs; it holds when a
  `SetTopology` is applied only because of `PlansBehind`, which a push preserves
  only because of `QueueOrdered`.
- `ProcessorsOwnedOnce` (`OwnedOnce`): a processor can be in the mutation being
  pushed, on the ring, in the pending buffer, at a node or on the garbage ring.
  `Owned` says that a live one is in exactly one of these places, once, and any
  other in none. A queue that moves on has one carrier less (`WhereTail`) and the
  place it moves to one more (`WhereAppend`, `InstallOwned`); the processor a node
  gives up goes to the garbage ring or is leaked (`RetireOwned`).
- `FreedOnRTOnlyOnOverflow` (`FreedOnlyOnOverflow`): a processor freed on the audio
  thread is that of a mutation which found the pending buffer and the garbage ring
  full, was counted as dropped, and whose processor is at no node (from `Owned`).
- `ReplicasStayInStep` (`ReplicasAgree`) and `NodesMatchTypes`. A replica is a graph
  with the set of nodes that hold a processor, and a mutation maps one replica to
  the next (`Replayed`). As long as nothing was dropped, applying what is pending to
  the staged side, then what is in the ring, then what is being pushed gives the
  mirror with the types the conductor keeps (`InStep`). A queue is applied through a
  chain of replicas, one before each mutation (`Replays`), so a mutation that moves
  from one queue to the next only moves a link of the chain. What the audio thread's
  own handlers do to a graph is the same function, though they are another copy:
  `SameAddNode`, `SameUpdateEdge`, `SameUpdateOutputEdge`, `SameDisconnect`,
  `SameCount` and `SameRemoveNode` say so of each pair of edits, for all graphs. One
  more place where the copies could part is that bundles reach the second one
  unchecked; `BundlesHarmless` says that those edit no graph. A refused commit throws the staged graph away but not what it did to the
  node array, so after one the chain begins at some graph that nobody holds any
  more, while processors and types still agree; that is what `NodesMatchTypes` adds.

**Compiler** (`GraphCompiler_proofs`) - for any graph:

- `StagedPlanIsSafe`: the abstract plan builder keeps `StagesHazardFree`,
  `ProducersRunFirst`, `RunOnce`.
- `CompileRefines`: `compile` implements it (`BuildsStagedPlan`). The inductive
  invariant is `InDegreeExact` (during the loop `inDegree[n]` is the number of
  producers of `n` that have no place yet) and `StageOpen` (the stage being
  filled could be issued as it is). `InDegreeExact` is where pruning in mid-scan
  and releasing at the end of a pass have to add up.
- `NoHazardInAStage`, `ProducersBeforeConsumers`, `EachNodeOnce`,
  `CompilesCompletely` follow. `NoHazardInAStage` is the claim under the
  `unsafe` blocks of `execute_stage`.
- `LoopsGetNoPlan` (`LoopsAreRefused`) rests on `SettledInOrder`: the producers of a
  settled node are settled, and every set of settled nodes has one in it that takes
  nothing from the others, so no node of a loop is ever settled.
- `IslandsAreExact` (`IslandsAreComponents`): the islands are numbered without gaps
  (`Labelled`); a visited node outside the frontier has its neighbours in its own
  island, and at the end every node is visited and the frontier empty (`Searched`);
  nodes of one island are connected (`LinkedUp`).
- `InputsArriveTogether` (`InputsAligned`). `PathsCarried`: the latency of a node is
  the latest arrival of what those of its producers write that the pass over the
  stages has left behind, or 0 if there are none; carrying a stage on keeps it
  because no producer of a node it has passed runs later (`ProducersRunFirst`).
  `Aligned`: when it ends, every input that lacks something is delayed by just that
  much. What a node then hears is defined by a recursive function over the stages,
  `OutputTime`. The proof exhibits a solution of its equation (`OutputTimeExists`),
  so that the `CHOOSE` behind the definition is one, and shows by induction over the
  stages that a node's output time is its arrival (`OutputAtArrival`). Induction goes
  by sets, since the prover takes no predicate as a parameter: a set of naturals
  that is not empty has a least element (`LeastNat`, from well-foundedness of `<`).

**SPSC ring** (`SpscRing_proofs`) - for any capacity and any staleness of the views:

- `TypeCorrect`, `RaceFree` (`NoRace`), `NeverOverwrites`
  (`NothingOverwritten`), `PeekedIsPopped` (`PeekIsNextPop`), `RingRefines`
  (`ImplementsFifo`). The heart is `IndexOrder`: going round from the head the
  producer last saw one meets the real head, the tail the consumer last saw and
  the real tail before coming back, written as an equation of distances. With
  it `MidCall`, `SlotsHold` and `PeekKnown` say what the slots hold.

**Command queue** (`CommandPath_proofs`) - for any capacity from two and any number of
producers:

- `RingInvariance` and `QueueRefines` (`ImplementsFifo`). The invariant follows the
  window of `Capacity` positions from the one `pop()` returns next: their slots
  are pairwise different (`SlotsApart`, from division with remainder), no two
  producers are between claim and publication of one position (`ClaimsDiffer`),
  and the sequence number of a slot tells whether its position is published
  (`NumbersTell`). A producer that saw its position free and was preempted may
  hold an old position; its claim succeeds only if the tail is still there, and
  then the position is inside the window (`ProducersKnow`). A release moves the
  window by one, and the slot it leaves is the one it gains (`SlotOfNextLap`).

**Command path** (`CommandPath_proofs`) - for any sizes of blocks and chunks, any
budget and any timestamps besides:

- `CommandsQueueUp` (`ImplementsFifo`): every step of the kernel is a step of the
  queue or none, so the queue's invariant and refinement carry over.
- `TypesKept` (`TypeOK`) and `CommandsRunOnTime` (`OnTime`). The invariant says that
  the kernel holds at most one command, in `cmd` or in `pending`, and that it is
  the next one accepted (`InOrder`); that `now` lies between the sample the block
  last executed at and the target (`Clock`); that a command is popped only with
  budget left (`Affordable`); and that every position that waited when the block
  began stays published until it is popped (`StillWaits`), so that a `pop()` which
  finds nothing has everything of them behind it (`NothingFound`).

**Worker pool** (`TaskPool_proofs`) - for any number of workers, nodes and stages and
any size of the job rings:

- `PoolTypes` (`TypeOK`), `StagesAreFenced` (`NoJobOutlivesItsStage`),
  `AcceptedRunOnce` (`EachAcceptedRunsOnce`), `FaultedAreBypassed`
  (`FaultedStaysOut`). Each node of the stage is in one place: not offered yet,
  refused, a job in one ring, a job in one hand (`InOnePlace`, `JobsValid`), or
  `Done`. The counter has grown by the cardinality of `Done` (`Counted`), and the
  history `runs` is one where a node is done or about to be counted (`RunsTell`).
  So when the wait ends, `Done` and the accepted nodes are finite sets of one size,
  one inside the other, hence the same, and no ring and no hand holds anything
  (`AllDone`); that is where `Target` has to be right, and why the next stage starts
  from an empty pool (`Quiet`). That a job's copy of the fault flag is never out of
  date also rests on `InOnePlace`: no other job of that node could have set it.

**Session edits** (`SessionEdits_proofs`) - for any number of node slots, buffers
and inputs per node, any boundary of the reserved buffers that keeps master and cue
below it (12 in the code, 4 in the run), and sessions of any length:

- `EditsReachTheirTarget` (`ReconcileReaches`). A slot's commands are loops over its
  edges, a reconciliation is a loop over the slots; each loop has an invariant that
  says which part is already as wanted (`InputsWiredLoop`, `ReconciledLoop`).
  `RemoveNode` may take any buffer of the node it removes from any other node, before
  or after that node's own commands, so the result of a reconciliation
  (`ReconciledFacts`) is the target *up to lost buffers* (`Near`): a place holds what
  it should, or nothing, if what it should hold belonged to a removed node. The
  target is reached where no node that stays uses such a buffer, and that is what
  the rest of the invariant shows of each edit.
- `EveryBufferHasOneWriter` (`OneWriterPerBuffer`). `NodesApart`: no two nodes write
  one buffer, only the EQ and slot 1 write the master, and slot 1 reads nothing that
  others write; `StripsApart`: strips have slots of their own, and a gain stage reads
  only its sampler. Both halves hold in every session, also after the limiter switch
  removed a sampler (section 7), since they are about nodes and not about what the
  console believes.
- `StripsAreHeard` (`StripsReachTheBus`), `NothingIsLeaked` (`NothingLeaks`),
  `ChainHolds` (`LimiterInChain`) from `Whole`, which holds until that happens: the
  bus reads each side of each strip once and nothing twice, the limiter, if in, sits
  between EQ and master, and slots, buffers and bus inputs in use are counted by the
  strips and the limiter. The counts are the part that is delicate: an edit adds or
  frees exactly two slots and four buffers only because what it takes was free
  (`free_buffers` looks at inputs as well as outputs) and what it gives back nobody
  else reads. Taking the limiter out is the one edit that does not reach its target,
  and `LimiterGoneWhole` says what of the invariant it keeps all the same.
- `SessionTypes` (`SessionTypeOK`), and `SessionStaysWhole` for the invariant itself.

**Sample registry** (`SampleRegistry_proofs`) - for any number of threads and
addresses:

- `NoFreedMapIsRead` (`NoUseAfterFree`) and `RegistryRefines`
  (`ImplementsSampleMap`). A map is published, then held by the writer that
  replaced it, then retired; retiring takes the garbage lock, so none is retired
  while a thread is behind its look at the count, and that look found no reader.
  The order of lock and count in `drain_garbage` is what the proof rests on.

**Sample residency** (`SampleRegistry_proofs`, second half) - for any library, decks, scanners:

- `SweepsOnlyTheReleasable` (`EvictsTheReleasable`): the conductor takes one step at
  a time, so what a sweep pinned is what is in use until it ends (`SweepPins`).
- `AnalysisBringsNothingBack` (`WorkerAddsNothing`): what the worker has in hand is
  not analysed before it is marked, and the sweep evicts only what is (`InHand`).

**Sidecar supervision** (`SidecarSupervision_proofs`) - for any number of nodes,
plugins, loads, restarts and spawns, any quota and any size of the topology ring:

- `TypesKept` (`TypeOK`) and `QuotaIsExact` (`QuotaExact`): usage is the cardinality
  of the handles, and each path that takes one off the list or puts one on it -
  the restarts of one pass leave together, a respawn adds one or none - moves it by
  as many. What waits to be restarted has a restart left (`RestartsLeft`), and
  stalled nodes exist only between the two passes (`StalledInPhase`), so every
  fallback finds a handle to mark.
- `SegmentsOutliveTheirUse`: a processor, and with it its segments, is held exactly
  while it is with `supervise()`, in the ring or at a node (`ProcessorsHeld`). It
  is inductive with `OnePlace`: a processor is in one of those places and once,
  so the one that `Install` displaces, or that a full ring drops, is nowhere else.

## 6. What is only model-checked

Liveness is beyond tlapm: `Converges`, `Terminates`, `Delivers`,
`EveryCommandRuns`, `StagesEnd`, `PoolStops`, `Reclaims`, `EverySampleAnalysed`,
`DeckGetsItsAudio`, `SupervisionSettles`.

The safety properties of the passing runs are all proved too.

## 7. Where the code and its comments disagree

Three runs end in a counterexample; each is a behaviour of the code that a comment
of the code denies.

- `session_limiter`. `set_master_limiter(false)` promises to rewire "the mastering
  EQ straight to the master buffers". The reconciler first points the EQ at
  buffers 0 and 1, then removes the limiter; `RemoveNode` clears every slot of
  the other nodes that names a buffer of the removed node, and buffer 1
  (`master_r`) is one. Buffer 0 (`master_l`) escapes because it is also the null
  buffer. The right channel has no writer any more, and the capture node records
  the left channel twice, for good. The test of the switch looks at the left
  buffer only.
- `residency_edit`. `reap_registry` says it evicts only what can be produced again.
  An edit made in place (normalize, crop, time-stretch) is registered under the
  track's own id, whose file still exists, so the edit is evicted with it as soon
  as the track is on no deck, and the next load decodes the unedited file.
- `queue_waits`. The command queue is documented as lock-free. A producer that
  loses the exchange for a position tries the same position again (it does not take
  over the tail the exchange returned) and sees the sequence number unchanged
  until the winner has published its item. If the winner is preempted there, the
  loser spins; processors push from the audio thread.

Seen while modelling, and stated here without a run:

*Session and pipeline*

- After the limiter was taken out, `node_names` still holds its slot. A strip
  added later takes that slot (the lowest free one); switching the limiter off
  again, which the comment calls idempotent, then removes the strip's sampler,
  and switching it on does nothing. `SessionEdits` reaches this (`misfired`), and
  its properties are claimed for sessions in which it has not happened.
- `reconcile` has no command that lowers an output count: a target with fewer
  outputs than the live node is never reached. No caller asks for one.
- A compiled topology that shares its drain with one more structural edit loses
  its plan (`inactive_topology_mut`, `topology_coordinator.rs:74`), is refused at
  the next commit and never played; the next `CommitTopology` repairs it. A refused
  commit clears `needs_commit`, and the conductor does not know that it must
  commit again (`topology_coordinator.rs:118-123`). `Converges` is therefore about
  topologies behind which nothing else was queued, and `ReplicasAgree` holds up to
  what a refused commit left staged.
- An edge to a buffer out of range is rejected by the topology manager
  (`topology_manager.rs:213`) and forwarded to the audio thread by the mixer
  bridge, which takes "not handled" for "not structural".
- A node bypassed at compile time gets no stage, so its outputs keep what an
  earlier block left in them, and taking the bypass off does not bring it back
  before the next compile (`compiler.rs:147`, `topology_manager.rs:309`).
- `AddNode` and `RemoveNode` change the node array when they are drained while
  the wiring waits for a commit (`topology_coordinator.rs:152`), so for a block or
  more the old plan runs with a new or a dummy processor.
- A command bundle can overtake the mutation it depends on: the rings are
  drained at two moments of a block and the topology ring only up to the cap.
- When the pending buffer overflows *and* the garbage ring is full, the processor
  of the dropped `AddNode` or `SwapProcessor` is freed on the audio thread
  (`graph/mod.rs:563-566` lets go of what `push_processor` gives back), though the
  comment above it says that the processor "is recycled correctly"
  (`graph/mod.rs:552`). `pipeline` reaches this; `FreedOnlyOnOverflow` says that it is
  the only way.

*Compiler and pool*

- A pass whose only ready nodes are bypassed, with consumers of lower index, ends
  the loop with "Cycle detected in graph" on a graph without a cycle
  (`compiler.rs:196`).
- Delay compensation does not align in-place nodes, buffers with several writers,
  or paths through bypassed nodes: it takes one writer per buffer and walks the
  stages only.
- In the compiler the comparison of reads with what the stage writes never
  decides anything: an edge already keeps the two in different stages.
- A fault flag is cleared by `RemoveNode` but not by `AddNode` or
  `SwapProcessor`, so a processor swapped in for one that panicked stays muted.
- In debug builds a worker that fails `assert_finite_block!` (`pool.rs:216`) dies
  before it counted its job, and the audio thread waits for ever. Compiled out in
  release builds and not modelled.

*Commands*

- Commands are popped in the order they were pushed, not by timestamp: one that is
  due later delays all behind it, those due at once included. `OnTime` and
  `EveryCommandRuns` say what is left of punctuality.
- The last lines of `execute` that keep a remaining command never find one.
- A full queue drops the command of a processor that pushes without a word.
- A queue of one slot would take a full slot for a free one (`position + 1` is then
  `position + capacity`); the engine builds it with 256 and more.

*Samples*

- The worker registers again what it fetched before: an edit made in place between
  the two is overwritten by the unedited audio.
- The sweep runs only when one of two lengths changed, so a track that a deck lets
  go stays in memory until something else is registered or analysed.
- A file that vanishes between `exists()` and the decoder is registered as five
  seconds of silence, and stays that under its id.
- A load that found neither the sample nor a file is refused for good, also if the
  drive comes back.
- `ReAnalyze` clears a worker that `main.rs:59` has moved to its own thread, and does
  nothing there.

*Sidecars*

- A restarted sidecar has the segment names of the old one, whose processor still
  plays. If that is displaced and freed before the new child opened its segments,
  its drop removes the names and the child exits; the same holds for two loads of
  one plugin. Another restart repairs it while there is one left.
- A second load onto a node displaces the first sidecar, whose child is no longer
  notified and falls silent; it is taken for stalled, and the fallback replaces the
  healthy newcomer. `mark_as_bypassed` marks the first handle of the node.
- Handles that are bypassed or given up, and those whose fallback found the ring
  full, never get a `FallbackProcessor` later;
  `docs/system/ARCHITECTURE.md:176` says that a stall swaps one in.
- A sidecar may be listed as running for good and never play. Say the node's first
  sidecar fell back, its fallback was dropped on the full ring, and a second load of
  the plugin took over the names, but its processor was dropped on the full ring too.
  If the first child opens the segments only now, it finds the second one's, and once
  the first processor is installed it beats them for every block: the second sidecar
  looks alive. `SupervisionSettles` is stated up to this.
- An out-of-memory kill is counted by the plugin's control group, which all its
  children share and which a restart cannot remove while one of them lives, and a new
  handle starts counting from zero: a kill its predecessor was restarted for may be
  held against it. Nor is the old child killed: if it was
  another of the group that died, it lives on beside its replacement
  (`fx-runtime/src/lib.rs:283-286`).
- Whether a sidecar timed out is decided before its heartbeat is looked at: a
  conductor that pauses for more than five seconds kills healthy sidecars.
- If the sidechain segment cannot be created after the child was started, the child
  is never waited for. Hot standbys are spawned by tests only.
- `SidecarProcessor` takes up results a block late after it missed one, its channels
  may then belong to different blocks, and after more than ten misses it bypasses
  for good; it writes a `Command` where the other end reads a `TimestampedCommand`.
- `GraphManager` drops the outer box of the graph it displaced on the audio thread;
  only an example submits graphs that way.

## 8. What is not modelled

Inside modelled components:

- *Pipeline*: the crossfade and morph branches of the commit (only tests turn them
  on), node positions, host assignments, sidechain lists as such (they count as
  reads in the compiler), telemetry, the assignment of nodes to workers, delay
  lines and samples. Buffers are virtual buffers throughout (`virtual_to_physical`
  is the identity wherever a graph is built).
- *Command path*: what a command does to the graph; the transport that advances with
  each chunk; old values of relaxed loads in `MpscRing` (see section 2).
- *Sample registry*: memory orders. The model interleaves the accesses of `inner`,
  `readers` and the locks, that is, it assumes sequential consistency; in the code the
  reader count is `SeqCst`, but `inner` is stored with `Release` and loaded with
  `Acquire` (`registry.rs:38,57,102`), so that a load can be older than the model's.
- *Sample residency*: metadata, stems, streaming decks, undo. The sweep's check of
  an id and its removal are one step: nothing another thread can do between the two
  changes what was checked, except the drive.
- *Sidecars*: the exchange of blocks over shared memory and its deadline, remote
  sidecars, hot standbys, and the failure policies other than `AutoRestart`. The
  garbage ring is unbounded here, a pass of `supervise` over its handles and the
  time a tick takes are one instant.

Left out, with the reason:

- *Numeric*: DSP kernels, processors, buffer pool, clock servo, the network audio
  jitter buffer (its play-out depth follows a floating-point drift estimate).
- *Device and file I/O*: audio backends (their block callback is the fairness of
  the audio thread), persistence (redb provides the transactions), folder
  monitor's watching of the disk, gateway, UI, benches, build tasks.
- *Straight-line construction*: the mixer builders and compositions emit lists of
  nodes and edges; only the ids of the master section are used here.
- *Not used by the program*: `GraphManager`'s exchange of whole graphs, the remote
  sidecars.
- *Streaming manager and DNA network*: a decoder and a feeder per stream behind a
  ring of the `SpscRing` kind, and pulls over TCP of which one that runs twice
  saves the same track twice. Their loops share nothing else with other threads.

## 9. What could come next

1. The composition of pipeline, compiler and pool: a pool that runs the plan being
   played, so that `NoJobOutlivesItsStage` and `WiringChangesAtCommit` meet.
2. The block exchange of the sidecars with its deadline, on `SpscRing`.
3. PTP follow-up matching, without the servo.
4. The invariants behind the liveness properties, so that a reader can see what they
   rest on.
5. `SampleRegistry` with the views of `SpscRing`, in place of sequential consistency.
