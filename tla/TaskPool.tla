-------------------------------- MODULE TaskPool --------------------------------
(***************************************************************************)
(* How the audio thread runs a stage of the plan on worker threads.        *)
(*                                                                         *)
(*   audio thread: reads the completion counter, gives every node of the   *)
(*     stage to the job ring of some worker, counts the refusals of full   *)
(*     rings, wakes the workers that got a job, and waits until the        *)
(*     counter has grown by the number of accepted jobs: first spinning,   *)
(*     then on an eventfd.  A stage that is too cheap is run inline.       *)
(*   worker: drains its ring, adding one to the counter per job; writes    *)
(*     the completion eventfd once per batch; looks at its ring a thousand *)
(*     times more; then sleeps on its own eventfd.                         *)
(*                                                                         *)
(* A job is raw pointers into the nodes and buffers of the graph, so the   *)
(* wait is all that keeps the audio thread from changing them under a      *)
(* worker.  A ring operation is one step here: SpscRing shows that a ring  *)
(* is a bounded queue.  An eventfd is a flag: a read resets its count, and *)
(* nothing depends on how high it was.  Which worker gets a node depends   *)
(* on measured times and is left open.                                     *)
(***************************************************************************)
EXTENDS Integers, Sequences, FiniteSets

CONSTANTS
    Workers,
    NumNodes,     \* nodes 1 .. NumNodes, in the order a stage lists them
    RingCap,      \* usable slots of a job ring (127)
    NoJob,
    MaxStages     \* bound: stages executed

ASSUME PoolAssumption ==
    /\ RingCap \in Nat \ {0}
    /\ NumNodes \in Nat
    /\ MaxStages \in Nat
    /\ IsFiniteSet(Workers) /\ Workers # {}

Nodes == 1 .. NumNodes

Job == [node : Nodes, stage : 1 .. MaxStages, bypassed : BOOLEAN]

ASSUME NoJobAssumption == NoJob \notin Job

VARIABLES
    rt,            \* where the audio thread is in execute_stage or in Drop
    stageNo,       \* history: stages begun
    stage,         \* the nodes of the stage being dispatched
    toPush,        \* the ones that have not been offered to a worker
    start,         \* start_count
    dropped,       \* nodes whose job was refused
    wake,          \* wake_mask; the workers still to be notified
    jobs,          \* the job ring of each worker
    wakeFd,        \* the eventfd of each worker
    worker,        \* where each worker is in its loop
    job,           \* the job it is running
    batch,         \* batch_completed > 0
    completion,    \* the completion counter
    completionFd,
    running,
    faulted,       \* faulted_states
    runs           \* history: how often each node was run in this stage

stageVars  == <<stageNo, stage, toPush, start, dropped, wake>>
workerVars == <<worker, job, batch>>
sharedVars == <<jobs, wakeFd, completion, completionFd, running, faulted, runs>>
vars == <<rt, stageVars, workerVars, sharedVars>>

Init ==
    /\ rt = "idle" /\ stageNo = 0
    /\ stage = {} /\ toPush = {} /\ start = 0 /\ dropped = {} /\ wake = {}
    /\ jobs = [w \in Workers |-> <<>>]
    /\ wakeFd = [w \in Workers |-> FALSE]
    /\ worker = [w \in Workers |-> "top"]
    /\ job = [w \in Workers |-> NoJob]
    /\ batch = [w \in Workers |-> FALSE]
    /\ completion = 0 /\ completionFd = FALSE
    /\ running = TRUE
    /\ faulted = {}
    /\ runs = [n \in Nodes |-> 0]

-----------------------------------------------------------------------------
(***************************************************************************)
(* The audio thread: GraphExecutor::execute_stage.                         *)
(***************************************************************************)
BeginStage(S) ==
    /\ rt = "idle"
    /\ stageNo < MaxStages
    /\ stageNo' = stageNo + 1
    /\ stage' = S
    /\ runs' = [n \in Nodes |-> 0]
    /\ dropped' = {} /\ wake' = {}

\* A panic in process() is caught and bypasses the node from then on.
RunInline(S) ==
    /\ BeginStage(S)
    /\ \E panics \in SUBSET (S \ faulted) : faulted' = faulted \cup panics
    /\ UNCHANGED <<rt, toPush, start, workerVars, jobs, wakeFd, completion,
                   completionFd, running>>

Dispatch(S) ==
    /\ Cardinality(S) >= 2
    /\ BeginStage(S)
    /\ start' = completion
    /\ toPush' = S
    /\ rt' = "push"
    /\ UNCHANGED <<workerVars, jobs, wakeFd, completion, completionFd, running, faulted>>

\* Mutated form: build_job looks only at the bypass switch of the node.
FaultIgnored(n, switch) == switch

IsBypassed(n, switch) == switch \/ n \in faulted

\* switch is the node's bypass_states in the topology.  SetBypass commands change it
\* between two blocks and nothing else of the pool depends on it: it may be either.
JobFor(n, switch) == [node |-> n, stage |-> stageNo, bypassed |-> IsBypassed(n, switch)]

JobRingFull(w) == Len(jobs[w]) >= RingCap

\* The stage is gone through in order.
Offered(n) == n \in toPush /\ \A m \in toPush : n <= m

PushJob(n, w) ==
    /\ rt = "push"
    /\ Offered(n)
    /\ ~JobRingFull(w)
    /\ \E switch \in BOOLEAN : jobs' = [jobs EXCEPT ![w] = Append(@, JobFor(n, switch))]
    /\ toPush' = toPush \ {n}
    /\ wake' = wake \cup {w}
    /\ UNCHANGED <<rt, stageNo, stage, start, dropped, workerVars, wakeFd, completion,
                   completionFd, running, faulted, runs>>

RefuseJob(n, w) ==
    /\ rt = "push"
    /\ Offered(n)
    /\ JobRingFull(w)
    /\ toPush' = toPush \ {n}
    /\ dropped' = dropped \cup {n}
    /\ UNCHANGED <<rt, stageNo, stage, start, wake, workerVars, sharedVars>>

AllOffered ==
    /\ rt = "push"
    /\ toPush = {}
    /\ rt' = "notify"
    /\ UNCHANGED <<stageVars, workerVars, sharedVars>>

\* notify_workers_masked.
NotifyWorker(w) ==
    /\ rt = "notify"
    /\ w \in wake
    /\ wakeFd' = [wakeFd EXCEPT ![w] = TRUE]
    /\ wake' = wake \ {w}
    /\ UNCHANGED <<rt, stageNo, stage, toPush, start, dropped, workerVars, jobs,
                   completion, completionFd, running, faulted, runs>>

AllNotified ==
    /\ rt = "notify"
    /\ wake = {}
    /\ rt' = "spin"
    /\ UNCHANGED <<stageVars, workerVars, sharedVars>>

\* Mutated forms: one completion too few is awaited; refused jobs are awaited.
TargetShort == start + Cardinality(stage) - Cardinality(dropped) - 1
TargetOfAll == start + Cardinality(stage)

\* What wait_for_completion waits for.
Target == start + Cardinality(stage) - Cardinality(dropped)

StageDone ==
    /\ rt \in {"spin", "check"}
    /\ completion >= Target
    /\ rt' = "idle"
    /\ UNCHANGED <<stageVars, workerVars, sharedVars>>

SpinInVain ==
    /\ rt = "spin"
    /\ completion < Target
    /\ rt' = "check"
    /\ UNCHANGED <<stageVars, workerVars, sharedVars>>

Block ==
    /\ rt = "check"
    /\ completion < Target
    /\ rt' = "wait"
    /\ UNCHANGED <<stageVars, workerVars, sharedVars>>

Unblock ==
    /\ rt = "wait"
    /\ completionFd
    /\ completionFd' = FALSE
    /\ rt' = "check"
    /\ UNCHANGED <<stageVars, workerVars, jobs, wakeFd, completion, running, faulted,
                   runs>>

\* RemoveNode, applied between two blocks, gives the index a clean record.
ClearFault(n) ==
    /\ rt = "idle"
    /\ n \in faulted
    /\ faulted' = faulted \ {n}
    /\ UNCHANGED <<rt, stageVars, workerVars, jobs, wakeFd, completion, completionFd,
                   running, runs>>

-----------------------------------------------------------------------------
(***************************************************************************)
(* Drop for TaskPool: stop, wake everybody, join.                          *)
(***************************************************************************)
Stop ==
    /\ rt = "idle"
    /\ running' = FALSE
    /\ rt' = "stopping"
    /\ UNCHANGED <<stageVars, workerVars, jobs, wakeFd, completion, completionFd, faulted,
                   runs>>

\* Mutated form: the workers are not woken.
WakeNobody ==
    /\ rt = "stopping"
    /\ rt' = "joining"
    /\ UNCHANGED <<stageVars, workerVars, sharedVars>>

WakeAll ==
    /\ rt = "stopping"
    /\ wakeFd' = [w \in Workers |-> TRUE]
    /\ rt' = "joining"
    /\ UNCHANGED <<stageVars, workerVars, jobs, completion, completionFd, running, faulted,
                   runs>>

Join ==
    /\ rt = "joining"
    /\ \A w \in Workers : worker[w] = "exited"
    /\ rt' = "gone"
    /\ UNCHANGED <<stageVars, workerVars, sharedVars>>

-----------------------------------------------------------------------------
(***************************************************************************)
(* A worker: the closure of TaskPool::new, and run_job.                    *)
(***************************************************************************)
Goto(w, there) == worker' = [worker EXCEPT ![w] = there]

Top(w) ==
    /\ worker[w] = "top"
    /\ Goto(w, IF running THEN "drain" ELSE "exited")
    /\ batch' = [batch EXCEPT ![w] = FALSE]
    /\ UNCHANGED <<rt, stageVars, job, sharedVars>>

\* Mutated form: the job is looked at and left in the ring.
PopJobByPeek(w) ==
    /\ worker[w] = "drain"
    /\ jobs[w] # <<>>
    /\ job' = [job EXCEPT ![w] = Head(jobs[w])]
    /\ Goto(w, "run")
    /\ UNCHANGED <<rt, stageVars, batch, sharedVars>>

PopJob(w) ==
    /\ worker[w] = "drain"
    /\ jobs[w] # <<>>
    /\ job' = [job EXCEPT ![w] = Head(jobs[w])]
    /\ jobs' = [jobs EXCEPT ![w] = Tail(@)]
    /\ Goto(w, "run")
    /\ UNCHANGED <<rt, stageVars, batch, wakeFd, completion, completionFd, running,
                   faulted, runs>>

\* A bypassed node copies or clears its buffers; process() may panic.
RunJob(w) ==
    LET n == job[w].node IN
    /\ worker[w] = "run"
    /\ runs' = [runs EXCEPT ![n] = @ + 1]
    /\ \/ UNCHANGED faulted
       \/ ~job[w].bypassed /\ faulted' = faulted \cup {n}
    /\ Goto(w, "count")
    /\ UNCHANGED <<rt, stageVars, job, batch, jobs, wakeFd, completion, completionFd,
                   running>>

CountJob(w) ==
    /\ worker[w] = "count"
    /\ completion' = completion + 1
    /\ batch' = [batch EXCEPT ![w] = TRUE]
    /\ job' = [job EXCEPT ![w] = NoJob]
    /\ Goto(w, "drain")
    /\ UNCHANGED <<rt, stageVars, jobs, wakeFd, completionFd, running, faulted, runs>>

Drained(w) ==
    /\ worker[w] = "drain"
    /\ jobs[w] = <<>>
    /\ Goto(w, IF batch[w] THEN "notify" ELSE "spin")
    /\ UNCHANGED <<rt, stageVars, job, batch, sharedVars>>

NotifyCompletion(w) ==
    /\ worker[w] = "notify"
    /\ completionFd' = TRUE
    /\ Goto(w, "top")
    /\ UNCHANGED <<rt, stageVars, job, batch, jobs, wakeFd, completion, running, faulted,
                   runs>>

Spin(w) ==
    /\ worker[w] = "spin"
    /\ Goto(w, IF jobs[w] # <<>> THEN "top" ELSE "sleep")
    /\ UNCHANGED <<rt, stageVars, job, batch, sharedVars>>

WakeUp(w) ==
    /\ worker[w] = "sleep"
    /\ wakeFd[w]
    /\ wakeFd' = [wakeFd EXCEPT ![w] = FALSE]
    /\ Goto(w, "top")
    /\ UNCHANGED <<rt, stageVars, job, batch, jobs, completion, completionFd, running,
                   faulted, runs>>

-----------------------------------------------------------------------------
FinishStage ==
    \/ \E n \in Nodes, w \in Workers : PushJob(n, w) \/ RefuseJob(n, w)
    \/ \E w \in Workers : NotifyWorker(w)
    \/ AllOffered \/ AllNotified
    \/ StageDone \/ SpinInVain \/ Block \/ Unblock

FinishDrop == WakeAll \/ Join

Worker(w) ==
    \/ Top(w) \/ PopJob(w) \/ RunJob(w) \/ CountJob(w) \/ Drained(w)
    \/ NotifyCompletion(w) \/ Spin(w) \/ WakeUp(w)

Next ==
    \/ \E S \in (SUBSET Nodes) \ {{}} : RunInline(S) \/ Dispatch(S)
    \/ \E n \in Nodes : ClearFault(n)
    \/ Stop
    \/ FinishStage \/ FinishDrop
    \/ \E w \in Workers : Worker(w)

Spec == Init /\ [][Next]_vars

\* Every thread that can run is scheduled in the end; nothing obliges the
\* audio thread to begin a stage or to drop the pool.
FairSpec ==
    /\ Spec
    /\ WF_vars(FinishStage) /\ WF_vars(FinishDrop)
    /\ \A w \in Workers : WF_vars(Worker(w))
-----------------------------------------------------------------------------
\* Rings and counters keep to their sizes.
TypeOK ==
    /\ rt \in {"idle", "push", "notify", "spin", "check", "wait", "stopping", "joining",
               "gone"}
    /\ stageNo \in 0 .. MaxStages
    /\ stage \subseteq Nodes /\ toPush \subseteq stage /\ dropped \subseteq stage
    /\ wake \subseteq Workers
    /\ jobs \in [Workers -> Seq(Job)]
    /\ \A w \in Workers : Len(jobs[w]) <= RingCap
    /\ wakeFd \in [Workers -> BOOLEAN] /\ completionFd \in BOOLEAN
    /\ worker \in [Workers -> {"top", "drain", "run", "count", "notify", "spin", "sleep",
                               "exited"}]
    /\ job \in [Workers -> Job \cup {NoJob}]
    /\ batch \in [Workers -> BOOLEAN]
    /\ start \in Nat /\ completion \in Nat
    /\ running \in BOOLEAN /\ faulted \subseteq Nodes
    /\ runs \in [Nodes -> Nat]

\* The jobs some worker has or will get.
Outstanding ==
    (UNION {{jobs[w][i] : i \in DOMAIN jobs[w]} : w \in Workers})
      \cup ({job[w] : w \in Workers} \ {NoJob})

\* A job's pointers are valid while it exists: outside execute_stage, where
\* the audio thread edits nodes and buffers, there is none, and inside it
\* there is none of an earlier stage ("synchronized via topological stage
\* fencing", run_job).
NoJobOutlivesItsStage ==
    /\ rt \in {"idle", "stopping", "joining", "gone"} => Outstanding = {}
    /\ \A j \in Outstanding : j.stage = stageNo

\* When a dispatched stage is over, each of its nodes was run exactly once,
\* except the ones a full ring refused, which were not run at all: however
\* batches of completions and their notifications fell.
EachAcceptedRunsOnce ==
    [][rt' = "idle" /\ rt # "idle" =>
         \A n \in stage : runs[n] = IF n \in dropped THEN 0 ELSE 1]_vars

\* process() is never called on a processor that panicked, although a job
\* carries a copy of the flag that another worker sets.
FaultedStaysOut ==
    \A w \in Workers :
        worker[w] = "run" /\ job[w].node \in faulted => job[w].bypassed

\* The audio thread never hangs in a stage, not even when rings refuse jobs,
\* workers notify in batches or an old notification is still pending.
StagesEnd == rt = "push" ~> rt = "idle"

\* Dropping the pool joins every worker, wherever in its loop it was.
PoolStops == rt = "stopping" ~> rt = "gone"
=============================================================================
