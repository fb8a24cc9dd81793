---------------------------- MODULE TaskPool_proofs ----------------------------
(***************************************************************************)
(* The wait of the audio thread fences the stages of a plan, for any       *)
(* number of workers, nodes and stages and any size of the job rings.      *)
(*                                                                         *)
(* The argument follows each node of the stage: it waits to be offered,    *)
(* was refused, is a job in one ring, is a job in the hands of one worker, *)
(* or is done - one of these only, and in one place only.  The counter has *)
(* grown by the number of nodes that are done.  When it has grown by all   *)
(* that were accepted, nothing is left in a ring or in a hand.             *)
(***************************************************************************)
EXTENDS TaskPool, FiniteSetTheorems, TLAPS

-----------------------------------------------------------------------------
(***************************************************************************)
(* The inductive invariant.                                                *)
(***************************************************************************)
InStage == rt \in {"push", "notify", "spin", "check", "wait"}

InRing(n) == \E w \in Workers : \E i \in 1 .. Len(jobs[w]) : jobs[w][i].node = n
InHand(n) == \E w \in Workers : job[w] # NoJob /\ job[w].node = n

\* The nodes whose jobs were run and counted.
Done == {n \in stage : n \notin toPush /\ n \notin dropped /\ ~InRing(n) /\ ~InHand(n)}

Places ==
    /\ rt # "push" => toPush = {}
    /\ toPush \cap dropped = {}
    /\ InStage => stageNo >= 1
    /\ \A w \in Workers : worker[w] \in {"run", "count"} <=> job[w] # NoJob

\* Outside a stage there is no job.
Quiet == ~InStage => \A w \in Workers : jobs[w] = <<>> /\ job[w] = NoJob

\* A job is of an accepted node of this stage, and tells if the node is faulted.
Valid(j) ==
    /\ j.node \in stage /\ j.node \notin toPush /\ j.node \notin dropped
    /\ j.stage = stageNo

JobsValid ==
    /\ \A w \in Workers : \A i \in 1 .. Len(jobs[w]) :
         Valid(jobs[w][i]) /\ (jobs[w][i].node \in faulted => jobs[w][i].bypassed)
    /\ \A w \in Workers : job[w] # NoJob =>
         /\ Valid(job[w])
         /\ worker[w] = "run" /\ job[w].node \in faulted => job[w].bypassed

\* A node has one job, in one place.
InOnePlace ==
    /\ \A w, v \in Workers : \A i \in 1 .. Len(jobs[w]), k \in 1 .. Len(jobs[v]) :
         jobs[w][i].node = jobs[v][k].node => w = v /\ i = k
    /\ \A w, v \in Workers : job[w] # NoJob /\ job[v] # NoJob /\ job[w].node = job[v].node
         => w = v
    /\ \A w, v \in Workers : \A i \in 1 .. Len(jobs[w]) :
         job[v] # NoJob => job[v].node # jobs[w][i].node

Counted == InStage => completion = start + Cardinality(Done)

\* The job of n was run and is not counted yet.
Ran(n) == \E w \in Workers : worker[w] = "count" /\ job[w].node = n

RunsTell ==
    InStage => \A n \in stage : runs[n] = IF n \in Done \/ Ran(n) THEN 1 ELSE 0

IInv ==
    /\ TypeOK /\ Places /\ Quiet /\ JobsValid /\ InOnePlace /\ Counted /\ RunsTell

-----------------------------------------------------------------------------
LEMMA InitInv == Init => IInv
<1> SUFFICES ASSUME Init PROVE IInv
  OBVIOUS
<1>1. \A w \in Workers :
        jobs[w] = <<>> /\ Len(jobs[w]) = 0 /\ job[w] = NoJob /\ worker[w] = "top"
  BY DEF Init
<1>2. TypeOK
  <2>1. <<>> \in Seq(Job) /\ 0 <= RingCap
    BY PoolAssumption
  <2>2. jobs \in [Workers -> Seq(Job)] /\ \A w \in Workers : Len(jobs[w]) <= RingCap
    BY <1>1, <2>1 DEF Init
  <2>3. stageNo \in 0 .. MaxStages
    BY PoolAssumption DEF Init
  <2> QED
    BY <2>2, <2>3 DEF Init, TypeOK
<1>3. Places /\ Quiet /\ Counted /\ RunsTell
  BY <1>1 DEF Init, Places, Quiet, Counted, RunsTell, InStage
<1>4. JobsValid
  BY <1>1 DEF JobsValid
<1>5. InOnePlace
  BY <1>1 DEF InOnePlace
<1> QED
  BY <1>2, <1>3, <1>4, <1>5 DEF IInv

\* Every step keeps to the types and ranges.
LEMMA TypeStep ==
    ASSUME IInv, [Next]_vars
    PROVE  TypeOK'
<1> USE DEF stageVars, workerVars, sharedVars
<1>0. TypeOK /\ Places /\ MaxStages \in Nat
  BY PoolAssumption DEF IInv
<1>1. ASSUME NEW S \in SUBSET Nodes, RunInline(S) \/ Dispatch(S) PROVE TypeOK'
  BY <1>0, <1>1 DEF TypeOK, Places, RunInline, Dispatch, BeginStage
<1>2. ASSUME NEW n \in Nodes, ClearFault(n) PROVE TypeOK'
  BY <1>0, <1>2 DEF TypeOK, ClearFault
<1>3. CASE Stop \/ WakeAll \/ Join \/ AllOffered \/ AllNotified \/ StageDone \/ SpinInVain
           \/ Block \/ Unblock
  BY <1>0, <1>3 DEF TypeOK, Stop, WakeAll, Join, AllOffered, AllNotified, StageDone,
     SpinInVain, Block, Unblock
<1>4. ASSUME NEW n \in Nodes, NEW w \in Workers, PushJob(n, w) PROVE TypeOK'
  <2>0. PICK switch \in BOOLEAN : jobs' = [jobs EXCEPT ![w] = Append(@, JobFor(n, switch))]
    BY <1>4 DEF PushJob
  <2>1. JobFor(n, switch) \in Job
    BY <1>0, <1>4 DEF PushJob, JobFor, Job, IsBypassed, TypeOK, Places, InStage
  <2>2. /\ Append(jobs[w], JobFor(n, switch)) \in Seq(Job)
        /\ Len(Append(jobs[w], JobFor(n, switch))) <= RingCap
    BY <1>0, <1>4, <2>1, PoolAssumption DEF PushJob, JobRingFull, TypeOK
  <2>3. /\ jobs' \in [Workers -> Seq(Job)]
        /\ \A v \in Workers : Len(jobs'[v]) <= RingCap
    BY <1>0, <2>0, <2>2 DEF TypeOK
  <2> QED
    BY <1>0, <1>4, <2>3 DEF TypeOK, PushJob
<1>5. ASSUME NEW n \in Nodes, NEW w \in Workers, RefuseJob(n, w) PROVE TypeOK'
  BY <1>0, <1>5 DEF TypeOK, RefuseJob, Offered
<1>6. ASSUME NEW w \in Workers, NotifyWorker(w) PROVE TypeOK'
  BY <1>0, <1>6 DEF TypeOK, NotifyWorker
<1>7. ASSUME NEW w \in Workers, PopJob(w) PROVE TypeOK'
  <2>1. /\ Head(jobs[w]) \in Job /\ Tail(jobs[w]) \in Seq(Job)
        /\ Len(Tail(jobs[w])) <= RingCap
    BY <1>0, <1>7, PoolAssumption DEF PopJob, TypeOK
  <2>2. /\ jobs' \in [Workers -> Seq(Job)]
        /\ \A v \in Workers : Len(jobs'[v]) <= RingCap
    BY <1>0, <1>7, <2>1 DEF PopJob, TypeOK
  <2> QED
    BY <1>0, <1>7, <2>1, <2>2 DEF TypeOK, PopJob, Goto
<1>8. ASSUME NEW w \in Workers, RunJob(w) PROVE TypeOK'
  <2>1. job[w].node \in Nodes
    BY <1>0, <1>8 DEF RunJob, TypeOK, Places, Job
  <2> QED
    BY <1>0, <1>8, <2>1 DEF TypeOK, RunJob, Goto
<1>9. ASSUME NEW w \in Workers,
             \/ Top(w) \/ CountJob(w) \/ Drained(w) \/ NotifyCompletion(w) \/ Spin(w)
             \/ WakeUp(w)
      PROVE  TypeOK'
  <2>1. CASE CountJob(w)
    BY <1>0, <2>1 DEF TypeOK, CountJob, Goto
  <2>2. CASE Top(w) \/ Drained(w)
    BY <1>0, <2>2 DEF TypeOK, Top, Drained, Goto
  <2>3. CASE NotifyCompletion(w) \/ Spin(w) \/ WakeUp(w)
    BY <1>0, <2>3 DEF TypeOK, NotifyCompletion, Spin, WakeUp, Goto
  <2> QED
    BY <1>9, <2>1, <2>2, <2>3
<1>10. CASE UNCHANGED vars
  BY <1>0, <1>10 DEF TypeOK, vars
<1> QED
  BY <1>1, <1>2, <1>3, <1>4, <1>5, <1>6, <1>7, <1>8, <1>9, <1>10
     DEF Next, FinishStage, FinishDrop, Worker

-----------------------------------------------------------------------------
(***************************************************************************)
(* The steps.                                                              *)
(***************************************************************************)
LEMMA DoneFacts ==
    ASSUME IInv
    PROVE  /\ Done \subseteq stage /\ IsFiniteSet(stage) /\ IsFiniteSet(Done)
           /\ Cardinality(Done) \in Nat
<1>1. stage \subseteq 1 .. NumNodes /\ NumNodes \in Nat
  BY PoolAssumption DEF IInv, TypeOK, Nodes
<1>2. IsFiniteSet(stage)
  <2>1. IsFiniteSet(1 .. NumNodes)
    BY <1>1, FS_Interval
  <2> QED
    BY <1>1, <2>1, FS_Subset
<1>3. Done \subseteq stage
  BY DEF Done
<1> QED
  BY <1>2, <1>3, FS_Subset, FS_CardinalityType

\* Steps that move no job: waking, waiting, looking and deciding.
LEMMA ControlStep ==
    ASSUME IInv, TypeOK',
           UNCHANGED <<stageNo, stage, toPush, start, dropped, jobs, job, completion, runs>>,
           faulted' \subseteq faulted,
           InStage' = InStage,
           rt' # "push" => toPush = {},
           \A w \in Workers : \/ worker'[w] = worker[w]
                              \/ /\ worker[w] \notin {"run", "count"}
                                 /\ worker'[w] \notin {"run", "count"}
    PROVE  IInv'
<1>1. Places'
  BY DEF IInv, Places
<1>2. Quiet'
  BY DEF IInv, Quiet
<1>3. JobsValid'
  <2>1. ASSUME NEW w \in Workers, job[w] # NoJob, worker'[w] = "run" PROVE worker[w] = "run"
    BY <2>1
  <2> QED
    BY <2>1 DEF IInv, JobsValid, Valid
<1>4. InOnePlace'
  BY DEF IInv, InOnePlace
<1>5. Done' = Done
  BY DEF Done, InRing, InHand
<1>6. Counted'
  BY <1>5 DEF IInv, Counted
<1>7. \A n : Ran(n)' = Ran(n)
  <2>1. \A w \in Workers : worker'[w] = "count" <=> worker[w] = "count"
    OBVIOUS
  <2> QED
    BY <2>1 DEF Ran
<1>8. RunsTell'
  BY <1>5, <1>7 DEF IInv, RunsTell
<1> QED
  BY <1>1, <1>2, <1>3, <1>4, <1>6, <1>8 DEF IInv

LEMMA ControlSteps ==
    ASSUME IInv, TypeOK',
           \/ \E n \in Nodes : ClearFault(n)
           \/ Stop \/ WakeAll \/ Join
           \/ AllOffered \/ AllNotified \/ SpinInVain \/ Block \/ Unblock
           \/ \E w \in Workers :
                \/ NotifyWorker(w)
                \/ Top(w) \/ Drained(w) \/ NotifyCompletion(w) \/ Spin(w) \/ WakeUp(w)
    PROVE  IInv'
<1> USE DEF stageVars, workerVars, sharedVars
<1>0. Places /\ worker \in [Workers -> {"top", "drain", "run", "count", "notify", "spin",
                                         "sleep", "exited"}]
  BY DEF IInv, TypeOK
<1>1. CASE \/ \E n \in Nodes : ClearFault(n)
           \/ Stop \/ WakeAll \/ Join
  BY <1>0, <1>1, ControlStep DEF ClearFault, Stop, WakeAll, Join, InStage, Places
<1>2. CASE AllOffered \/ AllNotified \/ SpinInVain \/ Block \/ Unblock
  BY <1>0, <1>2, ControlStep
     DEF AllOffered, AllNotified, SpinInVain, Block, Unblock, InStage, Places
<1>3. ASSUME NEW w \in Workers, NotifyWorker(w) PROVE IInv'
  BY <1>0, <1>3, ControlStep DEF NotifyWorker, InStage, Places
<1>4. ASSUME NEW w \in Workers,
             Top(w) \/ Drained(w) \/ NotifyCompletion(w) \/ Spin(w) \/ WakeUp(w)
      PROVE  IInv'
  <2>1. /\ UNCHANGED <<stageNo, stage, toPush, start, dropped, jobs, job, completion, runs>>
        /\ faulted' = faulted /\ rt' = rt
    BY <1>4 DEF Top, Drained, NotifyCompletion, Spin, WakeUp
  <2>2. \A v \in Workers : \/ worker'[v] = worker[v]
                           \/ /\ worker[v] \notin {"run", "count"}
                              /\ worker'[v] \notin {"run", "count"}
    BY <1>0, <1>4 DEF Top, Drained, NotifyCompletion, Spin, WakeUp, Goto
  <2> QED
    BY <1>0, <2>1, <2>2, ControlStep DEF InStage, Places
<1> QED
  BY <1>1, <1>2, <1>3, <1>4

\* When the counter has grown by all that were accepted, all of them are done, and
\* no job is left.
LEMMA AllDone ==
    ASSUME IInv, StageDone
    PROVE  /\ \A n \in stage : n \in Done <=> n \notin dropped
           /\ \A w \in Workers : jobs[w] = <<>> /\ job[w] = NoJob
<1>1. /\ InStage /\ toPush = {} /\ completion = start + Cardinality(Done)
      /\ completion >= start + Cardinality(stage) - Cardinality(dropped)
      /\ dropped \subseteq stage /\ start \in Nat
      /\ jobs \in [Workers -> Seq(Job)]
  BY DEF IInv, TypeOK, StageDone, Target, InStage, Places, Counted
<1>2. /\ IsFiniteSet(stage) /\ IsFiniteSet(Done) /\ Cardinality(Done) \in Nat
      /\ Done \subseteq stage \ dropped
  BY DoneFacts DEF Done
<1>3. /\ IsFiniteSet(dropped) /\ IsFiniteSet(stage \ dropped)
      /\ Cardinality(stage) \in Nat /\ Cardinality(dropped) \in Nat
      /\ Cardinality(stage \ dropped) = Cardinality(stage) - Cardinality(dropped)
  <2>1. IsFiniteSet(dropped) /\ IsFiniteSet(stage \ dropped)
    BY <1>1, <1>2, FS_Subset
  <2>2. stage \cap dropped = dropped
    BY <1>1
  <2>3. Cardinality(stage \ dropped) = Cardinality(stage) - Cardinality(stage \cap dropped)
    BY <1>2, FS_Difference
  <2> QED
    BY <1>2, <2>1, <2>2, <2>3, FS_CardinalityType
<1>4. Done = stage \ dropped
  <2>1. Cardinality(Done) >= Cardinality(stage \ dropped)
    BY <1>1, <1>2, <1>3
  <2>2. Cardinality(Done) <= Cardinality(stage \ dropped)
    BY <1>2, <1>3, FS_Subset
  <2>3. Cardinality(Done) = Cardinality(stage \ dropped)
    BY <2>1, <2>2, <1>2, <1>3
  <2> QED
    BY <1>2, <1>3, <2>3, FS_Subset
<1>5. ASSUME NEW w \in Workers PROVE jobs[w] = <<>> /\ job[w] = NoJob
  <2>1. jobs[w] \in Seq(Job)
    BY <1>1
  <2>2. CASE jobs[w] # <<>>
    <3>1. 1 \in 1 .. Len(jobs[w])
      BY <2>1, <2>2
    <3>2. jobs[w][1].node \in stage /\ jobs[w][1].node \notin dropped
      BY <3>1 DEF IInv, JobsValid, Valid
    <3>3. jobs[w][1].node \notin Done
      BY <3>1 DEF Done, InRing
    <3> QED
      BY <1>4, <3>2, <3>3
  <2>3. CASE job[w] # NoJob
    <3>1. job[w].node \in stage /\ job[w].node \notin dropped
      BY <2>3 DEF IInv, JobsValid, Valid
    <3>2. job[w].node \notin Done
      BY <2>3 DEF Done, InHand
    <3> QED
      BY <1>4, <3>1, <3>2
  <2> QED
    BY <2>2, <2>3
<1> QED
  BY <1>4, <1>5

\* Between two stages the bookkeeping of the last one is all that stays.
LEMMA EmptyPool ==
    ASSUME \A w \in Workers : jobs'[w] = <<>> /\ job'[w] = NoJob
    PROVE  Quiet' /\ JobsValid' /\ InOnePlace'
<1>1. \A w \in Workers : jobs'[w] = <<>> /\ Len(jobs'[w]) = 0 /\ job'[w] = NoJob
  OBVIOUS
<1> QED
  BY <1>1 DEF Quiet, JobsValid, InOnePlace

LEMMA BeginSteps ==
    ASSUME IInv, TypeOK', NEW S \in SUBSET Nodes, RunInline(S) \/ Dispatch(S)
    PROVE  IInv'
<1> USE DEF stageVars, workerVars, sharedVars
<1>1. /\ rt = "idle" /\ toPush = {} /\ UNCHANGED <<jobs, job, worker>>
      /\ stage' = S /\ dropped' = {} /\ runs' = [n \in Nodes |-> 0]
      /\ stageNo' = stageNo + 1 /\ stageNo \in Nat
      /\ \A w \in Workers : jobs[w] = <<>> /\ job[w] = NoJob /\ worker[w] # "count"
  BY DEF IInv, TypeOK, Places, Quiet, InStage, RunInline, Dispatch, BeginStage
<1>2. Quiet' /\ JobsValid' /\ InOnePlace'
  BY <1>1, EmptyPool
<1>3. CASE RunInline(S)
  <2>1. rt' = "idle" /\ toPush' = {}
    BY <1>1, <1>3 DEF RunInline
  <2>2. Places'
    BY <1>1, <2>1 DEF IInv, Places, InStage
  <2> QED
    BY <1>2, <2>1, <2>2 DEF IInv, Counted, RunsTell, InStage
<1>4. CASE Dispatch(S)
  <2>1. rt' = "push" /\ toPush' = S /\ start' = completion /\ completion' = completion
    BY <1>4 DEF Dispatch
  <2>2. Places'
    BY <1>1, <2>1 DEF IInv, Places, InStage
  <2>3. Done' = {}
    BY <1>1, <2>1 DEF Done
  <2>4. Counted'
    <3>1. completion \in Nat /\ Cardinality({}) = 0
      BY FS_EmptySet DEF IInv, TypeOK
    <3> QED
      BY <2>1, <2>3, <3>1 DEF Counted
  <2>5. \A n : ~Ran(n)'
    BY <1>1 DEF Ran
  <2>6. RunsTell'
    BY <1>1, <2>3, <2>5 DEF RunsTell
  <2> QED
    BY <1>2, <2>2, <2>4, <2>6 DEF IInv
<1> QED
  BY <1>3, <1>4

LEMMA StageDoneStep ==
    ASSUME IInv, TypeOK', StageDone
    PROVE  IInv'
<1> USE DEF stageVars, workerVars, sharedVars
<1>1. /\ rt # "push" /\ rt' = "idle" /\ toPush = {}
      /\ UNCHANGED <<stageVars, workerVars, sharedVars>>
  BY DEF IInv, Places, StageDone
<1>2. Quiet' /\ JobsValid' /\ InOnePlace'
  BY <1>1, AllDone, EmptyPool
<1>3. Places'
  BY <1>1 DEF IInv, Places, InStage
<1> QED
  BY <1>1, <1>2, <1>3 DEF IInv, Counted, RunsTell, InStage

\* A step that only moves a node on, from one place to the next, counts nothing.
LEMMA PlacesMove ==
    ASSUME IInv, Done' = Done, InStage' = InStage,
           UNCHANGED <<stage, start, completion, runs>>,
           \A n \in stage : Ran(n)' <=> Ran(n)
    PROVE  Counted' /\ RunsTell'
BY DEF IInv, Counted, RunsTell

LEMMA PushStep ==
    ASSUME IInv, TypeOK', NEW n \in Nodes, NEW w \in Workers, PushJob(n, w)
    PROVE  IInv'
<1> USE DEF stageVars, workerVars, sharedVars
<1>a. PICK switch \in BOOLEAN : jobs' = [jobs EXCEPT ![w] = Append(@, JobFor(n, switch))]
  BY DEF PushJob
<1> DEFINE j == JobFor(n, switch)
<1>0. /\ rt = "push" /\ rt' = rt /\ n \in toPush /\ toPush' = toPush \ {n}
      /\ UNCHANGED <<stageNo, stage, start, dropped, worker, job, completion, faulted, runs>>
      /\ jobs' = [jobs EXCEPT ![w] = Append(@, j)]
      /\ jobs \in [Workers -> Seq(Job)] /\ toPush \subseteq stage /\ n \notin dropped
  BY <1>a DEF PushJob, Offered, IInv, TypeOK, Places
<1>1. j.node = n /\ j.stage = stageNo /\ (n \in faulted => j.bypassed)
  BY DEF JobFor, IsBypassed
<1>2. /\ Len(jobs'[w]) = Len(jobs[w]) + 1 /\ jobs'[w][Len(jobs[w]) + 1] = j
      /\ Len(jobs[w]) \in Nat
      /\ \A i \in 1 .. Len(jobs[w]) : jobs'[w][i] = jobs[w][i]
      /\ \A v \in Workers : v # w => jobs'[v] = jobs[v]
  <2> HIDE DEF j
  <2>1. jobs'[w] = Append(jobs[w], j) /\ jobs[w] \in Seq(Job)
    BY <1>0
  <2> QED
    BY <1>0, <2>1
<1> HIDE DEF j
<1>3. \A v \in Workers : \A i \in 1 .. Len(jobs'[v]) :
        \/ i \in 1 .. Len(jobs[v]) /\ jobs'[v][i] = jobs[v][i]
        \/ v = w /\ i = Len(jobs[w]) + 1 /\ jobs'[v][i] = j
  BY <1>2
<1>4. \A v \in Workers : \A i \in 1 .. Len(jobs[v]) : Valid(jobs[v][i])
  BY DEF IInv, JobsValid
<1>5. Places' /\ Quiet'
  BY <1>0 DEF IInv, Places, Quiet, InStage
<1>6. JobsValid'
  <2>1. ASSUME NEW v \in Workers, NEW i \in 1 .. Len(jobs'[v])
        PROVE  /\ Valid(jobs[v][i])'
               /\ jobs'[v][i].node \in faulted => jobs'[v][i].bypassed
    <3>1. CASE i \in 1 .. Len(jobs[v]) /\ jobs'[v][i] = jobs[v][i]
      BY <1>0, <3>1 DEF IInv, JobsValid, Valid
    <3>2. CASE jobs'[v][i] = j
      BY <1>0, <1>1, <3>2 DEF Valid
    <3> QED
      BY <1>3, <3>1, <3>2
  <2>2. ASSUME NEW v \in Workers, job[v] # NoJob PROVE Valid(job[v])'
    BY <1>0, <2>2 DEF IInv, JobsValid, Valid
  <2> QED
    BY <1>0, <2>1, <2>2 DEF IInv, JobsValid
<1>7. InOnePlace'
  <2>1. ASSUME NEW v \in Workers, NEW u \in Workers,
               NEW i \in 1 .. Len(jobs'[v]), NEW k \in 1 .. Len(jobs'[u]),
               jobs'[v][i].node = jobs'[u][k].node
        PROVE  v = u /\ i = k
    BY <1>0, <1>1, <1>3, <1>4, <2>1 DEF IInv, InOnePlace, Valid
  <2>2. ASSUME NEW v \in Workers, NEW u \in Workers, NEW i \in 1 .. Len(jobs'[v]),
               job[u] # NoJob
        PROVE  job[u].node # jobs'[v][i].node
    BY <1>0, <1>1, <1>3, <2>2 DEF IInv, InOnePlace, JobsValid, Valid
  <2> QED
    BY <1>0, <2>1, <2>2 DEF IInv, InOnePlace
<1>8. \A m : InRing(m)' <=> InRing(m) \/ m = n
  <2>1. ASSUME NEW m, InRing(m)' PROVE InRing(m) \/ m = n
    BY <1>1, <1>3, <2>1 DEF InRing
  <2>2. ASSUME NEW m, InRing(m) PROVE InRing(m)'
    <3>0. PICK v \in Workers : \E i \in 1 .. Len(jobs[v]) : jobs[v][i].node = m
      BY <2>2 DEF InRing
    <3>1. PICK i \in 1 .. Len(jobs[v]) : jobs[v][i].node = m
      BY <3>0
    <3>2. i \in 1 .. Len(jobs'[v]) /\ jobs'[v][i] = jobs[v][i]
      BY <1>2
    <3> QED
      BY <3>1, <3>2 DEF InRing
  <2>3. InRing(n)'
    <3>1. Len(jobs[w]) + 1 \in 1 .. Len(jobs'[w])
      BY <1>2
    <3> QED
      BY <1>1, <1>2, <3>1 DEF InRing
  <2> QED
    BY <2>1, <2>2, <2>3
<1>9. Done' = Done
  BY <1>0, <1>8 DEF Done, InHand
<1>10. Counted' /\ RunsTell'
  BY <1>0, <1>9, PlacesMove DEF InStage, Ran
<1> QED
  BY <1>5, <1>6, <1>7, <1>10 DEF IInv

LEMMA RefuseStep ==
    ASSUME IInv, TypeOK', NEW n \in Nodes, NEW w \in Workers, RefuseJob(n, w)
    PROVE  IInv'
<1> USE DEF stageVars, workerVars, sharedVars
<1>0. /\ rt = "push" /\ rt' = rt /\ n \in toPush
      /\ toPush' = toPush \ {n} /\ dropped' = dropped \cup {n}
      /\ UNCHANGED <<stageNo, stage, start, worker, job, jobs, completion, faulted, runs>>
  BY DEF RefuseJob, Offered
<1>1. Places' /\ Quiet'
  BY <1>0 DEF IInv, Places, Quiet, InStage
<1>2. JobsValid'
  BY <1>0 DEF IInv, JobsValid, Valid
<1>3. InOnePlace'
  BY <1>0 DEF IInv, InOnePlace
<1>4. Done' = Done
  BY <1>0 DEF Done, InRing, InHand
<1>5. Counted' /\ RunsTell'
  BY <1>0, <1>4, PlacesMove DEF InStage, Ran
<1> QED
  BY <1>1, <1>2, <1>3, <1>5 DEF IInv

LEMMA PopStep ==
    ASSUME IInv, TypeOK', NEW w \in Workers, PopJob(w)
    PROVE  IInv'
<1> USE DEF stageVars, workerVars, sharedVars
<1>0. /\ UNCHANGED <<rt, stageNo, stage, toPush, start, dropped, completion, faulted, runs>>
      /\ jobs' = [jobs EXCEPT ![w] = Tail(@)]
      /\ job' = [job EXCEPT ![w] = jobs[w][1]]
      /\ worker' = [worker EXCEPT ![w] = "run"]
      /\ jobs \in [Workers -> Seq(Job)] /\ job \in [Workers -> Job \cup {NoJob}]
      /\ worker \in [Workers -> {"top", "drain", "run", "count", "notify", "spin", "sleep",
                                 "exited"}]
      /\ worker[w] = "drain" /\ job[w] = NoJob /\ jobs[w] # <<>> /\ jobs[w] \in Seq(Job)
  BY DEF PopJob, Goto, IInv, TypeOK, Places
<1>1. /\ 1 \in 1 .. Len(jobs[w]) /\ jobs[w][1] \in Job /\ jobs[w][1] # NoJob
      /\ Len(jobs[w]) \in Nat /\ Len(jobs'[w]) = Len(jobs[w]) - 1
      /\ \A i \in 1 .. Len(jobs'[w]) :
           i + 1 \in 1 .. Len(jobs[w]) /\ jobs'[w][i] = jobs[w][i + 1]
  BY <1>0, NoJobAssumption
<1>2. /\ job'[w] = jobs[w][1] /\ worker'[w] = "run"
      /\ \A v \in Workers :
           v # w => jobs'[v] = jobs[v] /\ job'[v] = job[v] /\ worker'[v] = worker[v]
  BY <1>0
<1>3. \A v \in Workers : \A i \in 1 .. Len(jobs'[v]) :
        \E k \in 1 .. Len(jobs[v]) : jobs'[v][i] = jobs[v][k] /\ k = IF v = w THEN i + 1 ELSE i
  BY <1>1, <1>2
<1>4. InStage
  BY <1>0 DEF IInv, Quiet
<1>5. Places' /\ Quiet'
  BY <1>0, <1>1, <1>2, <1>4 DEF IInv, Places, Quiet, InStage
<1>6. JobsValid'
  <2>1. ASSUME NEW v \in Workers, NEW i \in 1 .. Len(jobs'[v])
        PROVE  /\ Valid(jobs[v][i])'
               /\ jobs'[v][i].node \in faulted => jobs'[v][i].bypassed
    BY <1>0, <1>3 DEF IInv, JobsValid, Valid
  <2>2. ASSUME NEW v \in Workers, job'[v] # NoJob
        PROVE  /\ Valid(job[v])'
               /\ worker'[v] = "run" /\ job'[v].node \in faulted => job'[v].bypassed
    <3>1. CASE v = w
      BY <1>0, <1>1, <1>2, <3>1 DEF IInv, JobsValid, Valid
    <3>2. CASE v # w
      BY <1>0, <1>2, <2>2, <3>2 DEF IInv, JobsValid, Valid
    <3> QED
      BY <3>1, <3>2
  <2> QED
    BY <1>0, <2>1, <2>2 DEF JobsValid
<1>7. InOnePlace'
  <2>1. ASSUME NEW v \in Workers, NEW u \in Workers,
               NEW i \in 1 .. Len(jobs'[v]), NEW k \in 1 .. Len(jobs'[u]),
               jobs'[v][i].node = jobs'[u][k].node
        PROVE  v = u /\ i = k
    <3>1. PICK a \in 1 .. Len(jobs[v]) :
            jobs'[v][i] = jobs[v][a] /\ a = IF v = w THEN i + 1 ELSE i
      BY <1>3
    <3>2. PICK b \in 1 .. Len(jobs[u]) :
            jobs'[u][k] = jobs[u][b] /\ b = IF u = w THEN k + 1 ELSE k
      BY <1>3
    <3>3. v = u /\ a = b
      BY <2>1, <3>1, <3>2 DEF IInv, InOnePlace
    <3> QED
      BY <3>1, <3>2, <3>3
  <2>2. ASSUME NEW v \in Workers, NEW u \in Workers, job'[v] # NoJob, job'[u] # NoJob,
               job'[v].node = job'[u].node
        PROVE  v = u
    BY <1>1, <1>2, <2>2 DEF IInv, InOnePlace
  <2>3. ASSUME NEW v \in Workers, NEW u \in Workers, NEW i \in 1 .. Len(jobs'[v]),
               job'[u] # NoJob
        PROVE  job'[u].node # jobs'[v][i].node
    <3>1. PICK a \in 1 .. Len(jobs[v]) :
            jobs'[v][i] = jobs[v][a] /\ a = IF v = w THEN i + 1 ELSE i
      BY <1>3
    <3>2. CASE u = w
      BY <1>1, <1>2, <3>1, <3>2 DEF IInv, InOnePlace
    <3>3. CASE u # w
      BY <1>2, <2>3, <3>1, <3>3 DEF IInv, InOnePlace
    <3> QED
      BY <3>2, <3>3
  <2> QED
    BY <2>1, <2>2, <2>3 DEF InOnePlace
<1>8. \A m : (InRing(m) \/ InHand(m))' <=> InRing(m) \/ InHand(m)
  <2>1. ASSUME NEW m, InRing(m)' PROVE InRing(m)
    <3>1. PICK v \in Workers : \E i \in 1 .. Len(jobs'[v]) : jobs'[v][i].node = m
      BY <2>1 DEF InRing
    <3>2. PICK i \in 1 .. Len(jobs'[v]) : jobs'[v][i].node = m
      BY <3>1
    <3>3. PICK k \in 1 .. Len(jobs[v]) : jobs'[v][i] = jobs[v][k]
      BY <1>3
    <3> QED
      BY <3>2, <3>3 DEF InRing
  <2>2. ASSUME NEW m, InHand(m)' PROVE InRing(m) \/ InHand(m)
    BY <1>1, <1>2, <2>2 DEF InRing, InHand
  <2>3. ASSUME NEW m, InHand(m) PROVE InHand(m)'
    BY <1>0, <1>2, <2>3 DEF InHand
  <2>4. ASSUME NEW m, InRing(m) PROVE InRing(m)' \/ InHand(m)'
    <3>0. PICK v \in Workers : \E i \in 1 .. Len(jobs[v]) : jobs[v][i].node = m
      BY <2>4 DEF InRing
    <3>1. PICK i \in 1 .. Len(jobs[v]) : jobs[v][i].node = m
      BY <3>0
    <3>2. CASE v # w
      BY <1>2, <3>1, <3>2 DEF InRing
    <3>3. CASE v = w /\ i = 1
      BY <1>1, <1>2, <3>1, <3>3 DEF InHand
    <3>4. CASE v = w /\ i # 1
      <4>1. i - 1 \in 1 .. Len(jobs'[w]) /\ (i - 1) + 1 = i
        BY <1>1, <3>4
      <4>2. jobs'[w][i - 1] = jobs[w][i]
        BY <1>1, <4>1
      <4> QED
        BY <3>1, <3>4, <4>1, <4>2 DEF InRing
    <3> QED
      BY <3>2, <3>3, <3>4
  <2> QED
    BY <2>1, <2>2, <2>3, <2>4
<1>9. Done' = Done
  BY <1>0, <1>8 DEF Done
<1>10. \A m : Ran(m)' <=> Ran(m)
  BY <1>0, <1>2 DEF Ran
<1>11. Counted' /\ RunsTell'
  BY <1>0, <1>9, <1>10, PlacesMove DEF InStage
<1> QED
  BY <1>5, <1>6, <1>7, <1>11 DEF IInv

LEMMA RunStep ==
    ASSUME IInv, TypeOK', NEW w \in Workers, RunJob(w)
    PROVE  IInv'
<1>n. PICK n : n = job[w].node
  OBVIOUS
<1> USE DEF stageVars, workerVars, sharedVars
<1>0. /\ UNCHANGED <<rt, stageNo, stage, toPush, start, dropped, completion, jobs, job>>
      /\ runs' = [runs EXCEPT ![n] = @ + 1] /\ runs \in [Nodes -> Nat] /\ stage \subseteq Nodes
      /\ worker[w] = "run" /\ worker' = [worker EXCEPT ![w] = "count"]
      /\ worker \in [Workers -> {"top", "drain", "run", "count", "notify", "spin", "sleep",
                                 "exited"}]
      /\ faulted' \subseteq faulted \cup {n}
      /\ job[w] # NoJob /\ n = job[w].node
  BY <1>n DEF RunJob, Goto, IInv, TypeOK, Places
<1>1. /\ worker'[w] = "count"
      /\ \A v \in Workers : v # w => worker'[v] = worker[v]
  BY <1>0
<1>2. /\ \A v \in Workers : job[v] # NoJob /\ v # w => job[v].node # n
      /\ \A v \in Workers : \A i \in 1 .. Len(jobs[v]) : jobs[v][i].node # n
  BY <1>0 DEF IInv, InOnePlace
<1>3. n \in stage /\ n \notin Done
  BY <1>0 DEF IInv, JobsValid, Valid, Done, InHand
<1>4. InStage
  BY <1>0 DEF IInv, Quiet
<1>5. Places' /\ Quiet'
  BY <1>0, <1>1, <1>4 DEF IInv, Places, Quiet, InStage
<1>6. JobsValid'
  <2>1. ASSUME NEW v \in Workers, NEW i \in 1 .. Len(jobs[v])
        PROVE  /\ Valid(jobs[v][i])'
               /\ jobs[v][i].node \in faulted' => jobs[v][i].bypassed
    BY <1>0, <1>2 DEF IInv, JobsValid, Valid
  <2>2. ASSUME NEW v \in Workers, job[v] # NoJob
        PROVE  /\ Valid(job[v])'
               /\ worker'[v] = "run" /\ job[v].node \in faulted' => job[v].bypassed
    BY <1>0, <1>1, <1>2, <2>2 DEF IInv, JobsValid, Valid
  <2> QED
    BY <1>0, <2>1, <2>2 DEF JobsValid
<1>7. InOnePlace'
  BY <1>0 DEF IInv, InOnePlace
<1>8. Done' = Done
  BY <1>0 DEF Done, InRing, InHand
<1>9. Counted'
  BY <1>0, <1>8 DEF IInv, Counted, InStage
<1>10. /\ Ran(n)' /\ ~Ran(n)
       /\ \A m : m # n => (Ran(m)' <=> Ran(m))
  <2>1. Ran(n)'
    BY <1>0, <1>1 DEF Ran
  <2>2. ~Ran(n)
    BY <1>0, <1>2 DEF Ran, IInv, Places
  <2>3. ASSUME NEW m, m # n PROVE Ran(m)' <=> Ran(m)
    BY <1>0, <1>1, <2>3 DEF Ran
  <2> QED
    BY <2>1, <2>2, <2>3
<1>11. RunsTell'
  <2>1. \A m \in stage : runs[m] = IF m \in Done \/ Ran(m) THEN 1 ELSE 0
    BY <1>4 DEF IInv, RunsTell
  <2>2. runs'[n] = 1
    BY <1>0, <1>3, <1>10, <2>1
  <2>3. \A m \in stage : m # n => runs'[m] = runs[m]
    BY <1>0
  <2>4. \A m \in stage : runs'[m] = IF m \in Done' \/ Ran(m)' THEN 1 ELSE 0
    BY <1>8, <1>10, <2>1, <2>2, <2>3
  <2> QED
    BY <1>0, <2>4 DEF RunsTell
<1> QED
  BY <1>5, <1>6, <1>7, <1>9, <1>11 DEF IInv

LEMMA CountStep ==
    ASSUME IInv, TypeOK', NEW w \in Workers, CountJob(w)
    PROVE  IInv'
<1>n. PICK n : n = job[w].node
  OBVIOUS
<1> USE DEF stageVars, workerVars, sharedVars
<1>0. /\ UNCHANGED <<rt, stageNo, stage, toPush, start, dropped, jobs, faulted, runs>>
      /\ completion' = completion + 1 /\ completion \in Nat /\ start \in Nat
      /\ job' = [job EXCEPT ![w] = NoJob] /\ job \in [Workers -> Job \cup {NoJob}]
      /\ worker[w] = "count" /\ worker' = [worker EXCEPT ![w] = "drain"]
      /\ worker \in [Workers -> {"top", "drain", "run", "count", "notify", "spin", "sleep",
                                 "exited"}]
      /\ job[w] # NoJob /\ n = job[w].node
  BY <1>n DEF CountJob, Goto, IInv, TypeOK, Places
<1>1. /\ worker'[w] = "drain" /\ job'[w] = NoJob
      /\ \A v \in Workers : v # w => worker'[v] = worker[v] /\ job'[v] = job[v]
  BY <1>0
<1>2. /\ \A v \in Workers : job[v] # NoJob /\ v # w => job[v].node # n
      /\ \A v \in Workers : \A i \in 1 .. Len(jobs[v]) : jobs[v][i].node # n
  BY <1>0 DEF IInv, InOnePlace
<1>3. n \in stage /\ n \notin toPush /\ n \notin dropped /\ InHand(n)
  BY <1>0 DEF IInv, JobsValid, Valid, InHand
<1>4. InStage
  BY <1>0 DEF IInv, Quiet
<1>5. Places' /\ Quiet'
  BY <1>0, <1>1, <1>4 DEF IInv, Places, Quiet, InStage
<1>6. JobsValid'
  <2>1. ASSUME NEW v \in Workers, job'[v] # NoJob
        PROVE  v # w /\ job'[v] = job[v] /\ worker'[v] = worker[v]
    BY <1>1, <2>1
  <2> QED
    BY <1>0, <2>1 DEF IInv, JobsValid, Valid
<1>7. InOnePlace'
  BY <1>0, <1>1 DEF IInv, InOnePlace
<1>8. \A m : InRing(m)' <=> InRing(m)
  BY <1>0 DEF InRing
<1>9. ~InHand(n)' /\ ~InRing(n)
  <2>1. ~InHand(n)'
    BY <1>1, <1>2 DEF InHand
  <2>2. ~InRing(n)
    BY <1>2 DEF InRing
  <2> QED
    BY <2>1, <2>2
<1>10. \A m : m # n => (InHand(m)' <=> InHand(m))
  BY <1>0, <1>1 DEF InHand
<1>11. \A m : m # n => (Ran(m)' <=> Ran(m))
  BY <1>0, <1>1 DEF Ran
<1>12. Ran(n) /\ ~Ran(n)'
  <2>1. Ran(n)
    BY <1>0 DEF Ran
  <2>2. ~Ran(n)'
    <3> SUFFICES ASSUME NEW v \in Workers, worker'[v] = "count", job'[v].node = n
                 PROVE  FALSE
      BY DEF Ran
    <3>1. v # w /\ worker[v] = "count" /\ job[v].node = n
      BY <1>1
    <3>2. job[v] # NoJob
      BY <3>1 DEF IInv, Places
    <3> QED
      BY <1>2, <3>1, <3>2
  <2> QED
    BY <2>1, <2>2
<1>13. Done' = Done \cup {n} /\ n \notin Done
  <2>1. n \in Done' /\ n \notin Done
    BY <1>0, <1>3, <1>8, <1>9 DEF Done
  <2>2. \A m : m # n => (m \in Done' <=> m \in Done)
    BY <1>0, <1>8, <1>10 DEF Done
  <2> QED
    BY <2>1, <2>2
<1>14. Counted'
  <2>1. IsFiniteSet(Done) /\ Cardinality(Done) \in Nat
    BY DoneFacts
  <2>2. Cardinality(Done') = Cardinality(Done) + 1
    BY <1>13, <2>1, FS_AddElement
  <2>3. completion = start + Cardinality(Done)
    BY <1>4 DEF IInv, Counted
  <2> QED
    BY <1>0, <2>1, <2>2, <2>3 DEF Counted
<1>15. RunsTell'
  <2>1. \A m \in stage : runs[m] = IF m \in Done \/ Ran(m) THEN 1 ELSE 0
    BY <1>4 DEF IInv, RunsTell
  <2>2. \A m \in stage : m \in Done' \/ Ran(m)' <=> m \in Done \/ Ran(m)
    BY <1>11, <1>12, <1>13
  <2>3. \A m \in stage : runs[m] = IF m \in Done' \/ Ran(m)' THEN 1 ELSE 0
    BY <2>1, <2>2
  <2> QED
    BY <1>0, <2>3 DEF RunsTell
<1> QED
  BY <1>5, <1>6, <1>7, <1>14, <1>15 DEF IInv

LEMMA StepInv == IInv /\ [Next]_vars => IInv'
<1> SUFFICES ASSUME IInv, [Next]_vars PROVE IInv'
  OBVIOUS
<1>0. TypeOK'
  BY TypeStep
<1>1. ASSUME NEW S \in (SUBSET Nodes) \ {{}}, RunInline(S) \/ Dispatch(S) PROVE IInv'
  BY <1>0, <1>1, BeginSteps
<1>2. ASSUME NEW n \in Nodes, NEW w \in Workers, PushJob(n, w) \/ RefuseJob(n, w)
      PROVE  IInv'
  BY <1>0, <1>2, PushStep, RefuseStep
<1>3. CASE StageDone
  BY <1>0, <1>3, StageDoneStep
<1>4. ASSUME NEW w \in Workers, PopJob(w) \/ RunJob(w) \/ CountJob(w) PROVE IInv'
  BY <1>0, <1>4, PopStep, RunStep, CountStep
<1>5. CASE \/ \E n \in Nodes : ClearFault(n)
           \/ Stop \/ WakeAll \/ Join
           \/ AllOffered \/ AllNotified \/ SpinInVain \/ Block \/ Unblock
           \/ \E w \in Workers :
                \/ NotifyWorker(w)
                \/ Top(w) \/ Drained(w) \/ NotifyCompletion(w) \/ Spin(w) \/ WakeUp(w)
  BY <1>0, <1>5, ControlSteps
<1>6. CASE UNCHANGED vars
  <2> USE DEF vars, stageVars, workerVars, sharedVars
  <2>1. InStage' = InStage /\ Places'
    BY <1>6 DEF IInv, Places, InStage
  <2>2. \A w \in Workers : worker'[w] = worker[w]
    BY <1>6
  <2> QED
    BY <1>0, <1>6, <2>1, <2>2, ControlStep DEF IInv, Places
<1> QED
  BY <1>1, <1>2, <1>3, <1>4, <1>5, <1>6 DEF Next, FinishStage, FinishDrop, Worker

LEMMA Invariance == Spec => []IInv
BY InitInv, StepInv, PTL DEF Spec

-----------------------------------------------------------------------------
(***************************************************************************)
(* The theorems.                                                           *)
(***************************************************************************)

\* Rings and counters keep to their sizes, whatever the threads interleave.
THEOREM PoolTypes == Spec => []TypeOK
<1>1. IInv => TypeOK
  BY DEF IInv
<1> QED
  BY <1>1, Invariance, PTL

\* The pointers of a job are never used after their stage: when the audio thread is
\* outside execute_stage no worker holds or will get a job, and inside it no worker
\* holds one of an earlier stage, with any number of workers and refused jobs.
THEOREM StagesAreFenced == Spec => []NoJobOutlivesItsStage
<1>1. ASSUME IInv PROVE NoJobOutlivesItsStage
  <2>0. jobs \in [Workers -> Seq(Job)]
    BY <1>1 DEF IInv, TypeOK
  <2>1. \A w \in Workers : DOMAIN jobs[w] = 1 .. Len(jobs[w])
    BY <2>0
  <2>2. ASSUME NEW k \in Outstanding
        PROVE  \/ \E w \in Workers : \E i \in 1 .. Len(jobs[w]) : k = jobs[w][i]
               \/ \E w \in Workers : k = job[w] /\ job[w] # NoJob
    <3>1. CASE k \in UNION {{jobs[w][i] : i \in DOMAIN jobs[w]} : w \in Workers}
      <4>1. PICK w \in Workers : k \in {jobs[w][i] : i \in DOMAIN jobs[w]}
        BY <3>1
      <4>2. \E i \in 1 .. Len(jobs[w]) : k = jobs[w][i]
        BY <2>1, <4>1
      <4> QED
        BY <4>2
    <3>2. CASE k \in {job[w] : w \in Workers} \ {NoJob}
      BY <3>2
    <3>3. \/ k \in UNION {{jobs[w][i] : i \in DOMAIN jobs[w]} : w \in Workers}
          \/ k \in {job[w] : w \in Workers} \ {NoJob}
      BY Zenon DEF Outstanding
    <3> QED
      BY <3>1, <3>2, <3>3
  <2>3. \A k \in Outstanding : k.stage = stageNo
    BY <1>1, <2>2 DEF IInv, JobsValid, Valid
  <2>4. ASSUME rt \in {"idle", "stopping", "joining", "gone"} PROVE Outstanding = {}
    <3>1. \A w \in Workers : jobs[w] = <<>> /\ Len(jobs[w]) = 0 /\ job[w] = NoJob
      BY <1>1, <2>4 DEF IInv, Quiet, InStage
    <3> QED
      BY <2>2, <3>1
  <2> QED
    BY <2>3, <2>4 DEF NoJobOutlivesItsStage
<1> QED
  BY <1>1, Invariance, PTL

\* When a dispatched stage ends, each node that a ring accepted was run exactly once
\* and each refused one not at all.
THEOREM AcceptedRunOnce == Spec => EachAcceptedRunsOnce
<1>1. ASSUME IInv, [Next]_vars
      PROVE  [rt' = "idle" /\ rt # "idle" =>
                \A n \in stage : runs[n] = IF n \in dropped THEN 0 ELSE 1]_vars
  <2> SUFFICES ASSUME Next, rt' = "idle", rt # "idle"
               PROVE  \A n \in stage : runs[n] = IF n \in dropped THEN 0 ELSE 1
    BY <1>1 DEF vars
  <2> USE DEF stageVars, workerVars, sharedVars
  <2>1. StageDone
    BY DEF Next, FinishStage, FinishDrop, Worker, RunInline, Dispatch, BeginStage, ClearFault,
       Stop, PushJob, RefuseJob, NotifyWorker, AllOffered, AllNotified, SpinInVain, Block,
       Unblock, WakeAll, Join, Top, PopJob, RunJob, CountJob, Drained, NotifyCompletion, Spin,
       WakeUp
  <2>2. \A n \in stage : n \in Done <=> n \notin dropped
    BY <1>1, <2>1, AllDone
  <2>3. \A n : ~Ran(n)
    <3>1. \A w \in Workers : worker[w] # "count"
      BY <1>1, <2>1, AllDone DEF IInv, Places
    <3> QED
      BY <3>1 DEF Ran
  <2>4. \A n \in stage : runs[n] = IF n \in Done \/ Ran(n) THEN 1 ELSE 0
    BY <1>1, <2>1 DEF IInv, RunsTell, StageDone, InStage
  <2> QED
    BY <2>2, <2>3, <2>4
<1> QED
  BY <1>1, Invariance, PTL DEF Spec, EachAcceptedRunsOnce

\* A processor that panicked is never run again, although its jobs carry a copy of
\* the flag: a node has one job at a time, so no copy can be out of date.
THEOREM FaultedAreBypassed == Spec => []FaultedStaysOut
<1>1. IInv => FaultedStaysOut
  BY DEF IInv, JobsValid, Places, FaultedStaysOut
<1> QED
  BY <1>1, Invariance, PTL
================================================================================
