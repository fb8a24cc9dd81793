------------------------- MODULE GraphCompiler_proofs -------------------------
(***************************************************************************)
(* The plans of the compiler are safe, for every graph, however many nodes *)
(* and buffers it has.                                                     *)
(*                                                                         *)
(* First that the steps of StagedPlan keep its promises; then that compile *)
(* takes no other steps.  The second needs to know why a node with         *)
(* in_degree 0 may run: the counter is the number of producers that have   *)
(* no place yet, throughout a pass in which bypassed nodes get theirs.     *)
(***************************************************************************)
EXTENDS GraphCompiler, FiniteSetTheorems, SequenceTheorems, WellFoundedInduction, TLAPS

PlanInv == PlanTypeOK /\ StagesHazardFree /\ ProducersRunFirst /\ RunOnce

\* Nothing has its place and no stage is open when the work begins.
LEMMA PlanInitInv == PlanInit => PlanInv
<1> SUFFICES ASSUME PlanInit PROVE PlanInv
  OBVIOUS
<1>1. stages = <<>> /\ Len(stages) = 0 /\ settled = {} /\ topo \in Topology
  BY DEF PlanInit
<1>2. stages \in Seq(SUBSET Nodes)
  BY <1>1, EmptySeq
<1> QED
  BY <1>1, <1>2 DEF PlanInv, PlanTypeOK, StagesHazardFree, ProducersRunFirst, RunOnce

\* Passing over a bypassed node leaves the stages alone.
LEMMA PassOverInv ==
  ASSUME PlanInv, NEW n \in Nodes, PassOver(n)
  PROVE  PlanInv'
<1>1. /\ topo' = topo /\ stages' = stages /\ settled' = settled \cup {n}
      /\ n \in topo.bypass
  BY DEF PassOver, Waiting
<1>2. PlanTypeOK'
  BY <1>1 DEF PlanInv, PlanTypeOK
<1>3. StagesHazardFree' /\ ProducersRunFirst'
  BY <1>1 DEF PlanInv, StagesHazardFree, ProducersRunFirst, Conflict, Producers
<1>4. RunOnce'
  BY <1>1 DEF PlanInv, RunOnce
<1> QED
  BY <1>2, <1>3, <1>4 DEF PlanInv

\* Appending a stage keeps the stages there are and adds one at the end.
LEMMA AppendStage ==
  ASSUME PlanInv, NEW stg \in SUBSET Nodes, stages' = Append(stages, stg)
  PROVE  /\ Len(stages) \in Nat /\ Len(stages') = Len(stages) + 1
         /\ stages' \in Seq(SUBSET Nodes)
         /\ \A k \in 1 .. Len(stages) : stages'[k] = stages[k]
         /\ stages'[Len(stages) + 1] = stg
  BY AppendProperties, LenProperties DEF PlanInv, PlanTypeOK

\* A stage that may be issued keeps every promise of the plan.
LEMMA IssueInv ==
  ASSUME PlanInv, NEW stg \in SUBSET Nodes, Issue(stg)
  PROVE  PlanInv'
<1> DEFINE last == Len(stages) + 1
<1>1. /\ topo' = topo /\ settled' = settled \cup stg
      /\ stages' = Append(stages, stg)
      /\ stg \subseteq Nodes \ settled /\ stg \cap topo.bypass = {}
      /\ \A n \in stg : Producers(topo, n) \subseteq settled
      /\ \A m, n \in stg : m # n => ~Conflict(topo, m, n)
  BY DEF Issue, Waiting
<1>2. /\ Len(stages) \in Nat /\ Len(stages') = last
      /\ stages' \in Seq(SUBSET Nodes)
      /\ \A k \in 1 .. Len(stages) : stages'[k] = stages[k]
      /\ stages'[last] = stg
  BY <1>1, AppendStage
<1>3. \A k \in 1 .. Len(stages') : k \in 1 .. Len(stages) \/ k = last
  BY <1>2
<1>4. last \in 1 .. Len(stages') /\ 1 .. Len(stages) \subseteq 1 .. Len(stages')
  BY <1>2
<1> HIDE DEF last
<1>5. PlanTypeOK'
  BY <1>1, <1>2 DEF PlanInv, PlanTypeOK
<1>6. StagesHazardFree'
  <2> SUFFICES ASSUME NEW k \in 1 .. Len(stages'), NEW m \in stages'[k],
                      NEW n \in stages'[k], m # n
               PROVE  ~Conflict(topo, m, n)
    BY <1>1 DEF StagesHazardFree, Conflict
  <2>1. CASE k \in 1 .. Len(stages)
    BY <1>2, <2>1 DEF PlanInv, StagesHazardFree
  <2>2. CASE k = last
    BY <1>1, <1>2, <2>2
  <2> QED
    BY <1>3, <2>1, <2>2
<1>7. ProducersRunFirst'
  <2> SUFFICES ASSUME NEW k \in 1 .. Len(stages'), NEW n \in stages'[k],
                      NEW m \in Producers(topo, n) \ topo.bypass
               PROVE  \E j \in 1 .. k - 1 : m \in stages'[j]
    BY <1>1 DEF ProducersRunFirst, Producers
  <2>1. CASE k \in 1 .. Len(stages)
    <3>1. PICK j \in 1 .. k - 1 : m \in stages[j]
      BY <1>2, <2>1 DEF PlanInv, ProducersRunFirst
    <3>2. j \in 1 .. Len(stages)
      BY <1>2, <2>1, <3>1
    <3> QED
      BY <1>2, <3>1, <3>2
  <2>2. CASE k = last
    <3>1. m \in settled \ topo.bypass
      BY <1>1, <1>2, <2>2
    <3>2. PICK j \in 1 .. Len(stages) : m \in stages[j]
      BY <3>1 DEF PlanInv, RunOnce
    <3>3. j \in 1 .. k - 1
      BY <1>2, <2>2, <3>2 DEF last
    <3> QED
      BY <1>2, <3>2, <3>3
  <2> QED
    BY <1>3, <2>1, <2>2
<1>8. RunOnce'
  <2>1. \A n \in settled' \ topo.bypass : \E k \in 1 .. Len(stages') : n \in stages'[k]
    <3>1. \A n \in stg : n \in stages'[last]
      BY <1>2
    <3>2. \A n \in settled \ topo.bypass : \E k \in 1 .. Len(stages) : n \in stages'[k]
      BY <1>2 DEF PlanInv, RunOnce
    <3> QED
      BY <1>1, <1>4, <3>1, <3>2
  <2>2. \A k \in 1 .. Len(stages) : stages'[k] \subseteq settled \ topo.bypass
    BY <1>2 DEF PlanInv, RunOnce
  <2>3. \A k \in 1 .. Len(stages') : stages'[k] \subseteq settled' \ topo.bypass
    BY <1>1, <1>2, <1>3, <2>2
  <2>4. \A j, k \in 1 .. Len(stages') : j # k => stages'[j] \cap stages'[k] = {}
    <3>1. \A j, k \in 1 .. Len(stages) : j # k => stages'[j] \cap stages'[k] = {}
      BY <1>2 DEF PlanInv, RunOnce
    <3>2. \A j \in 1 .. Len(stages) : stages'[j] \cap stages'[last] = {}
      BY <1>1, <1>2, <2>2
    <3> QED
      BY <1>3, <3>1, <3>2
  <2> QED
    BY <1>1, <2>1, <2>3, <2>4 DEF RunOnce
<1> QED
  BY <1>5, <1>6, <1>7, <1>8 DEF PlanInv

\* Every step of StagedPlan keeps its promises.
LEMMA PlanNextInv == PlanInv /\ [PlanNext]_planVars => PlanInv'
<1> SUFFICES ASSUME PlanInv, [PlanNext]_planVars PROVE PlanInv'
  OBVIOUS
<1>1. CASE \E n \in Nodes : PassOver(n)
  BY <1>1, PassOverInv
<1>2. CASE \E stg \in SUBSET Nodes : Issue(stg)
  BY <1>2, IssueInv
<1>3. CASE UNCHANGED planVars
  BY <1>3 DEF planVars, PlanInv, PlanTypeOK, StagesHazardFree, ProducersRunFirst,
    RunOnce, Producers, Conflict
<1> QED
  BY <1>1, <1>2, <1>3 DEF PlanNext

\* Whoever builds a plan by the steps of StagedPlan builds a safe one.
THEOREM StagedPlanIsSafe == PlanSpec => []PlanInv
  BY PlanInitInv, PlanNextInv, PTL DEF PlanSpec

-----------------------------------------------------------------------------
(***************************************************************************)
(* compile takes the steps of StagedPlan only.                             *)
(***************************************************************************)
\* The nodes n still waits for.
Missing(n) == Producers(topo, n) \ settled

\* in_degree is what the name says, as long as the loop runs.
InDegreeExact == pc = "scan" => \A n \in Nodes : inDegree[n] = Cardinality(Missing(n))

\* The open stage is one that may be issued; it is empty outside the loop.
StageOpen ==
    /\ stage \in SUBSET (Nodes \ (settled \cup topo.bypass))
    /\ \A n \in stage : n < scan /\ Producers(topo, n) \subseteq settled
    /\ \A m, n \in stage : m # n => ~Conflict(topo, m, n)
    /\ pc # "scan" => stage = {}

KahnType ==
    /\ settled \in SUBSET Nodes
    /\ scan \in 0 .. NumNodes
    /\ pc = "check" => settled = {}

IInv == KahnType /\ InDegreeExact /\ StageOpen

\* The producers of a node are finitely many.
LEMMA ProducersFinite ==
  ASSUME NEW n
  PROVE  /\ IsFiniteSet(Nodes) /\ IsFiniteSet(Producers(topo, n))
         /\ IsFiniteSet(Missing(n))
<1>1. IsFiniteSet(Nodes)
  BY FS_Interval, CompilerAssumption, PlanAssumption DEF Nodes
<1>2. Producers(topo, n) \subseteq Nodes /\ Missing(n) \subseteq Nodes
  BY DEF Producers, Missing
<1> QED
  BY <1>1, <1>2, FS_Subset

\* Releasing the dependents of the nodes of S, none of which had its place,
\* keeps in_degree exact.
LEMMA ReleasedExact ==
  ASSUME InDegreeExact, pc = "scan", NEW S \in SUBSET Nodes, S \cap settled = {},
         settled' = settled \cup S, topo' = topo, inDegree' = Released(S)
  PROVE  \A n \in Nodes : inDegree'[n] = Cardinality(Missing(n)')
<1> SUFFICES ASSUME NEW n \in Nodes PROVE inDegree'[n] = Cardinality(Missing(n)')
  OBVIOUS
<1> DEFINE P == Producers(topo, n)
<1>1. Missing(n)' = (P \ settled) \ S
  BY DEF Missing, Producers
<1>2. (P \ settled) \cap S = P \cap S
  OBVIOUS
<1>3. IsFiniteSet(P \ settled)
  BY ProducersFinite DEF Missing
<1>4. Cardinality((P \ settled) \ S)
        = Cardinality(P \ settled) - Cardinality((P \ settled) \cap S)
  BY <1>3, FS_Difference
<1>5. inDegree[n] = Cardinality(P \ settled)
  BY DEF InDegreeExact, Missing
<1>6. inDegree'[n] = inDegree[n] - Cardinality(P \cap S)
  BY DEF Released
<1> QED
  BY <1>1, <1>2, <1>4, <1>5, <1>6

\* A node whose in_degree is 0 waits for nothing.
LEMMA ReadyMeansReady ==
  ASSUME IInv, pc = "scan", NEW n \in Nodes, Ready(n)
  PROVE  n \in Nodes \ settled /\ Producers(topo, n) \subseteq settled
<1>1. Cardinality(Missing(n)) = 0
  BY DEF Ready, IInv, InDegreeExact
<1>2. Missing(n) = {}
  BY <1>1, ProducersFinite, FS_EmptySet
<1> QED
  BY <1>2 DEF Ready, Missing

\* The work begins with nothing settled and no stage open.
LEMMA InitIInv == Init => IInv
<1> SUFFICES ASSUME Init PROVE IInv
  OBVIOUS
<1>1. 0 \in 0 .. NumNodes
  BY CompilerAssumption, PlanAssumption
<1> QED
  BY <1>1 DEF Init, IInv, KahnType, InDegreeExact, StageOpen

\* When the loop begins every producer is still missing.
LEMMA BuildAdjacencyInv == IInv /\ BuildAdjacency => IInv'
<1> SUFFICES ASSUME IInv, BuildAdjacency PROVE IInv'
  OBVIOUS
<1>1. /\ pc' = "scan" /\ pc = "check" /\ topo' = topo /\ settled' = settled
      /\ stage' = stage /\ scan' = scan /\ settled = {} /\ stage = {}
      /\ inDegree' = [n \in Nodes |-> Cardinality(Producers(topo, n))]
  BY DEF BuildAdjacency, IInv, KahnType, StageOpen
<1>2. \A n \in Nodes : Missing(n)' = Producers(topo, n)
  BY <1>1 DEF Missing, Producers
<1>3. InDegreeExact'
  BY <1>1, <1>2 DEF InDegreeExact
<1> QED
  BY <1>1, <1>3 DEF IInv, KahnType, StageOpen

\* Nodes that are not ready, or collide, wait for a later pass.
LEMMA SkipInv == IInv /\ (NotReady \/ Postpone) => IInv'
<1> SUFFICES ASSUME IInv, NotReady \/ Postpone PROVE IInv'
  OBVIOUS
<1>1. /\ pc' = pc /\ topo' = topo /\ settled' = settled /\ stage' = stage
      /\ inDegree' = inDegree /\ scan' = scan + 1 /\ scan \in Nodes
  BY DEF NotReady, Postpone, Scanning
<1>2. scan \in 0 .. NumNodes - 1 /\ NumNodes \in Nat
  BY <1>1, PlanAssumption DEF Nodes
<1>3. scan' \in 0 .. NumNodes /\ \A n \in Nodes : n < scan => n < scan'
  BY <1>1, <1>2 DEF Nodes
<1>4. stage \subseteq Nodes
  BY DEF IInv, StageOpen
<1>5. InDegreeExact'
  BY <1>1 DEF IInv, InDegreeExact, Missing, Producers
<1>6. StageOpen'
  BY <1>1, <1>3, <1>4 DEF IInv, StageOpen, Producers, Conflict
<1> QED
  BY <1>1, <1>3, <1>5, <1>6 DEF IInv, KahnType

\* A bypassed node is passed over when it waits for nothing.
LEMMA PruneBypassedInv ==
  ASSUME IInv, PruneBypassed
  PROVE  IInv' /\ PassOver(scan)
<1>1. /\ pc = "scan" /\ pc' = pc /\ topo' = topo /\ settled' = settled \cup {scan}
      /\ stage' = stage /\ stages' = stages /\ inDegree' = Released({scan})
      /\ scan' = scan + 1 /\ scan \in Nodes /\ scan \in topo.bypass /\ Ready(scan)
  BY DEF PruneBypassed, Scanning
<1>2. scan \in Nodes \ settled /\ Producers(topo, scan) \subseteq settled
  BY <1>1, ReadyMeansReady
<1>3. scan \in 0 .. NumNodes - 1 /\ NumNodes \in Nat
  BY <1>1, PlanAssumption DEF Nodes
<1>4. scan' \in 0 .. NumNodes /\ \A n \in Nodes : n < scan => n < scan'
  BY <1>1, <1>3 DEF Nodes
<1>5. \A n \in Nodes : inDegree'[n] = Cardinality(Missing(n)')
  BY <1>1, <1>2, ReleasedExact DEF IInv
<1>6. InDegreeExact'
  BY <1>5 DEF InDegreeExact
<1>7. KahnType'
  BY <1>1, <1>4 DEF IInv, KahnType
<1>8. StageOpen'
  <2>1. scan \notin stage /\ stage \subseteq Nodes
    BY <1>1 DEF IInv, StageOpen
  <2> QED
    BY <1>1, <1>4, <2>1 DEF IInv, StageOpen, Producers, Conflict
<1>9. PassOver(scan)
  BY <1>1, <1>2 DEF PassOver, Waiting
<1> QED
  BY <1>6, <1>7, <1>8, <1>9 DEF IInv

\* A node joins the stage if it waits for nothing and collides with nobody.
LEMMA PlaceInv == IInv /\ Place => IInv'
<1> SUFFICES ASSUME IInv, Place PROVE IInv'
  OBVIOUS
<1>1. /\ pc = "scan" /\ pc' = pc /\ topo' = topo /\ settled' = settled
      /\ stage' = stage \cup {scan} /\ inDegree' = inDegree
      /\ scan' = scan + 1 /\ scan \in Nodes /\ scan \notin topo.bypass
      /\ Ready(scan) /\ ~Collides(scan)
  BY DEF Place, Scanning
<1>2. scan \in Nodes \ settled /\ Producers(topo, scan) \subseteq settled
  BY <1>1, ReadyMeansReady
<1>3. scan \in 0 .. NumNodes - 1 /\ NumNodes \in Nat
  BY <1>1, PlanAssumption DEF Nodes
<1>4. scan' \in 0 .. NumNodes /\ scan < scan' /\ \A n \in Nodes : n < scan => n < scan'
  BY <1>1, <1>3 DEF Nodes
<1>5. InDegreeExact'
  BY <1>1 DEF IInv, InDegreeExact, Missing, Producers
<1>6. \A m \in stage : ~Conflict(topo, m, scan) /\ ~Conflict(topo, scan, m)
  BY <1>1 DEF Collides, Written, Read, Conflict
<1>7. StageOpen'
  <2>1. stage' \in SUBSET (Nodes \ (settled' \cup topo'.bypass))
    BY <1>1, <1>2 DEF IInv, StageOpen
  <2>2. \A n \in stage' : n < scan' /\ Producers(topo', n) \subseteq settled'
    BY <1>1, <1>2, <1>4 DEF IInv, StageOpen
  <2>3. \A m, n \in stage' : m # n => ~Conflict(topo', m, n)
    BY <1>1, <1>6 DEF IInv, StageOpen
  <2>4. pc' = "scan"
    BY <1>1
  <2> QED
    BY <2>1, <2>2, <2>3, <2>4 DEF StageOpen, Producers, Conflict
<1> QED
  BY <1>1, <1>4, <1>5, <1>7 DEF IInv, KahnType

\* The open stage is issued at the end of the pass.
LEMMA CloseStageInv ==
  ASSUME IInv, CloseStage
  PROVE  IInv' /\ Issue(stage)
<1>1. /\ pc = "scan" /\ pc' \in {"scan", "islands"} /\ topo' = topo
      /\ settled' = settled \cup stage /\ stages' = Append(stages, stage)
      /\ inDegree' = Released(stage) /\ stage' = {} /\ stage # {} /\ scan' = 0
  BY DEF CloseStage
<1>2. /\ stage \in SUBSET (Nodes \ (settled \cup topo.bypass))
      /\ \A n \in stage : Producers(topo, n) \subseteq settled
      /\ \A m, n \in stage : m # n => ~Conflict(topo, m, n)
  BY DEF IInv, StageOpen
<1>3. 0 \in 0 .. NumNodes
  BY PlanAssumption
<1>4. stage \in SUBSET Nodes /\ stage \cap settled = {}
  BY <1>2
<1>5. \A n \in Nodes : inDegree'[n] = Cardinality(Missing(n)')
  BY <1>1, <1>4, ReleasedExact DEF IInv
<1>6. InDegreeExact' /\ StageOpen' /\ KahnType'
  BY <1>1, <1>2, <1>3, <1>5 DEF IInv, InDegreeExact, StageOpen, KahnType
<1>7. Issue(stage)
  BY <1>1, <1>2 DEF Issue, Waiting
<1> QED
  BY <1>6, <1>7 DEF IInv

\* Outside the loop nothing the plan is made of changes.
LEMMA OtherInv ==
  ASSUME IInv,
         \/ Refuse \/ EndLoop \/ IslandsDone \/ CarryLatency \/ Align \/ Verify \/ Ended
         \/ \E n \in Nodes : OpenIsland(n) \/ GrowIsland(n)
  PROVE  IInv' /\ UNCHANGED planVars
<1>1. /\ topo' = topo /\ settled' = settled /\ stages' = stages /\ stage' = stage
      /\ scan' = scan /\ inDegree' = inDegree
  BY DEF Refuse, EndLoop, IslandsDone, CarryLatency, Align, Verify, Ended, OpenIsland,
    GrowIsland, kahnVars, vars
<1>2. (pc' # "scan" /\ pc' # "check" /\ stage = {}) \/ UNCHANGED vars
  BY DEF Refuse, EndLoop, IslandsDone, CarryLatency, Align, Verify, Ended, OpenIsland,
    GrowIsland, IInv, StageOpen
<1>3. CASE pc' # "scan" /\ pc' # "check" /\ stage = {}
  BY <1>1, <1>3 DEF IInv, InDegreeExact, StageOpen, KahnType, planVars
<1>4. CASE UNCHANGED vars
  BY <1>1, <1>4 DEF IInv, InDegreeExact, StageOpen, KahnType, planVars, vars, Missing,
    Producers, Conflict
<1> QED
  BY <1>2, <1>3, <1>4

\* Every step of compile keeps the invariant and is a step of StagedPlan, or
\* changes nothing there.
LEMMA NextRefines == IInv /\ [Next]_vars => IInv' /\ [PlanNext]_planVars
<1> SUFFICES ASSUME IInv, [Next]_vars PROVE IInv' /\ [PlanNext]_planVars
  OBVIOUS
<1>1. CASE BuildAdjacency
  BY <1>1, BuildAdjacencyInv DEF BuildAdjacency, planVars
<1>2. CASE NotReady \/ Postpone
  BY <1>2, SkipInv DEF NotReady, Postpone, planVars
<1>3. CASE PruneBypassed
  <2>1. scan \in Nodes
    BY <1>3 DEF PruneBypassed, Scanning
  <2> QED
    BY <1>3, <2>1, PruneBypassedInv DEF PlanNext
<1>4. CASE Place
  BY <1>4, PlaceInv DEF Place, planVars
<1>5. CASE CloseStage
  <2>1. stage \in SUBSET Nodes
    BY DEF IInv, StageOpen
  <2> QED
    BY <1>5, <2>1, CloseStageInv DEF PlanNext
<1>6. CASE \/ Refuse \/ EndLoop \/ IslandsDone \/ CarryLatency \/ Align \/ Verify \/ Ended
           \/ \E n \in Nodes : OpenIsland(n) \/ GrowIsland(n)
  BY <1>6, OtherInv
<1>7. CASE UNCHANGED vars
  BY <1>7 DEF IInv, InDegreeExact, StageOpen, KahnType, planVars, vars, kahnVars, Missing,
    Producers, Conflict
<1> QED
  BY <1>1, <1>2, <1>3, <1>4, <1>5, <1>6, <1>7 DEF Next

\* compile implements StagedPlan: every graph, any number of nodes.
THEOREM CompileRefines == Spec => BuildsStagedPlan
<1>1. Init => PlanInit
  BY CompilerAssumption DEF Init, PlanInit
<1> QED
  BY <1>1, InitIInv, NextRefines, PTL DEF Spec, PlanSpec, BuildsStagedPlan

\* The nodes of a stage may run at the same time.
THEOREM NoHazardInAStage == Spec => []StagesHazardFree
<1>1. PlanInv => StagesHazardFree
  BY DEF PlanInv
<1> QED
  BY <1>1, CompileRefines, StagedPlanIsSafe, PTL DEF BuildsStagedPlan

\* What a planned node reads was written by an earlier stage of the plan.
THEOREM ProducersBeforeConsumers == Spec => []ProducersRunFirst
<1>1. PlanInv => ProducersRunFirst
  BY DEF PlanInv
<1> QED
  BY <1>1, CompileRefines, StagedPlanIsSafe, PTL DEF BuildsStagedPlan

\* No node has two places in a plan, and none that is settled is missing.
THEOREM EachNodeOnce == Spec => []RunOnce
<1>1. PlanInv => RunOnce
  BY DEF PlanInv
<1> QED
  BY <1>1, CompileRefines, StagedPlanIsSafe, PTL DEF BuildsStagedPlan

\* What follows the loop is reached with every node in its place.
SettledAfterLoop ==
    pc \in {"islands", "latency", "verify", "done"} => settled = Nodes

LEMMA AllSettled == Spec => []SettledAfterLoop
<1>1. Init => SettledAfterLoop
  BY DEF Init, SettledAfterLoop
<1>2. SettledAfterLoop /\ [Next]_vars => SettledAfterLoop'
  <2> SUFFICES ASSUME SettledAfterLoop, [Next]_vars PROVE SettledAfterLoop'
    OBVIOUS
  <2>1. CASE NotReady \/ PruneBypassed \/ Postpone \/ Place
    BY <2>1 DEF NotReady, PruneBypassed, Postpone, Place, Scanning, SettledAfterLoop
  <2>2. CASE Refuse \/ BuildAdjacency
    BY <2>2 DEF Refuse, BuildAdjacency, SettledAfterLoop
  <2>3. CASE CloseStage \/ EndLoop
    BY <2>3 DEF CloseStage, EndLoop, kahnVars, SettledAfterLoop
  <2>4. CASE IslandsDone \/ CarryLatency \/ Align \/ Verify
    BY <2>4 DEF IslandsDone, CarryLatency, Align, Verify, kahnVars, SettledAfterLoop
  <2>5. CASE \E n \in Nodes : OpenIsland(n) \/ GrowIsland(n)
    BY <2>5 DEF OpenIsland, GrowIsland, kahnVars, SettledAfterLoop
  <2>6. CASE Ended \/ UNCHANGED vars
    BY <2>6 DEF Ended, vars, kahnVars, SettledAfterLoop
  <2> QED
    BY <2>1, <2>2, <2>3, <2>4, <2>5, <2>6 DEF Next
<1> QED
  BY <1>1, <1>2, PTL DEF Spec

\* A graph that compiles runs every node that is not bypassed.
THEOREM CompilesCompletely == Spec => []CompleteWhenDone
<1>1. PlanInv /\ SettledAfterLoop => CompleteWhenDone
  BY DEF PlanInv, RunOnce, SettledAfterLoop, CompleteWhenDone, Planned
<1> QED
  BY <1>1, AllSettled, CompileRefines, StagedPlanIsSafe, PTL DEF BuildsStagedPlan

-----------------------------------------------------------------------------
(***************************************************************************)
(* Loops.                                                                  *)
(***************************************************************************)
\* What has its place waits for nothing without one, and holds no loop.
SettledInOrder ==
    /\ \A n \in settled : Producers(topo, n) \subseteq settled
    /\ \A S \in (SUBSET settled) \ {{}} : \E n \in S : Producers(topo, n) \cap S = {}

\* Nodes that wait only for settled ones close no loop, together or one by one.
LEMMA SettleMore ==
  ASSUME SettledInOrder, NEW T, T \cap settled = {}, settled' = settled \cup T,
         topo' = topo, \A n \in T : Producers(topo, n) \subseteq settled
  PROVE  SettledInOrder'
<1>1. \A n \in settled' : Producers(topo, n) \subseteq settled'
  BY DEF SettledInOrder
<1>2. ASSUME NEW S \in (SUBSET settled') \ {{}}
      PROVE  \E n \in S : Producers(topo, n) \cap S = {}
  <2>1. CASE S \cap settled # {}
    <3>0. S \cap settled \in (SUBSET settled) \ {{}}
      BY <2>1
    <3>1. PICK n \in S \cap settled : Producers(topo, n) \cap (S \cap settled) = {}
      BY <3>0 DEF SettledInOrder
    <3>2. Producers(topo, n) \subseteq settled
      BY DEF SettledInOrder
    <3> QED
      BY <3>1, <3>2
  <2>2. CASE S \cap settled = {}
    <3>1. PICK n : n \in S /\ n \in settled'
      <4>1. S # {} /\ S \subseteq settled'
        BY <1>2
      <4> QED
        BY <4>1
    <3>2. Producers(topo, n) \subseteq settled
      BY <2>2, <3>1
    <3> QED
      BY <2>2, <3>1, <3>2
  <2> QED
    BY <2>1, <2>2
<1> QED
  BY <1>1, <1>2 DEF SettledInOrder

LEMMA PlanKeepsOrder == SettledInOrder /\ [PlanNext]_planVars => SettledInOrder'
<1> SUFFICES ASSUME SettledInOrder, [PlanNext]_planVars PROVE SettledInOrder'
  OBVIOUS
<1>1. ASSUME NEW n \in Nodes, PassOver(n) PROVE SettledInOrder'
  <2>1. /\ {n} \cap settled = {} /\ settled' = settled \cup {n} /\ topo' = topo
        /\ \A m \in {n} : Producers(topo, m) \subseteq settled
    BY <1>1 DEF PassOver, Waiting
  <2> QED
    BY <2>1, SettleMore
<1>2. ASSUME NEW stg \in SUBSET Nodes, Issue(stg) PROVE SettledInOrder'
  <2>1. /\ stg \cap settled = {} /\ settled' = settled \cup stg /\ topo' = topo
        /\ \A m \in stg : Producers(topo, m) \subseteq settled
    BY <1>2 DEF Issue, Waiting
  <2> QED
    BY <2>1, SettleMore
<1>3. CASE UNCHANGED planVars
  BY <1>3 DEF planVars, SettledInOrder
<1> QED
  BY <1>1, <1>2, <1>3 DEF PlanNext

\* No graph with a loop gets a plan: a set of nodes each of which waits for another
\* of the set never gets its places, bypassed or not.
THEOREM LoopsGetNoPlan == Spec => []LoopsAreRefused
<1>1. ASSUME PlanInit PROVE SettledInOrder
  <2>1. settled = {}
    BY <1>1 DEF PlanInit
  <2>2. \A S \in SUBSET settled : S = {}
    BY <2>1
  <2> QED
    BY <2>1, <2>2 DEF SettledInOrder
<1>2. PlanSpec => []SettledInOrder
  BY <1>1, PlanKeepsOrder, PTL DEF PlanSpec
<1>3. SettledInOrder /\ SettledAfterLoop => LoopsAreRefused
  BY DEF SettledInOrder, SettledAfterLoop, LoopsAreRefused, Acyclic
<1> QED
  BY <1>2, <1>3, AllSettled, CompileRefines, PTL DEF BuildsStagedPlan

-----------------------------------------------------------------------------
(***************************************************************************)
(* Islands.                                                                *)
(***************************************************************************)
Visited == {n \in Nodes : island[n] # 0}

\* No set of nodes that is closed under neighbours separates m from n.
Closed(S) == \A x \in S : Neighbours(x) \subseteq S
Together(m, n) == \A S \in SUBSET Nodes : m \in S /\ Closed(S) => n \in S

\* The labels in use have a largest one, and there are no more than nodes seen.
Labelled ==
    /\ island \in [Nodes -> Nat]
    /\ \E k \in 0 .. Cardinality(Visited) :
         /\ \A n \in Nodes : island[n] <= k
         /\ k = 0 \/ \E n \in Nodes : island[n] = k

\* The search is at one island; whoever it is done with has its neighbours there.
Searched ==
    /\ frontier \subseteq Visited
    /\ \A m, n \in frontier : island[m] = island[n]
    /\ \A n \in Visited \ frontier : \A m \in Neighbours(n) :
         m \in Visited /\ island[m] = island[n]
    /\ pc = "latency" => frontier = {} /\ Visited = Nodes

LinkedUp == \A m, n \in Visited : island[m] = island[n] => Together(m, n)

IslandInv == Labelled /\ Searched /\ LinkedUp

LEMMA NeighbourFacts ==
  ASSUME NEW n \in Nodes
  PROVE  /\ Neighbours(n) \subseteq Nodes
         /\ \A m \in Nodes : m \in Neighbours(n) <=> n \in Neighbours(m)
BY DEF Neighbours, Dependents, Producers

LEMMA VisitedFinite == IsFiniteSet(Visited) /\ Cardinality(Visited) \in 0 .. NumNodes
<1>1. IsFiniteSet(Nodes) /\ Cardinality(Nodes) = NumNodes
  BY FS_Interval, CompilerAssumption, PlanAssumption DEF Nodes
<1>2. Visited \subseteq Nodes
  BY DEF Visited
<1>3. IsFiniteSet(Visited) /\ Cardinality(Visited) <= Cardinality(Nodes)
  BY <1>1, <1>2, FS_Subset
<1> QED
  BY <1>1, <1>3, FS_CardinalityType, PlanAssumption

\* A new island gets a label of its own.
LEMMA LastIslandFacts ==
  ASSUME Labelled
  PROVE  /\ LastIsland \in 0 .. Cardinality(Visited)
         /\ \A n \in Nodes : island[n] <= LastIsland
<1> DEFINE Top(k) == /\ \A n \in Nodes : island[n] <= k
                     /\ k = 0 \/ \E n \in Nodes : island[n] = k
<1>1. PICK k \in 0 .. Cardinality(Visited) : Top(k)
  BY DEF Labelled
<1>2. k \in 0 .. NumNodes
  BY <1>1, VisitedFinite, PlanAssumption
<1>3. LastIsland \in 0 .. NumNodes /\ Top(LastIsland)
  BY <1>1, <1>2, Zenon DEF LastIsland
<1>4. LastIsland <= k
  BY <1>1, <1>2, <1>3 DEF Labelled
<1> QED
  BY <1>1, <1>2, <1>3, <1>4, VisitedFinite

LEMMA OpenIslandInv ==
  ASSUME IslandInv, NEW n \in Nodes, OpenIsland(n)
  PROVE  IslandInv'
<1> DEFINE new == LastIsland + 1
<1>1. /\ pc = "islands" /\ pc' = pc /\ topo' = topo /\ frontier = {} /\ frontier' = {n}
      /\ island' = [island EXCEPT ![n] = new] /\ island[n] = 0
      /\ island \in [Nodes -> Nat]
  BY DEF OpenIsland, Unvisited, IslandInv, Labelled
<1>2. /\ new \in Nat \ {0} /\ new <= Cardinality(Visited) + 1
      /\ \A m \in Nodes : island[m] < new
  BY <1>1, LastIslandFacts, VisitedFinite DEF IslandInv
<1> HIDE DEF new
<1>3. /\ island'[n] = new /\ \A m \in Nodes : m # n => island'[m] = island[m]
      /\ island' \in [Nodes -> Nat]
  BY <1>1, <1>2
<1>4. Visited' = Visited \cup {n} /\ n \notin Visited
  BY <1>1, <1>2, <1>3 DEF Visited
<1>5. Cardinality(Visited') = Cardinality(Visited) + 1
  BY <1>4, VisitedFinite, FS_AddElement
<1>6. Labelled'
  <2>1. \A m \in Nodes : island'[m] <= new
    BY <1>1, <1>2, <1>3
  <2>2. new \in 0 .. Cardinality(Visited')
    BY <1>2, <1>5, VisitedFinite
  <2> QED
    BY <1>3, <2>1, <2>2 DEF Labelled
<1>7. \A m : Neighbours(m)' = Neighbours(m)
  BY <1>1 DEF Neighbours, Dependents, Producers
<1>8. Searched'
  <2>1. ASSUME NEW x \in Visited' \ frontier', NEW m \in Neighbours(x)
        PROVE  m \in Visited' /\ island'[m] = island'[x]
    <3>1. x \in Visited \ frontier /\ x # n
      BY <1>1, <1>4
    <3>2. m \in Visited /\ island[m] = island[x]
      BY <3>1 DEF IslandInv, Searched
    <3>3. m \in Nodes /\ x \in Nodes /\ m # n
      BY <1>4, <3>1, <3>2 DEF Visited
    <3> QED
      BY <1>3, <1>4, <3>1, <3>2, <3>3
  <2> QED
    BY <1>1, <1>4, <1>7, <2>1 DEF Searched
<1>9. \A x, y : Together(x, y)' = Together(x, y)
  BY <1>7 DEF Together, Closed
<1>10. LinkedUp'
  <2> SUFFICES ASSUME NEW x \in Visited', NEW y \in Visited', island'[x] = island'[y]
               PROVE  Together(x, y)
    BY <1>9 DEF LinkedUp
  <2>1. CASE x # n /\ y # n
    BY <1>3, <1>4, <2>1 DEF IslandInv, LinkedUp, Visited
  <2>2. CASE x = n \/ y = n
    <3>1. x \in Nodes /\ y \in Nodes
      BY <1>1, <1>4 DEF Visited
    <3>2. x = y
      BY <1>1, <1>2, <1>3, <2>2, <3>1
    <3> QED
      BY <3>2 DEF Together
  <2> QED
    BY <2>1, <2>2
<1> QED
  BY <1>6, <1>8, <1>10 DEF IslandInv

LEMMA GrowIslandInv ==
  ASSUME IslandInv, NEW n \in Nodes, GrowIsland(n)
  PROVE  IslandInv'
<1> DEFINE found == Neighbours(n) \cap Unvisited
<1>1. /\ pc = "islands" /\ pc' = pc /\ topo' = topo /\ n \in frontier
      /\ frontier' = (frontier \ {n}) \cup found
      /\ island' = [m \in Nodes |-> IF m \in found THEN island[n] ELSE island[m]]
      /\ island \in [Nodes -> Nat] /\ frontier \subseteq Visited
  BY DEF GrowIsland, IslandInv, Labelled, Searched
<1>2. /\ n \in Visited /\ island[n] # 0 /\ n \notin found
      /\ found \subseteq Neighbours(n) /\ found \subseteq Nodes /\ found \cap Visited = {}
      /\ \A m \in Neighbours(n) : m \in Visited \/ m \in found
  BY <1>1, NeighbourFacts DEF Visited, Unvisited
<1> HIDE DEF found
<1>3. /\ \A m \in found : island'[m] = island[n]
      /\ \A m \in Nodes \ found : island'[m] = island[m]
      /\ island' \in [Nodes -> Nat]
  BY <1>1, <1>2
<1>4. Visited' = Visited \cup found
  BY <1>2, <1>3 DEF Visited
<1>5. \A m \in Visited : island'[m] = island[m]
  BY <1>2, <1>3 DEF Visited
<1>6. Labelled'
  <2>1. PICK k \in 0 .. Cardinality(Visited) :
          /\ \A m \in Nodes : island[m] <= k
          /\ k = 0 \/ \E m \in Nodes : island[m] = k
    BY DEF IslandInv, Labelled
  <2>2. /\ IsFiniteSet(Nodes) /\ Visited' \subseteq Nodes /\ Visited \subseteq Visited'
    BY <1>2, <1>4, ProducersFinite DEF Visited
  <2>3. IsFiniteSet(Visited') /\ Cardinality(Visited) <= Cardinality(Visited')
    BY <2>2, FS_Subset
  <2>4. Cardinality(Visited) \in Nat /\ Cardinality(Visited') \in Nat
    BY <2>3, VisitedFinite, FS_CardinalityType
  <2>5. k \in 0 .. Cardinality(Visited')
    BY <2>3, <2>4
  <2>6. \A m \in Nodes : island'[m] <= k
    BY <1>3, <2>1
  <2>7. k = 0 \/ \E m \in Nodes : island'[m] = k
    <3>1. ASSUME NEW m \in Nodes, island[m] = k, k # 0 PROVE island'[m] = k
      BY <1>5, <3>1 DEF Visited
    <3> QED
      BY <2>1, <3>1
  <2> QED
    BY <1>3, <2>5, <2>6, <2>7 DEF Labelled
<1>7. \A m : Neighbours(m)' = Neighbours(m)
  BY <1>1 DEF Neighbours, Dependents, Producers
<1>8. Searched'
  <2>1. \A x, y \in frontier' : island'[x] = island'[y]
    <3>1. \A x \in frontier' : island'[x] = island[n]
      BY <1>1, <1>3, <1>5 DEF IslandInv, Searched
    <3> QED
      BY <3>1
  <2>2. ASSUME NEW x \in Visited' \ frontier', NEW m \in Neighbours(x)
        PROVE  m \in Visited' /\ island'[m] = island'[x]
    <3>1. x \in Visited /\ (x = n \/ x \notin frontier) /\ x \in Nodes
      BY <1>1, <1>4 DEF Visited
    <3>2. CASE x # n
      BY <1>4, <1>5, <3>1, <3>2 DEF IslandInv, Searched
    <3>3. CASE x = n /\ m \in found
      BY <1>2, <1>3, <1>4, <1>5, <3>3
    <3>4. CASE x = n /\ m \in frontier
      BY <1>1, <1>4, <1>5, <3>1, <3>4 DEF IslandInv, Searched
    <3>5. CASE x = n /\ m \in Visited \ frontier
      <4>1. m \in Nodes /\ n \in Neighbours(m)
        BY <3>5, NeighbourFacts DEF Visited
      <4>2. island[n] = island[m]
        BY <3>5, <4>1 DEF IslandInv, Searched
      <4> QED
        BY <1>2, <1>4, <1>5, <3>5, <4>2
    <3> QED
      BY <1>2, <3>2, <3>3, <3>4, <3>5
  <2> QED
    BY <1>1, <1>4, <1>7, <2>1, <2>2 DEF Searched
<1>9. \A x, y : Together(x, y)' = Together(x, y)
  BY <1>7 DEF Together, Closed
<1>10. \A m \in found : Together(m, n) /\ Together(n, m)
  <2>1. \A m \in found : m \in Neighbours(n) /\ n \in Neighbours(m)
    BY <1>2, NeighbourFacts
  <2> QED
    BY <2>1 DEF Together, Closed
<1>11. \A x, y, z : Together(x, y) /\ Together(y, z) => Together(x, z)
  BY DEF Together
<1>12. LinkedUp'
  <2> SUFFICES ASSUME NEW x \in Visited', NEW y \in Visited', island'[x] = island'[y]
               PROVE  Together(x, y)
    BY <1>9 DEF LinkedUp
  <2>1. CASE x \in Visited /\ y \in Visited
    BY <1>5, <2>1 DEF IslandInv, LinkedUp
  <2>2. CASE x \in found /\ y \in found
    BY <1>10, <1>11, <2>2
  <2>3. CASE x \in found /\ y \in Visited
    <3>1. Together(n, y)
      BY <1>2, <1>3, <1>5, <2>3 DEF IslandInv, LinkedUp
    <3> QED
      BY <1>10, <1>11, <2>3, <3>1
  <2>4. CASE x \in Visited /\ y \in found
    <3>1. Together(x, n)
      BY <1>2, <1>3, <1>5, <2>4 DEF IslandInv, LinkedUp
    <3> QED
      BY <1>10, <1>11, <2>4, <3>1
  <2> QED
    BY <1>4, <2>1, <2>2, <2>3, <2>4
<1> QED
  BY <1>6, <1>8, <1>12 DEF IslandInv

LEMMA IslandNextInv == IslandInv /\ [Next]_vars => IslandInv'
<1> SUFFICES ASSUME IslandInv, [Next]_vars PROVE IslandInv'
  OBVIOUS
<1>1. CASE \E n \in Nodes : OpenIsland(n) \/ GrowIsland(n)
  BY <1>1, OpenIslandInv, GrowIslandInv
<1>2. ASSUME UNCHANGED <<topo, island, frontier>>,
             pc' = "latency" => frontier = {} /\ Visited = Nodes
      PROVE  IslandInv'
  <2>1. \A m : Neighbours(m)' = Neighbours(m)
    BY <1>2 DEF Neighbours, Dependents, Producers
  <2>2. Visited' = Visited
    BY <1>2 DEF Visited
  <2>3. \A x, y : Together(x, y)' = Together(x, y)
    BY <2>1 DEF Together, Closed
  <2>4. Labelled' /\ Searched' /\ LinkedUp'
    BY <1>2, <2>1, <2>2, <2>3 DEF IslandInv, Labelled, Searched, LinkedUp
  <2> QED
    BY <2>4 DEF IslandInv
<1>3. CASE IslandsDone
  <2>1. UNCHANGED <<topo, island, frontier>> /\ frontier = {} /\ Unvisited = {}
    BY <1>3 DEF IslandsDone, islandVars
  <2>2. Visited = Nodes
    BY <2>1 DEF Unvisited, Visited
  <2> QED
    BY <1>2, <2>1, <2>2
<1>4. CASE \/ Refuse \/ BuildAdjacency
           \/ NotReady \/ PruneBypassed \/ Postpone \/ Place \/ CloseStage \/ EndLoop
           \/ CarryLatency \/ Align \/ Verify
           \/ Ended \/ UNCHANGED vars
  <2>1. UNCHANGED <<topo, island, frontier>> /\ (pc' = "latency" => pc = "latency")
    BY <1>4 DEF Refuse, BuildAdjacency, NotReady, PruneBypassed, Postpone, Place, CloseStage,
      EndLoop, CarryLatency, Align, Verify, Ended, Scanning, vars, islandVars
  <2> QED
    BY <1>2, <2>1 DEF IslandInv, Searched
<1> QED
  BY <1>1, <1>3, <1>4 DEF Next

\* The islands are the connected parts of the graph: two nodes are on one island
\* exactly if edges, in either direction, lead from one to the other.
THEOREM IslandsAreExact == Spec => []IslandsAreComponents
<1>1. ASSUME Init PROVE IslandInv
  <2>1. Visited = {} /\ frontier = {} /\ pc # "latency" /\ \A n \in Nodes : island[n] = 0
    BY <1>1 DEF Init, Visited
  <2>2. Cardinality(Visited) = 0
    BY <2>1, FS_EmptySet
  <2>3. Labelled
    BY <1>1, <2>1, <2>2 DEF Labelled, Init
  <2> QED
    BY <2>1, <2>3 DEF IslandInv, Searched, LinkedUp
<1>2. ASSUME IslandInv PROVE IslandsAreComponents
  <2> SUFFICES ASSUME pc = "latency", NEW m \in Nodes, NEW n \in Nodes
               PROVE  island[m] = island[n] <=> Together(m, n)
    BY DEF IslandsAreComponents, Together, Closed
  <2>1. frontier = {} /\ Visited = Nodes
    BY <1>2 DEF IslandInv, Searched
  <2>2. island[m] = island[n] => Together(m, n)
    BY <1>2, <2>1 DEF IslandInv, LinkedUp
  <2>3. ASSUME Together(m, n) PROVE island[m] = island[n]
    <3> DEFINE S == {x \in Nodes : island[x] = island[m]}
    <3>1. Closed(S)
      BY <1>2, <2>1 DEF IslandInv, Searched, Closed
    <3> QED
      BY <2>3, <3>1 DEF Together
  <2> QED
    BY <2>2, <2>3
<1> QED
  BY <1>1, <1>2, IslandNextInv, PTL DEF Spec

-----------------------------------------------------------------------------
(***************************************************************************)
(* Induction, by way of sets: a set of naturals that is not empty has a    *)
(* least element.                                                          *)
(***************************************************************************)
LEMMA LeastNat ==
  ASSUME NEW T, T \subseteq Nat, T # {}
  PROVE  \E x \in T : \A y \in T : x <= y
<1>1. PICK R : IsWellFoundedOn(R, Nat) /\ \A x, y \in Nat : y < x => <<y, x>> \in R
  <2>1. \A x, y \in Nat : y < x => <<y, x>> \in OpToRel(<, Nat)
    BY DEF OpToRel
  <2> QED
    BY <2>1, NatLessThanWellFounded, Zenon
<1>2. PICK x \in T : \A y \in T : ~ (<<y, x>> \in R)
  BY <1>1, WFMin
<1>3. \A y \in T : ~ (y < x)
  BY <1>1, <1>2
<1> QED
  BY <1>3

\* A set that holds 0 and, with a number, the next one holds them all.
LEMMA SetInduction ==
  ASSUME NEW S, 0 \in S, \A n \in Nat : n \in S => n + 1 \in S
  PROVE  Nat \subseteq S
<1> SUFFICES ASSUME ~ (Nat \subseteq S) PROVE FALSE
  OBVIOUS
<1>1. Nat \ S # {}
  OBVIOUS
<1>2. PICK x \in Nat \ S : \A y \in Nat \ S : x <= y
  BY <1>1, LeastNat
<1>3. x - 1 \in Nat /\ ~ (x <= x - 1)
  OBVIOUS
<1>4. x - 1 \in S
  BY <1>2, <1>3
<1> QED
  BY <1>2, <1>3, <1>4

\* Numbers assigned to the nodes have an upper bound.
LEMMA NodesBounded ==
  ASSUME NEW f \in [Nodes -> Nat] PROVE \E b \in Nat : \A n \in Nodes : f[n] <= b
<1> DEFINE S == {k \in Nat : \E b \in Nat : \A n \in Nodes : n < k => f[n] <= b}
<1>1. 0 \in S
  BY DEF Nodes
<1>2. ASSUME NEW k \in Nat, k \in S PROVE k + 1 \in S
  <2>1. PICK b \in Nat : \A n \in Nodes : n < k => f[n] <= b
    BY <1>2
  <2>2. CASE k \notin Nodes
    <3>1. \A n \in Nodes : n < k + 1 => n < k
      BY <2>2 DEF Nodes
    <3> QED
      BY <2>1, <3>1
  <2>3. CASE k \in Nodes
    <3>1. b + f[k] \in Nat /\ f[k] <= b + f[k] /\ f[k] \in Nat
      BY <2>3
    <3>2. \A n \in Nodes : n < k + 1 => n = k \/ n < k
      BY DEF Nodes
    <3>3. \A n \in Nodes : n < k + 1 => f[n] <= b + f[k]
      BY <2>1, <3>1, <3>2
    <3> QED
      BY <3>1, <3>3
  <2> QED
    BY <2>2, <2>3
<1> HIDE DEF S
<1>3. NumNodes \in S
  BY <1>1, <1>2, SetInduction, PlanAssumption
<1>4. PICK b \in Nat : \A n \in Nodes : n < NumNodes => f[n] <= b
  BY <1>3 DEF S
<1>5. \A n \in Nodes : n < NumNodes
  BY PlanAssumption DEF Nodes
<1> QED
  BY <1>4, <1>5

\* A set of numbers that is not empty has a largest one if it is bounded.
LEMMA LargestFacts ==
  ASSUME NEW T \in (SUBSET Nat) \ {{}}, NEW b \in Nat, \A x \in T : x <= b
  PROVE  Largest(T) \in T /\ \A y \in T : y <= Largest(T)
<1> DEFINE B == {k \in Nat : \A x \in T : x <= k}
<1>1. PICK k \in B : \A j \in B : k <= j
  <2>1. b \in B
    OBVIOUS
  <2> HIDE DEF B
  <2>2. B \subseteq Nat
    BY DEF B
  <2> QED
    BY <2>1, <2>2, LeastNat
<1>2. k \in Nat /\ \A x \in T : x <= k
  BY <1>1
<1>3. k \in T
  <2> SUFFICES ASSUME k \notin T PROVE FALSE
    OBVIOUS
  <2>1. \A x \in T : x \in Nat /\ x < k
    BY <1>2
  <2>2. k - 1 \in Nat /\ \A x \in T : x <= k - 1
    BY <1>2, <2>1
  <2>3. k <= k - 1
    BY <1>1, <2>2
  <2> QED
    BY <1>2, <2>3
<1>4. \E x \in T : \A y \in T : y <= x
  BY <1>2, <1>3
<1> QED
  BY <1>4, Zenon DEF Largest

-----------------------------------------------------------------------------
(***************************************************************************)
(* Delay compensation.                                                     *)
(***************************************************************************)
\* The producers of n in the stages that calculate_pdc has passed.
Passed(n) == {m \in Producers(topo, n) : \E j \in 1 .. cursor - 1 : m \in stages[j]}

\* The latency of a node is the latest arrival of what they write.
PathsCarried ==
    \A n \in Nodes :
      /\ \A m \in Passed(n) : Arrival(m) <= pathLatency[n]
      /\ pathLatency[n] = 0 \/ \E m \in Passed(n) : pathLatency[n] = Arrival(m)

Aligned ==
    \A n \in Nodes : \A b \in topo.reads[n] \cap Buffers :
      (\E m \in Nodes : b \in topo.writes[m]) =>
        delay[n][b] = IF Lack(n, b) > 0 THEN Lack(n, b) ELSE 0

CursorOK ==
    /\ cursor \in 1 .. Len(stages) + 1
    /\ pathLatency \in [Nodes -> Nat]
    /\ pc \in {"check", "scan", "islands", "refused", "cycle"} => cursor = 1
    /\ pc \in {"verify", "done"} => cursor = Len(stages) + 1 /\ Aligned

\* The range check comes first.
BuffersExist ==
    pc \notin {"check", "refused"} =>
      \A n \in Nodes : topo.reads[n] \cup topo.writes[n] \subseteq Buffers

TimingInv == CursorOK /\ PathsCarried /\ BuffersExist

\* The arrivals at the nodes are numbers with an upper bound.
LEMMA ArrivalFacts ==
  ASSUME PlanInv, CursorOK
  PROVE  /\ \A n \in Nodes : Arrival(n) \in Nat
         /\ \E b \in Nat : \A n \in Nodes : Arrival(n) <= b /\ pathLatency[n] <= b
<1>1. topo.latency \in [Nodes -> Nat]
  BY DEF PlanInv, PlanTypeOK, Topology
<1> DEFINE f == [n \in Nodes |-> Arrival(n)]
<1>2. ASSUME NEW n \in Nodes PROVE Arrival(n) \in Nat /\ pathLatency[n] <= Arrival(n)
  BY <1>1 DEF Arrival, CursorOK
<1>3. f \in [Nodes -> Nat] /\ \A n \in Nodes : f[n] = Arrival(n)
  BY <1>2
<1> HIDE DEF f
<1>4. PICK b \in Nat : \A n \in Nodes : f[n] <= b
  BY <1>3, NodesBounded
<1>5. ASSUME NEW n \in Nodes PROVE Arrival(n) <= b /\ pathLatency[n] <= b
  <2>1. pathLatency[n] \in Nat /\ Arrival(n) \in Nat /\ Arrival(n) <= b
    BY <1>2, <1>3, <1>4 DEF CursorOK
  <2> QED
    BY <1>2, <2>1
<1> QED
  BY <1>2, <1>5

\* A producer that the stages run is in an earlier stage than its reader.
LEMMA NoLateProducer ==
  ASSUME PlanInv, NEW j \in 1 .. Len(stages), NEW k \in j .. Len(stages), NEW n \in stages[j]
  PROVE  Producers(topo, n) \cap stages[k] = {}
<1> SUFFICES ASSUME NEW m \in Producers(topo, n), m \in stages[k] PROVE FALSE
  OBVIOUS
<1>1. Len(stages) \in Nat
  BY LenProperties DEF PlanInv, PlanTypeOK
<1>2. k \in 1 .. Len(stages)
  BY <1>1
<1>3. m \notin topo.bypass
  BY <1>2 DEF PlanInv, RunOnce
<1>4. PICK i \in 1 .. j - 1 : m \in stages[i]
  BY <1>3 DEF PlanInv, ProducersRunFirst
<1>5. i \in 1 .. Len(stages) /\ i # k
  BY <1>1, <1>4
<1> QED
  BY <1>2, <1>4, <1>5 DEF PlanInv, RunOnce

\* What a pass makes of the latency of a node.
LEMMA CarryEffect ==
  ASSUME PlanInv, CursorOK, CarryLatency, NEW n \in Nodes
  PROVE  /\ pathLatency'[n] \in {pathLatency[n]}
              \cup {Arrival(m) : m \in Producers(topo, n) \cap stages[cursor]}
         /\ pathLatency'[n] \in Nat
         /\ pathLatency[n] <= pathLatency'[n]
         /\ \A m \in Producers(topo, n) \cap stages[cursor] : Arrival(m) <= pathLatency'[n]
<1> DEFINE T == {pathLatency[n]}
                  \cup {Arrival(m) : m \in Producers(topo, n) \cap stages[cursor]}
<1>1. pathLatency'[n] = Largest(T)
  BY DEF CarryLatency
<1>2. PICK b \in Nat : \A m \in Nodes : Arrival(m) <= b /\ pathLatency[m] <= b
  BY ArrivalFacts
<1>3. T \in (SUBSET Nat) \ {{}} /\ \A x \in T : x <= b
  <2>1. \A m \in Producers(topo, n) : m \in Nodes
    BY DEF Producers
  <2>2. pathLatency[n] \in Nat
    BY DEF CursorOK
  <2> QED
    BY <1>2, <2>1, <2>2, ArrivalFacts
<1> HIDE DEF T
<1>4. Largest(T) \in T /\ \A y \in T : y <= Largest(T)
  BY <1>3, LargestFacts
<1>5. /\ pathLatency[n] \in T
      /\ \A m \in Producers(topo, n) \cap stages[cursor] : Arrival(m) \in T
  BY DEF T
<1> QED
  BY <1>1, <1>3, <1>4, <1>5 DEF T

\* A pass along the stages carries the latencies one stage further, and
\* leaves those of the stages it has passed alone.
LEMMA CarryTiming ==
  ASSUME PlanInv, TimingInv, CarryLatency PROVE TimingInv'
<1> USE DEF TimingInv
<1>1. /\ pc = "latency" /\ pc' = pc /\ topo' = topo /\ stages' = stages
      /\ cursor' = cursor + 1 /\ cursor <= Len(stages)
  BY DEF CarryLatency, kahnVars
<1>2. Len(stages) \in Nat /\ cursor \in 1 .. Len(stages)
  BY <1>1, LenProperties DEF PlanInv, PlanTypeOK, CursorOK
<1>3. CursorOK'
  <2>1. pathLatency' \in [Nodes -> Nat]
    <3>1. DOMAIN pathLatency' = Nodes /\ pathLatency' = [n \in Nodes |-> pathLatency'[n]]
      BY DEF CarryLatency
    <3> QED
      BY <3>1, CarryEffect
  <2> QED
    BY <1>1, <1>2, <2>1 DEF CursorOK
<1>4. ASSUME NEW j \in 1 .. cursor, NEW m \in stages[j], m \in Nodes
      PROVE  Arrival(m)' = Arrival(m)
  <2>1. j \in 1 .. Len(stages) /\ cursor \in j .. Len(stages)
    BY <1>2
  <2>2. Producers(topo, m) \cap stages[cursor] = {}
    BY <2>1, NoLateProducer
  <2>3. pathLatency'[m] = pathLatency[m]
    BY <1>4, <2>2, CarryEffect
  <2> QED
    BY <1>1, <2>3 DEF Arrival
<1>5. ASSUME NEW n \in Nodes
      PROVE  Passed(n)' = Passed(n) \cup (Producers(topo, n) \cap stages[cursor])
  <2>1. \A j : j \in 1 .. cursor' - 1 <=> j \in 1 .. cursor - 1 \/ j = cursor
    BY <1>1, <1>2
  <2> QED
    BY <1>1, <2>1 DEF Passed, Producers
<1>6. ASSUME NEW n \in Nodes, NEW m \in Passed(n)'
      PROVE  m \in Nodes /\ Arrival(m)' = Arrival(m) /\ Arrival(m) \in Nat
  <2>1. m \in Nodes
    BY <1>6 DEF Passed, Producers
  <2>2. PICK j \in 1 .. cursor' - 1 : m \in stages[j]
    BY <1>1, <1>6 DEF Passed
  <2>3. j \in 1 .. cursor
    BY <1>1, <1>2, <2>2
  <2> QED
    BY <1>4, <2>1, <2>2, <2>3, ArrivalFacts
<1>7. ASSUME NEW n \in Nodes, NEW m \in Passed(n)'
      PROVE  Arrival(m)' <= pathLatency'[n]
  <2>1. CASE m \in Passed(n)
    <3>1. /\ Arrival(m) <= pathLatency[n] /\ pathLatency[n] <= pathLatency'[n]
          /\ pathLatency[n] \in Nat /\ pathLatency'[n] \in Nat
      BY <2>1, CarryEffect DEF PathsCarried, CursorOK
    <3> QED
      BY <1>6, <1>7, <3>1
  <2>2. CASE m \in Producers(topo, n) \cap stages[cursor]
    BY <1>6, <1>7, <2>2, CarryEffect
  <2> QED
    BY <1>5, <1>7, <2>1, <2>2
<1>8. ASSUME NEW n \in Nodes, pathLatency'[n] # 0
      PROVE  \E m \in Passed(n)' : pathLatency'[n] = Arrival(m)'
  <2>1. CASE pathLatency'[n] = pathLatency[n]
    <3>1. PICK m \in Passed(n) : pathLatency[n] = Arrival(m)
      BY <1>8, <2>1 DEF PathsCarried
    <3> QED
      BY <1>5, <1>6, <2>1, <3>1
  <2>2. CASE pathLatency'[n] # pathLatency[n]
    <3>1. PICK m \in Producers(topo, n) \cap stages[cursor] : pathLatency'[n] = Arrival(m)
      BY <2>2, CarryEffect
    <3> QED
      BY <1>5, <1>6, <3>1
  <2> QED
    BY <2>1, <2>2
<1>9. PathsCarried'
  BY <1>7, <1>8 DEF PathsCarried
<1>10. BuffersExist'
  BY <1>1 DEF BuffersExist
<1> QED
  BY <1>3, <1>9, <1>10

\* Steps outside calculate_pdc, which moves no cursor and no latency.
LEMMA OtherTiming ==
  ASSUME PlanInv, TimingInv, UNCHANGED <<topo, cursor, pathLatency, delay>>,
         stages' = stages \/ (cursor = 1 /\ stages' \in Seq(SUBSET Nodes)),
         pc' \in {"check", "scan", "islands", "refused", "cycle"} => cursor = 1,
         pc' \in {"verify", "done"} => pc \in {"verify", "done"} /\ stages' = stages,
         pc' \in {"check", "refused"} \/ pc \notin {"check", "refused"} \/ ~Refused
  PROVE  TimingInv'
<1> USE DEF TimingInv
<1>1. CursorOK'
  <2>1. cursor \in 1 .. Len(stages') + 1
    BY LenProperties DEF CursorOK
  <2>2. Aligned /\ stages' = stages => Aligned'
    BY DEF Aligned, Lack, Arrival, LastWriter
  <2> QED
    BY <2>1, <2>2 DEF CursorOK
<1>2. PathsCarried'
  <2>1. \A n : Passed(n)' = Passed(n)
    <3>1. CASE stages' = stages
      BY <3>1 DEF Passed, Producers
    <3>2. CASE cursor = 1
      BY <3>2 DEF Passed
    <3> QED
      BY <3>1, <3>2
  <2>2. \A m : Arrival(m)' = Arrival(m)
    BY DEF Arrival
  <2> QED
    BY <2>1, <2>2 DEF PathsCarried
<1>3. BuffersExist'
  <2>1. CASE ~Refused
    <3>1. \A n \in Nodes : topo.reads[n] \cup topo.writes[n] \subseteq Buffers \cup {NoSuchBuffer}
      BY DEF PlanInv, PlanTypeOK, Topology
    <3>2. \A n \in Nodes : NoSuchBuffer \notin topo.reads[n] \cup topo.writes[n]
      BY <2>1 DEF Refused, OutOfRange
    <3> QED
      BY <3>1, <3>2 DEF BuffersExist
  <2>2. CASE Refused
    BY <2>2 DEF BuffersExist
  <2> QED
    BY <2>1, <2>2
<1> QED
  BY <1>1, <1>2, <1>3

\* The delays are what each input lacks to the latest one.
LEMMA AlignTiming ==
  ASSUME PlanInv, TimingInv, Align PROVE TimingInv'
<1> USE DEF TimingInv
<1>1. /\ UNCHANGED <<topo, stages, cursor, pathLatency>>
      /\ pc = "latency" /\ pc' = "verify" /\ cursor > Len(stages)
  BY DEF Align, kahnVars
<1>2. cursor = Len(stages) + 1
  BY <1>1, LenProperties DEF CursorOK, PlanInv, PlanTypeOK
<1>3. Aligned'
  <2>1. ASSUME NEW n \in Nodes, NEW b \in topo.reads[n] \cap Buffers,
               \E m \in Nodes : b \in topo.writes[m]
        PROVE  delay'[n][b] = IF Lack(n, b) > 0 THEN Lack(n, b) ELSE 0
    BY <2>1 DEF Align
  <2>2. \A n, b : Lack(n, b)' = Lack(n, b)
    BY <1>1 DEF Lack, Arrival, LastWriter
  <2> QED
    BY <1>1, <2>1, <2>2 DEF Aligned
<1>4. CursorOK'
  BY <1>1, <1>2, <1>3 DEF CursorOK
<1>5. PathsCarried' /\ BuffersExist'
  BY <1>1 DEF PathsCarried, Passed, Arrival, Producers, BuffersExist
<1> QED
  BY <1>4, <1>5

LEMMA NextTiming ==
  ASSUME PlanInv, PlanInv', TimingInv, [Next]_vars PROVE TimingInv'
<1> USE DEF TimingInv, CursorOK
<1>1. CASE CarryLatency
  BY <1>1, CarryTiming
<1>2. CASE Align
  BY <1>2, AlignTiming
<1>3. CASE Refuse
  BY <1>3, OtherTiming DEF Refuse, kahnVars, pdcVars
<1>4. CASE BuildAdjacency
  BY <1>4, OtherTiming DEF BuildAdjacency, pdcVars
<1>5. CASE NotReady \/ PruneBypassed \/ Postpone \/ Place
  BY <1>5, OtherTiming DEF NotReady, PruneBypassed, Postpone, Place, Scanning, pdcVars
<1>6. CASE CloseStage
  <2>1. /\ UNCHANGED <<topo, pdcVars>> /\ pc = "scan" /\ pc' \in {"scan", "islands"}
    BY <1>6 DEF CloseStage
  <2>2. stages' \in Seq(SUBSET Nodes)
    BY DEF PlanInv, PlanTypeOK
  <2> QED
    BY <2>1, <2>2, OtherTiming DEF pdcVars
<1>7. CASE EndLoop
  BY <1>7, OtherTiming DEF EndLoop, kahnVars, pdcVars
<1>8. CASE \E n \in Nodes : OpenIsland(n) \/ GrowIsland(n)
  BY <1>8, OtherTiming DEF OpenIsland, GrowIsland, kahnVars, pdcVars
<1>9. CASE IslandsDone
  BY <1>9, OtherTiming DEF IslandsDone, kahnVars, pdcVars
<1>10. CASE Verify
  BY <1>10, OtherTiming DEF Verify, kahnVars, pdcVars
<1>11. CASE Ended \/ UNCHANGED vars
  BY <1>11, OtherTiming DEF Ended, vars, kahnVars, pdcVars
<1> QED
  BY <1>1, <1>2, <1>3, <1>4, <1>5, <1>6, <1>7, <1>8, <1>9, <1>10, <1>11 DEF Next

\* The latencies are carried along the stages, in the whole of a compile.
LEMMA TimingHolds == Spec => [](PlanInv /\ TimingInv)
<1>1. Init /\ PlanInv => TimingInv
  <2> SUFFICES ASSUME Init, PlanInv PROVE TimingInv
    OBVIOUS
  <2>1. /\ cursor = 1 /\ pc = "check" /\ pathLatency = [n \in Nodes |-> 0]
        /\ Len(stages) \in Nat
    BY LenProperties DEF Init, PlanInv, PlanTypeOK
  <2>2. \A n : Passed(n) = {}
    BY <2>1 DEF Passed
  <2> QED
    BY <2>1, <2>2 DEF TimingInv, CursorOK, PathsCarried, BuffersExist
<1>2. Spec => []PlanInv
  BY CompileRefines, StagedPlanIsSafe, PTL DEF BuildsStagedPlan
<1>3. PlanInv /\ PlanInv' /\ TimingInv /\ [Next]_vars => TimingInv'
  BY NextTiming
<1> QED
  BY <1>1, <1>2, <1>3, PTL DEF Spec

\* The writer of a buffer that only one node writes.
LEMMA OneWriter ==
  ASSUME PlanInv, OwnBuffers, NEW w \in Nodes, NEW b \in topo.writes[w]
  PROVE  LastWriter(b) = w
<1> DEFINE W == {n \in Nodes : b \in topo.writes[n]}
<1>1. W = {w}
  BY DEF OwnBuffers
<1>2. w \in Nat
  BY DEF Nodes
<1>3. {w} \in (SUBSET Nat) \ {{}} /\ \A x \in {w} : x <= w
  BY <1>2
<1>4. Largest({w}) \in {w}
  BY <1>2, <1>3, LargestFacts
<1> QED
  BY <1>1, <1>4 DEF LastWriter

\* Who is heard on a buffer: its writer, if an earlier stage runs it.
LEMMA HeardFacts ==
  ASSUME PlanInv, OwnBuffers, NEW k \in 1 .. Len(stages), NEW b
  PROVE  /\ \A m \in Heard(b, k) : /\ m \in Nodes /\ b \in topo.writes[m]
                                   /\ \E j \in 1 .. k - 1 : m \in stages[j]
         /\ \A j \in 1 .. k - 1 : \A w \in stages[j] :
              b \in topo.writes[w] => w \in Heard(b, k)
<1> DEFINE by(j) == {m \in stages[j] : b \in topo.writes[m]}
           last == {j \in 1 .. k - 1 : by(j) # {}}
<1>1. Heard(b, k) = IF last = {} THEN {} ELSE by(Largest(last))
  BY DEF Heard
<1>2. Len(stages) \in Nat /\ k \in Nat
  BY LenProperties DEF PlanInv, PlanTypeOK
<1>3. \A j \in 1 .. k - 1 : j \in Nat /\ j <= k /\ j \in 1 .. Len(stages)
  BY <1>2
<1>4. \A j \in 1 .. k - 1 : stages[j] \subseteq Nodes
  BY <1>3, ElementOfSeq DEF PlanInv, PlanTypeOK
<1>5. ASSUME last # {} PROVE Largest(last) \in last
  <2>1. last \in (SUBSET Nat) \ {{}} /\ \A x \in last : x <= k
    BY <1>3, <1>5
  <2> HIDE DEF last
  <2> QED
    BY <1>2, <2>1, LargestFacts
<1>6. ASSUME NEW m \in Heard(b, k)
      PROVE  /\ m \in Nodes /\ b \in topo.writes[m]
             /\ \E j \in 1 .. k - 1 : m \in stages[j]
  <2>1. last # {} /\ m \in by(Largest(last))
    BY <1>1, <1>6
  <2>2. Largest(last) \in 1 .. k - 1
    BY <1>5, <2>1
  <2>3. m \in stages[Largest(last)] /\ b \in topo.writes[m]
    BY <2>1
  <2> QED
    BY <1>4, <2>2, <2>3
<1>7. ASSUME NEW j \in 1 .. k - 1, NEW w \in stages[j], b \in topo.writes[w]
      PROVE  w \in Heard(b, k)
  <2>1. last # {}
    BY <1>7
  <2>2. PICK m : m \in by(Largest(last))
    <3>1. Largest(last) \in last
      BY <1>5, <2>1
    <3> QED
      BY <3>1
  <2>3. Heard(b, k) = by(Largest(last))
    BY <1>1, <2>1
  <2>4. m \in Nodes /\ b \in topo.writes[m]
    BY <1>6, <2>2, <2>3
  <2>5. m = w
    BY <1>4, <1>7, <2>4 DEF OwnBuffers
  <2> QED
    BY <2>2, <2>3, <2>5
<1> QED
  BY <1>6, <1>7

\* What reaches a node, if every node before it puts out at its arrival.
LEMMA InputsMeet ==
  ASSUME PlanInv, TimingInv, pc = "done", OwnBuffers,
         NEW k \in 1 .. Len(stages), NEW n \in stages[k], NEW time,
         \A j \in 1 .. k - 1 : \A m \in stages[j] : time[m] = Arrival(m)
  PROVE  /\ InputTimes(time, n, k) \subseteq {pathLatency[n]}
         /\ Largest({0} \cup InputTimes(time, n, k)) = pathLatency[n]
<1>1. Len(stages) \in Nat /\ k \in Nat /\ cursor = Len(stages) + 1 /\ Aligned /\ n \in Nodes
  BY LenProperties, ElementOfSeq DEF PlanInv, PlanTypeOK, TimingInv, CursorOK
<1>2. pathLatency[n] \in Nat
  BY <1>1 DEF TimingInv, CursorOK
<1>3. /\ topo.reads[n] \subseteq Buffers
      /\ topo.bypass = {}
  BY <1>1 DEF TimingInv, BuffersExist, OwnBuffers
<1>4. ASSUME NEW b \in topo.reads[n], NEW m \in Heard(b, k)
      PROVE  time[m] + delay[n][b] = pathLatency[n]
  <2>1. PICK j \in 1 .. k - 1 : m \in stages[j]
    BY HeardFacts
  <2>2. m \in Nodes /\ b \in topo.writes[m]
    BY HeardFacts
  <2>3. m # n
    BY <1>1, <1>4, <2>2 DEF OwnBuffers
  <2>4. m \in Producers(topo, n)
    BY <1>4, <2>2, <2>3 DEF Producers
  <2>5. j \in 1 .. cursor - 1
    BY <1>1
  <2>6. Arrival(m) <= pathLatency[n]
    BY <1>1, <2>1, <2>4, <2>5 DEF TimingInv, PathsCarried, Passed
  <2>7. Lack(n, b) = pathLatency[n] - Arrival(m)
    BY <2>2, OneWriter DEF Lack
  <2>8. delay[n][b] = IF Lack(n, b) > 0 THEN Lack(n, b) ELSE 0
    BY <1>1, <1>3, <1>4, <2>2 DEF Aligned
  <2>9. Arrival(m) \in Nat
    BY <2>2, ArrivalFacts DEF TimingInv
  <2>10. time[m] = Arrival(m)
    BY <2>1
  <2> QED
    BY <1>2, <2>6, <2>7, <2>8, <2>9, <2>10
<1>5. InputTimes(time, n, k) \subseteq {pathLatency[n]}
  BY <1>4 DEF InputTimes
<1>6. ASSUME pathLatency[n] # 0 PROVE pathLatency[n] \in InputTimes(time, n, k)
  <2>1. PICK m \in Passed(n) : pathLatency[n] = Arrival(m)
    BY <1>1, <1>6 DEF TimingInv, PathsCarried
  <2>2. m \in Producers(topo, n)
    BY DEF Passed
  <2>3. PICK b : b \in topo.writes[m] \cap topo.reads[n]
    BY <2>2 DEF Producers
  <2>4. PICK j \in 1 .. k - 1 : m \in stages[j]
    BY <1>3, <2>2 DEF PlanInv, ProducersRunFirst
  <2>5. m \in Heard(b, k)
    BY <2>3, <2>4, HeardFacts
  <2>6. time[m] + delay[n][b] = pathLatency[n]
    BY <1>4, <2>3, <2>5
  <2> QED
    BY <2>3, <2>5, <2>6 DEF InputTimes
<1>7. Largest({0} \cup InputTimes(time, n, k)) = pathLatency[n]
  <2> DEFINE T == {0} \cup InputTimes(time, n, k)
  <2>1. T = {0, pathLatency[n]}
    BY <1>5, <1>6
  <2>2. {0, pathLatency[n]} \in (SUBSET Nat) \ {{}}
        /\ \A x \in {0, pathLatency[n]} : x <= pathLatency[n]
    BY <1>2
  <2>3. /\ Largest({0, pathLatency[n]}) \in {0, pathLatency[n]}
        /\ \A y \in {0, pathLatency[n]} : y <= Largest({0, pathLatency[n]})
    BY <1>2, <2>2, LargestFacts
  <2>4. Largest({0, pathLatency[n]}) = pathLatency[n]
    BY <1>2, <2>3
  <2> QED
    BY <2>1, <2>4
<1> QED
  BY <1>5, <1>7

\* The times at which the stages put out are well defined: the equation that
\* defines them has a solution.
LEMMA OutputTimeExists ==
  ASSUME PlanInv, TimingInv, pc = "done", OwnBuffers
  PROVE  OutputTime = [k \in 0 .. Len(stages) |->
           IF k = 0 THEN [n \in Nodes |-> 0]
           ELSE [n \in Nodes |->
                   IF n \in stages[k]
                   THEN topo.latency[n] + Largest({0} \cup InputTimes(OutputTime[k - 1], n, k))
                   ELSE OutputTime[k - 1][n]]]
<1> DEFINE w == [k \in 0 .. Len(stages) |-> [n \in Nodes |->
                   IF \E j \in 1 .. k : n \in stages[j] THEN Arrival(n) ELSE 0]]
           E(f) == [k \in 0 .. Len(stages) |->
                      IF k = 0 THEN [n \in Nodes |-> 0]
                      ELSE [n \in Nodes |->
                              IF n \in stages[k]
                              THEN topo.latency[n]
                                     + Largest({0} \cup InputTimes(f[k - 1], n, k))
                              ELSE f[k - 1][n]]]
<1>1. Len(stages) \in Nat
  BY LenProperties DEF PlanInv, PlanTypeOK
<1>2. \A j \in 1 .. Len(stages) : stages[j] \subseteq Nodes
  BY ElementOfSeq DEF PlanInv, PlanTypeOK
<1>3. ASSUME NEW k \in 0 .. Len(stages), k # 0, NEW n \in Nodes
      PROVE  w[k][n] = IF n \in stages[k]
                       THEN topo.latency[n] + Largest({0} \cup InputTimes(w[k - 1], n, k))
                       ELSE w[k - 1][n]
  <2>1. k \in 1 .. Len(stages) /\ k - 1 \in 0 .. Len(stages)
    BY <1>1, <1>3
  <2>2. CASE n \in stages[k]
    <3>1. ASSUME NEW j \in 1 .. k - 1, NEW m \in stages[j] PROVE w[k - 1][m] = Arrival(m)
      <4>1. m \in Nodes
        BY <1>1, <1>2, <2>1
      <4> QED
        BY <2>1, <4>1
    <3> HIDE DEF w
    <3>2. Largest({0} \cup InputTimes(w[k - 1], n, k)) = pathLatency[n]
      BY <2>1, <2>2, <3>1, InputsMeet
    <3>3. topo.latency[n] + pathLatency[n] = Arrival(n)
      <4>1. topo.latency[n] \in Nat /\ pathLatency[n] \in Nat
        BY <1>3 DEF PlanInv, PlanTypeOK, Topology, TimingInv, CursorOK
      <4> QED
        BY <4>1 DEF Arrival
    <3>4. w[k][n] = Arrival(n)
      <4>1. k \in 1 .. k
        BY <2>1
      <4> QED
        BY <2>2, <4>1 DEF w
    <3> QED
      BY <2>2, <3>2, <3>3, <3>4
  <2>3. CASE n \notin stages[k]
    <3>1. (\E j \in 1 .. k : n \in stages[j]) <=> \E j \in 1 .. k - 1 : n \in stages[j]
      <4>1. \A j : j \in 1 .. k <=> j \in 1 .. k - 1 \/ j = k
        BY <1>1, <2>1
      <4> QED
        BY <2>3, <4>1
    <3> QED
      BY <2>1, <2>3, <3>1
  <2> QED
    BY <2>2, <2>3
<1>4. \A n \in Nodes : w[0][n] = 0
  BY <1>1
<1>5. w = E(w)
  <2>1. /\ DOMAIN w = 0 .. Len(stages) /\ DOMAIN E(w) = 0 .. Len(stages)
        /\ w = [k \in 0 .. Len(stages) |-> w[k]]
    OBVIOUS
  <2>2. ASSUME NEW k \in 0 .. Len(stages) PROVE w[k] = E(w)[k]
    <3>1. w[k] = [n \in Nodes |-> w[k][n]]
      BY <2>2
    <3>2. CASE k = 0
      <4>1. E(w)[k] = [n \in Nodes |-> 0]
        BY <3>2
      <4> HIDE DEF w, E
      <4> QED
        BY <1>4, <3>1, <3>2, <4>1
    <3>3. CASE k # 0
      <4>1. E(w)[k] = [n \in Nodes |->
                 IF n \in stages[k]
                 THEN topo.latency[n] + Largest({0} \cup InputTimes(w[k - 1], n, k))
                 ELSE w[k - 1][n]]
        BY <3>3
      <4> HIDE DEF w, E
      <4> QED
        BY <1>3, <3>1, <3>3, <4>1
    <3> QED
      BY <3>2, <3>3
  <2>3. E(w) = [k \in 0 .. Len(stages) |-> E(w)[k]]
    OBVIOUS
  <2> HIDE DEF w, E
  <2> QED
    BY <2>1, <2>2, <2>3
<1> HIDE DEF w
<1>6. OutputTime = CHOOSE f : f = E(f)
  BY DEF OutputTime
<1> HIDE DEF E
<1>7. OutputTime = E(OutputTime)
  BY <1>5, <1>6, Zenon
<1> QED
  BY <1>7 DEF E

\* Every node puts out when its latency says.
LEMMA OutputAtArrival ==
  ASSUME PlanInv, TimingInv, pc = "done", OwnBuffers
  PROVE  \A k \in 0 .. Len(stages) : \A j \in 1 .. k : \A m \in stages[j] :
           OutputTime[k][m] = Arrival(m)
<1> DEFINE Right(k) == \A j \in 1 .. k : \A m \in stages[j] : OutputTime[k][m] = Arrival(m)
           S == {k \in Nat : k <= Len(stages) => Right(k)}
<1>1. Len(stages) \in Nat
  BY LenProperties DEF PlanInv, PlanTypeOK
<1>2. \A j \in 1 .. Len(stages) : stages[j] \subseteq Nodes
  BY ElementOfSeq DEF PlanInv, PlanTypeOK
<1>3. 0 \in S
  OBVIOUS
<1>4. ASSUME NEW i \in Nat, i \in S PROVE i + 1 \in S
  <2> DEFINE k == i + 1
  <2> SUFFICES ASSUME k <= Len(stages) PROVE Right(k)
    OBVIOUS
  <2>1. k \in 1 .. Len(stages) /\ k # 0 /\ k - 1 = i /\ k \in 0 .. Len(stages) /\ Right(i)
    BY <1>1, <1>4
  <2>2. OutputTime[k] = [n \in Nodes |->
                   IF n \in stages[k]
                   THEN topo.latency[n] + Largest({0} \cup InputTimes(OutputTime[i], n, k))
                   ELSE OutputTime[i][n]]
    <3> HIDE DEF k, Right, S
    <3>1. OutputTime[k] = IF k = 0 THEN [n \in Nodes |-> 0]
            ELSE [n \in Nodes |->
                   IF n \in stages[k]
                   THEN topo.latency[n] + Largest({0} \cup InputTimes(OutputTime[k - 1], n, k))
                   ELSE OutputTime[k - 1][n]]
      BY <2>1, OutputTimeExists, Zenon
    <3> QED
      BY <2>1, <3>1, Zenon
  <2> SUFFICES ASSUME NEW j \in 1 .. k, NEW m \in stages[j] PROVE OutputTime[k][m] = Arrival(m)
    OBVIOUS
  <2>3. j \in 1 .. Len(stages) /\ m \in Nodes
    BY <1>1, <1>2, <2>1
  <2>4. CASE j = k
    <3>1. Largest({0} \cup InputTimes(OutputTime[i], m, k)) = pathLatency[m]
      <4>1. \A l \in 1 .. k - 1 : \A x \in stages[l] : OutputTime[i][x] = Arrival(x)
        BY <2>1
      <4>2. m \in stages[k]
        BY <2>4
      <4> HIDE DEF k, Right
      <4> QED
        BY <2>1, <4>1, <4>2, InputsMeet
    <3>2. OutputTime[k][m] = topo.latency[m] + pathLatency[m]
      <4> HIDE DEF k
      <4> QED
        BY <2>2, <2>3, <2>4, <3>1
    <3>3. topo.latency[m] \in Nat /\ pathLatency[m] \in Nat
      BY <2>3 DEF PlanInv, PlanTypeOK, Topology, TimingInv, CursorOK
    <3> QED
      BY <3>2, <3>3 DEF Arrival
  <2>5. CASE j # k
    <3>1. j \in 1 .. i
      BY <2>5
    <3>2. m \notin stages[k]
      <4> HIDE DEF k
      <4> QED
        BY <2>1, <2>3, <2>5 DEF PlanInv, RunOnce
    <3>3. OutputTime[k][m] = OutputTime[i][m]
      <4> HIDE DEF k
      <4> QED
        BY <2>2, <2>3, <3>2
    <3> QED
      BY <2>1, <3>1, <3>3
  <2> QED
    BY <2>4, <2>5
<1>5. ASSUME NEW k \in 0 .. Len(stages) PROVE Right(k)
  <2> HIDE DEF Right
  <2>1. k \in Nat /\ k <= Len(stages)
    BY <1>1, <1>5
  <2> HIDE DEF S
  <2>2. k \in S
    BY <1>3, <1>4, <2>1, SetInduction
  <2> QED
    BY <2>1, <2>2 DEF S
<1> QED
  BY <1>5

\* Delay compensation does its job: whatever the graph, its latencies and the
\* stages compile found for it, the inputs a node sums carry what entered the
\* graph at the same time, in every graph whose buffers have one writer each.
THEOREM InputsArriveTogether == Spec => []InputsAligned
<1>1. PlanInv /\ TimingInv => InputsAligned
  <2> SUFFICES ASSUME PlanInv, TimingInv, pc = "done", OwnBuffers,
                      NEW k \in 1 .. Len(stages), NEW n \in stages[k],
                      NEW x \in InputTimes(OutputTime[k - 1], n, k),
                      NEW y \in InputTimes(OutputTime[k - 1], n, k)
               PROVE  x = y
    BY DEF InputsAligned
  <2>1. k - 1 \in 0 .. Len(stages)
    BY LenProperties DEF PlanInv, PlanTypeOK
  <2>2. \A j \in 1 .. k - 1 : \A m \in stages[j] : OutputTime[k - 1][m] = Arrival(m)
    BY <2>1, OutputAtArrival
  <2>3. InputTimes(OutputTime[k - 1], n, k) \subseteq {pathLatency[n]}
    BY <2>2, InputsMeet
  <2> QED
    BY <2>3
<1> QED
  BY <1>1, TimingHolds, PTL

=============================================================================
