---------------------------- MODULE GraphCompiler ----------------------------
(***************************************************************************)
(* GraphCompiler::compile: from the routing of a graph to the stages the   *)
(* audio thread runs and the delays that align what a node sums.           *)
(*                                                                         *)
(* Kahn's algorithm, one pass per stage.  A pass scans the nodes in index  *)
(* order; a node nothing is waited for joins the stage unless it collides  *)
(* with one that joined before it, in which case a later pass takes it.    *)
(* Bypassed nodes are passed over during the scan.  A pass that places     *)
(* nobody ends the loop.  Then islands, latencies, the hazard check.       *)
(*                                                                         *)
(* A stage is a set (nothing below tells its order), buffers are their     *)
(* physical buffers (virtual_to_physical is the identity wherever a graph  *)
(* is built), and a delay belongs to the buffer read, not to the slot.     *)
(***************************************************************************)
EXTENDS StagedPlan

CONSTANTS
    MaxChannels,   \* MAX_CHANNELS: slots of a node, inputs and sidechains
    Inputs         \* bound: sets of graphs to compile

ASSUME CompilerAssumption ==
    /\ NumNodes > 0
    /\ MaxChannels \in Nat
    /\ \A graphs \in Inputs : graphs \subseteq Topology

VARIABLES
    pc,
    scan,          \* the node the pass looks at, `i`
    inDegree,      \* in_degree
    stage,         \* stage_nodes, and what they read and write
    island,        \* node_islands, 0 where not visited
    frontier,      \* the breadth-first queue of identify_islands
    cursor,        \* the stage calculate_pdc looks at
    pathLatency,   \* path_latencies
    delay          \* input_delays, by buffer read

kahnVars == <<settled, stages, stage, scan, inDegree>>
islandVars == <<island, frontier>>
pdcVars == <<cursor, pathLatency, delay>>
vars == <<topo, pc, kahnVars, islandVars, pdcVars>>

Init ==
    /\ \E graphs \in Inputs : topo \in graphs
    /\ pc = "check"
    /\ settled = {} /\ stages = <<>> /\ stage = {} /\ scan = 0
    /\ inDegree = [n \in Nodes |-> 0]
    /\ island = [n \in Nodes |-> 0] /\ frontier = {}
    /\ cursor = 1
    /\ pathLatency = [n \in Nodes |-> 0]
    /\ delay = [n \in Nodes |-> [b \in Buffers |-> 0]]

-----------------------------------------------------------------------------
TooManySlots(n) == topo.slots[n] > MaxChannels
OutOfRange(n) == NoSuchBuffer \in topo.reads[n] \cup topo.writes[n]

Refused == \E n \in Nodes : TooManySlots(n) \/ OutOfRange(n)

Refuse ==
    /\ pc = "check"
    /\ Refused
    /\ pc' = "refused"
    /\ UNCHANGED <<topo, kahnVars, islandVars, pdcVars>>

BuildAdjacency ==
    /\ pc = "check"
    /\ ~Refused
    /\ pc' = "scan"
    /\ inDegree' = [n \in Nodes |-> Cardinality(Producers(topo, n))]
    /\ UNCHANGED <<topo, settled, stages, stage, scan, islandVars, pdcVars>>

Dependents(n) == {m \in Nodes : n \in Producers(topo, m)}

\* in_degree after the nodes of S are done: one less for each producer in S.
Released(S) == [n \in Nodes |-> inDegree[n] - Cardinality(Producers(topo, n) \cap S)]

\* Mutated form: one producer too few is waited for.
ReadyEarly(n) == n \notin settled /\ inDegree[n] <= 1

Ready(n) == n \notin settled /\ inDegree[n] = 0

Written == UNION {topo.writes[m] : m \in stage}
Read    == UNION {topo.reads[m] : m \in stage}

\* Mutated form: outputs are compared with inputs only.
CollidesWithReads(n) == topo.writes[n] \cap Read # {} \/ topo.reads[n] \cap Written # {}

Collides(n) ==
    \/ topo.writes[n] \cap (Written \cup Read) # {}
    \/ topo.reads[n] \cap Written # {}

Scanning == pc = "scan" /\ scan \in Nodes

NotReady ==
    /\ Scanning
    /\ ~Ready(scan)
    /\ scan' = scan + 1
    /\ UNCHANGED <<topo, pc, settled, stages, stage, inDegree, islandVars, pdcVars>>

\* Mutated form: the producers of the node are not waited for.
PruneEagerly ==
    /\ Scanning
    /\ scan \in topo.bypass \ settled
    /\ settled' = settled \cup {scan}
    /\ inDegree' = Released({scan})
    /\ scan' = scan + 1
    /\ UNCHANGED <<topo, pc, stages, stage, islandVars, pdcVars>>

\* A bypassed node is done as soon as it is seen, within the pass.
PruneBypassed ==
    /\ Scanning
    /\ Ready(scan) /\ scan \in topo.bypass
    /\ settled' = settled \cup {scan}
    /\ inDegree' = Released({scan})
    /\ scan' = scan + 1
    /\ UNCHANGED <<topo, pc, stages, stage, islandVars, pdcVars>>

Postpone ==
    /\ Scanning
    /\ Ready(scan) /\ scan \notin topo.bypass
    /\ Collides(scan)
    /\ scan' = scan + 1
    /\ UNCHANGED <<topo, pc, settled, stages, stage, inDegree, islandVars, pdcVars>>

Place ==
    /\ Scanning
    /\ Ready(scan) /\ scan \notin topo.bypass
    /\ ~Collides(scan)
    /\ stage' = stage \cup {scan}
    /\ scan' = scan + 1
    /\ UNCHANGED <<topo, pc, settled, stages, inDegree, islandVars, pdcVars>>

CloseStage ==
    /\ pc = "scan"
    /\ scan = NumNodes
    /\ stage # {}
    /\ stages' = Append(stages, stage)
    /\ settled' = settled \cup stage
    /\ inDegree' = Released(stage)
    /\ stage' = {}
    /\ scan' = 0
    /\ pc' = IF settled' = Nodes THEN "islands" ELSE "scan"
    /\ UNCHANGED <<topo, islandVars, pdcVars>>

\* Mutated forms: what is left over is not looked at; the loop goes on.
EndLoopHappily ==
    /\ pc = "scan" /\ scan = NumNodes /\ stage = {}
    /\ pc' = "islands"
    /\ UNCHANGED <<topo, kahnVars, islandVars, pdcVars>>
EndLoopNever ==
    /\ pc = "scan" /\ scan = NumNodes /\ stage = {}
    /\ pc' = IF settled = Nodes THEN "islands" ELSE "scan"
    /\ scan' = 0
    /\ UNCHANGED <<topo, settled, stages, stage, inDegree, islandVars, pdcVars>>

\* A pass that placed nobody ends the loop, whether nodes are left or not.
EndLoop ==
    /\ pc = "scan"
    /\ scan = NumNodes
    /\ stage = {}
    /\ pc' = IF settled = Nodes THEN "islands" ELSE "cycle"
    /\ UNCHANGED <<topo, kahnVars, islandVars, pdcVars>>

-----------------------------------------------------------------------------
(***************************************************************************)
(* identify_islands: breadth first over the edges in both directions.      *)
(***************************************************************************)
Unvisited == {n \in Nodes : island[n] = 0} \ frontier

LastIsland == CHOOSE k \in 0 .. NumNodes :
                  /\ \A n \in Nodes : island[n] <= k
                  /\ k = 0 \/ \E n \in Nodes : island[n] = k

\* Only the lowest node left opens an island, when the queue has run empty.
OpenIsland(n) ==
    /\ pc = "islands"
    /\ frontier = {}
    /\ n \in Unvisited
    /\ \A m \in Unvisited : n <= m
    /\ island' = [island EXCEPT ![n] = LastIsland + 1]
    /\ frontier' = {n}
    /\ UNCHANGED <<topo, pc, kahnVars, pdcVars>>

\* Mutated form: the edges are followed forwards only.
Successors(n) == Dependents(n)

Neighbours(n) == Dependents(n) \cup Producers(topo, n)

GrowIsland(n) ==
    /\ pc = "islands"
    /\ n \in frontier
    /\ LET found == Neighbours(n) \cap Unvisited
       IN  /\ island' = [m \in Nodes |-> IF m \in found THEN island[n] ELSE island[m]]
           /\ frontier' = (frontier \ {n}) \cup found
    /\ UNCHANGED <<topo, pc, kahnVars, pdcVars>>

IslandsDone ==
    /\ pc = "islands"
    /\ frontier = {} /\ Unvisited = {}
    /\ pc' = "latency"
    /\ UNCHANGED <<topo, kahnVars, islandVars, pdcVars>>

-----------------------------------------------------------------------------
(***************************************************************************)
(* calculate_pdc: the latency of the longest path into each node, carried  *)
(* along the stages, and the delay that each input lacks to it.            *)
(***************************************************************************)
\* When what n writes has passed every node on the way to it, n included.
Arrival(n) == pathLatency[n] + topo.latency[n]

Largest(S) == CHOOSE x \in S : \A y \in S : y <= x

CarryLatency ==
    /\ pc = "latency"
    /\ cursor <= Len(stages)
    /\ pathLatency' = [n \in Nodes |->
          Largest({pathLatency[n]}
                    \cup {Arrival(m) : m \in Producers(topo, n) \cap stages[cursor]})]
    /\ cursor' = cursor + 1
    /\ UNCHANGED <<topo, pc, kahnVars, islandVars, delay>>

\* v_to_producer: of several writers the one with the highest index.
LastWriter(b) == Largest({n \in Nodes : b \in topo.writes[n]})

\* Mutated form: the latency of the writer itself is left out.
LackWithoutWriter(n, b) == pathLatency[n] - pathLatency[LastWriter(b)]

Lack(n, b) == pathLatency[n] - Arrival(LastWriter(b))

Align ==
    /\ pc = "latency"
    /\ cursor > Len(stages)
    /\ delay' = [n \in Nodes |-> [b \in Buffers |->
                   IF /\ b \in topo.reads[n]
                      /\ \E m \in Nodes : b \in topo.writes[m]
                      /\ Lack(n, b) > 0
                   THEN Lack(n, b) ELSE 0]]
    /\ pc' = "verify"
    /\ UNCHANGED <<topo, kahnVars, islandVars, cursor, pathLatency>>

Verify ==
    /\ pc = "verify"
    /\ pc' = IF StagesHazardFree /\ Len(stages) <= NumNodes THEN "done" ELSE "hazard"
    /\ UNCHANGED <<topo, kahnVars, islandVars, pdcVars>>

Ended ==
    /\ pc \in {"done", "refused", "cycle", "hazard"}
    /\ UNCHANGED vars

Next ==
    \/ Refuse \/ BuildAdjacency
    \/ NotReady \/ PruneBypassed \/ Postpone \/ Place \/ CloseStage \/ EndLoop
    \/ (\E n \in Nodes : OpenIsland(n) \/ GrowIsland(n)) \/ IslandsDone
    \/ CarryLatency \/ Align \/ Verify
    \/ Ended

Spec == Init /\ [][Next]_vars

\* compile is a function called once: it runs until it returns.
FairSpec == Spec /\ WF_vars(Next)
-----------------------------------------------------------------------------
TypeOK ==
    /\ PlanTypeOK
    /\ pc \in {"check", "scan", "islands", "latency", "verify",
               "done", "refused", "cycle", "hazard"}
    /\ scan \in 0 .. NumNodes
    /\ inDegree \in [Nodes -> 0 .. NumNodes]
    /\ stage \in SUBSET Nodes
    /\ island \in [Nodes -> 0 .. NumNodes] /\ frontier \in SUBSET Nodes
    /\ cursor \in Nat \ {0}
    /\ pathLatency \in [Nodes -> Nat]
    /\ delay \in [Nodes -> [Buffers -> Nat]]

\* compile builds the plan by legal steps of StagedPlan only: whatever it
\* returns keeps that module's promises.
BuildsStagedPlan == PlanSpec

Planned(n) == \E k \in 1 .. Len(stages) : n \in stages[k]

\* A graph that compiles runs every node that is not bypassed.
CompleteWhenDone == pc = "done" => \A n \in Nodes \ topo.bypass : Planned(n)

\* Every set of nodes has one that waits for none of them.
Acyclic ==
    \A S \in (SUBSET Nodes) \ {{}} : \E n \in S : Producers(topo, n) \cap S = {}

\* No graph with a feedback loop gets a plan, not even when the loop runs
\* through bypassed nodes only.
LoopsAreRefused == pc = "done" => Acyclic

\* Two nodes are on one island exactly if edges, taken in either direction,
\* lead from one to the other: no set of nodes closed under neighbours
\* separates them.
IslandsAreComponents ==
    pc = "latency" => \A m, n \in Nodes :
        island[m] = island[n] <=>
            \A S \in SUBSET Nodes :
                m \in S /\ (\A x \in S : Neighbours(x) \subseteq S) => n \in S

\* The writer of b that a node of stage k hears: the last to run before it.
Heard(b, k) ==
    LET by(j) == {m \in stages[j] : b \in topo.writes[m]}
        last == {j \in 1 .. k - 1 : by(j) # {}}
    IN  IF last = {} THEN {} ELSE by(Largest(last))

\* When the inputs of node n of stage k reach it, given when each node of the
\* earlier stages put out what entered the graph at time 0.
InputTimes(time, n, k) ==
    UNION {{time[m] + delay[n][b] : m \in Heard(b, k)} : b \in topo.reads[n]}

OutputTime[k \in 0 .. Len(stages)] ==
    IF k = 0 THEN [n \in Nodes |-> 0]
    ELSE [n \in Nodes |->
            IF n \in stages[k]
            THEN topo.latency[n] + Largest({0} \cup InputTimes(OutputTime[k - 1], n, k))
            ELSE OutputTime[k - 1][n]]

\* Every buffer has one writer, which does not read it, and nothing is
\* bypassed: the graphs delay compensation is made for.
OwnBuffers ==
    /\ topo.bypass = {}
    /\ \A m, n \in Nodes : m # n => topo.writes[m] \cap topo.writes[n] = {}
    /\ \A n \in Nodes : topo.writes[n] \cap topo.reads[n] = {}

\* Delay compensation does its job: what a node sums entered the graph at one
\* and the same time, however many latent nodes lie on the way.
InputsAligned ==
    pc = "done" /\ OwnBuffers =>
        \A k \in 1 .. Len(stages) : \A n \in stages[k] :
            \A x, y \in InputTimes(OutputTime[k - 1], n, k) : x = y

\* compile returns: the loop makes progress in every pass or ends.
Terminates == <>(pc \in {"done", "refused", "cycle", "hazard"})
=============================================================================
