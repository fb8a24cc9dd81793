------------------------------ MODULE StagedPlan ------------------------------
(***************************************************************************)
(* What a compiled plan promises the audio thread.  A graph is handed out  *)
(* stage by stage: a stage is any set of nodes that wait for nothing and   *)
(* that do not touch each other's buffers, so that the worker pool may run *)
(* them at the same time.  A bypassed node gets no stage; it is passed     *)
(* over as soon as what it waits for has its place.                        *)
(*                                                                         *)
(* How stages are chosen, and which nodes share one, is left open.         *)
(***************************************************************************)
EXTENDS Integers, Sequences, FiniteSets

CONSTANTS
    NumNodes,      \* node_count of the graph
    Buffers,       \* the virtual buffers
    NoSuchBuffer   \* an index past MAX_BUFFERS

ASSUME PlanAssumption ==
    /\ NumNodes \in Nat
    /\ NoSuchBuffer \notin Buffers

Nodes == 0 .. NumNodes - 1

\* A GraphTopology as the compiler sees it: what each node reads (inputs and
\* sidechains) and writes, how many slots its reads take, what it delays.
Topology == [reads   : [Nodes -> SUBSET (Buffers \cup {NoSuchBuffer})],
             writes  : [Nodes -> SUBSET (Buffers \cup {NoSuchBuffer})],
             slots   : [Nodes -> Nat],
             bypass  : SUBSET Nodes,
             latency : [Nodes -> Nat]]

\* The nodes n waits for: all writers of a buffer it reads, but itself.
Producers(t, n) == {m \in Nodes \ {n} : t.writes[m] \cap t.reads[n] # {}}

\* Nodes m and n cannot run at the same time.
Conflict(t, m, n) ==
    \/ t.writes[m] \cap (t.writes[n] \cup t.reads[n]) # {}
    \/ t.writes[n] \cap t.reads[m] # {}

VARIABLES
    topo,    \* the graph being compiled
    settled, \* the nodes that have their place
    stages   \* the stages so far

planVars == <<topo, settled, stages>>

Waiting == Nodes \ settled

PlanInit ==
    /\ topo \in Topology
    /\ settled = {}
    /\ stages = <<>>

PassOver(n) ==
    /\ n \in Waiting \cap topo.bypass
    /\ Producers(topo, n) \subseteq settled
    /\ settled' = settled \cup {n}
    /\ UNCHANGED <<topo, stages>>

Issue(stage) ==
    /\ stage # {}
    /\ stage \subseteq Waiting \ topo.bypass
    /\ \A n \in stage : Producers(topo, n) \subseteq settled
    /\ \A m, n \in stage : m # n => ~Conflict(topo, m, n)
    /\ settled' = settled \cup stage
    /\ stages' = Append(stages, stage)
    /\ UNCHANGED topo

PlanNext == (\E n \in Nodes : PassOver(n)) \/ (\E stage \in SUBSET Nodes : Issue(stage))

PlanSpec == PlanInit /\ [][PlanNext]_planVars
-----------------------------------------------------------------------------
PlanTypeOK ==
    /\ topo \in Topology
    /\ settled \in SUBSET Nodes
    /\ stages \in Seq(SUBSET Nodes)

\* The claim execute_stage rests its unsafe code on: "no two nodes in the same
\* stage read from or write to the same physical buffer in a way that creates
\* hazards".
StagesHazardFree ==
    \A k \in 1 .. Len(stages) : \A m, n \in stages[k] :
        m # n => ~Conflict(topo, m, n)

\* What a node of the plan reads was written by an earlier stage, unless its
\* writer is bypassed: never by its own stage, never by a later one.
ProducersRunFirst ==
    \A k \in 1 .. Len(stages) : \A n \in stages[k] :
        \A m \in Producers(topo, n) \ topo.bypass :
            \E j \in 1 .. k - 1 : m \in stages[j]

\* The plan runs the nodes that have their place and are not bypassed, each in
\* one stage only.
RunOnce ==
    /\ \A n \in settled \ topo.bypass : \E k \in 1 .. Len(stages) : n \in stages[k]
    /\ \A k \in 1 .. Len(stages) : stages[k] \subseteq settled \ topo.bypass
    /\ \A j, k \in 1 .. Len(stages) : j # k => stages[j] \cap stages[k] = {}
=============================================================================
