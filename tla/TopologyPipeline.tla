--------------------------- MODULE TopologyPipeline ---------------------------
(***************************************************************************)
(* How a structural edit travels from the conductor to the audio thread.   *)
(*                                                                         *)
(*   conductor thread: TopologyManager edits its mirror of the graph, then *)
(*     pushes one mutation per edit on a bounded ring, waiting while the   *)
(*     ring is full and dropping the mutation after a second of waiting.   *)
(*     CommitTopology compiles the mirror and pushes the whole compiled    *)
(*     topology.  Commands that are not structural go on a second ring.    *)
(*   audio thread, once per block: drain at most DrainCap mutations into   *)
(*     the pending buffer; commit the staged side if one is staged; apply  *)
(*     the pending mutations to the staged side and to the node array;     *)
(*     drain the command bundles; render.                                  *)
(*   orchestration thread: frees the processors the audio thread retired.  *)
(*                                                                         *)
(* A compiled topology is immutable once published (an Arc), so the model  *)
(* names it by its position in `published`; a side's plan is the position  *)
(* of the topology whose compilation produced it, 0 standing for           *)
(* num_stages = 0.  The crossfade and morph branches of commit_graph are   *)
(* left out: nothing outside the tests turns them on.                      *)
(***************************************************************************)
EXTENDS StagedEdits, Sequences

CONSTANTS
    RingCap,       \* usable slots of the topology ring (255)
    BundleCap,     \* usable slots of the bundle ring (63)
    DrainCap,      \* mutations drained per block (16)
    PendingCap,    \* MAX_MUTATIONS, the pending buffer (256)
    GarbageCap,    \* usable slots of the garbage ring; 0 when there is none
    Procs,         \* the processors the registry can create
    Dummy,         \* DummyProcessor
    NoMutation,    \* no mutation is being pushed
    Ops,           \* bound: the commands the conductor issues
    Wires,         \* bound: the edges it asks for, as <<node, slot, buffer>>
    MaxBundle,     \* bound: how many commands it forwards at once
    MaxCommands    \* bound: how many it issues

ASSUME PipelineAssumption ==
    /\ RingCap \in Nat \ {0}
    /\ BundleCap \in Nat \ {0}
    /\ DrainCap \in Nat \ {0}
    /\ PendingCap \in Nat \ {0}
    /\ GarbageCap \in Nat
    /\ MaxCommands \in Nat
    /\ Wires \subseteq (0 .. MaxNodes) \X Channels \X (0 .. MaxBuffers)
    /\ MaxBundle \in Nat \ {0}
    /\ Dummy \notin Procs

\* A command may name any index; the ones past the node array are sentinels.
Targets == 0 .. MaxNodes
BufferArgs == 0 .. MaxBuffers

AddMutation    == [op : {"AddNode", "SwapProcessor"}, node : Targets, proc : Procs]
NodeMutation   == [op : {"RemoveNode", "AddSource"}, node : Nodes]
EdgeMutation   == [op : {"UpdateEdge", "UpdateOutputEdge"},
                   node : Targets, slot : Channels, buffer : BufferArgs]
DropMutation   == [op : {"Disconnect"}, node : Targets, slot : Channels]
BypassMutation == [op : {"SetBypass"}, node : Targets, enabled : BOOLEAN]
SetMutation    == [op : {"SetTopology"}, topo : Nat \ {0}]

Mutation == AddMutation \cup NodeMutation \cup EdgeMutation \cup DropMutation
              \cup BypassMutation \cup SetMutation

BundleCommand == [op : {"PlayNode", "AddSource"}, node : Nodes] \cup EdgeMutation

\* What one call of apply_mixer_commands leaves for the audio thread.
Bundle == Seq(BundleCommand) \ {<<>>}

ASSUME NoMutationAssumption == NoMutation \notin Mutation

Bypass == [Nodes -> BOOLEAN]

\* What SetTopology carries: the mirror when it was compiled, and the nodes
\* the compiled stages run.
Topology == [graph : Graph, bypass : Bypass, stages : SUBSET Nodes,
             typed : SUBSET Targets]

Side == [graph : Graph, bypass : Bypass, plan : Nat]

VARIABLES
    mirror,        \* current_topology.routing and node_count
    mirrorBypass,  \* current_topology.bypass_states
    typed,         \* keys of active_node_types
    pushing,       \* the mutation push_mutation holds, or NoMutation
    published,     \* every topology compiled so far
    edited,        \* history: the mirror was edited since the last compile
    dropped,       \* history: some mutation was dropped on the way
    refused,       \* history: edits staged since the last SetTopology were lost
                   \* to a refused commit
    issued,        \* commands issued so far
    topoRing, bundleRing,
    pc, drained, streamPending, pending,
    sides, active, needsCommit,
    procAt,        \* the processor installed at each node
    nodeCount,     \* ProcessorGraph::node_count
    garbage,       \* the garbage ring
    fate           \* history: what became of each processor

conductorVars == <<mirror, mirrorBypass, typed, published, edited, issued>>
queueVars     == <<pushing, topoRing, bundleRing>>
sideVars      == <<sides, active, needsCommit, refused>>
nodeVars      == <<procAt, nodeCount>>
blockVars     == <<pc, drained, streamPending>>
procVars      == <<garbage, fate>>
vars == <<conductorVars, queueVars, sideVars, nodeVars, blockVars, procVars,
          pending, dropped>>

\* Mutated form: the index of the side being played.
InactiveIsActive == active

Inactive == 1 - active

Init ==
    /\ mirror = EmptyGraph
    /\ mirrorBypass = [n \in Nodes |-> FALSE]
    /\ typed = {}
    /\ pushing = NoMutation
    /\ published = <<>>
    /\ edited = FALSE
    /\ dropped = FALSE
    /\ refused = FALSE
    /\ issued = 0
    /\ topoRing = <<>>
    /\ bundleRing = <<>>
    /\ pc = "drain"
    /\ drained = 0
    /\ streamPending = FALSE
    /\ pending = <<>>
    /\ sides = [s \in {0, 1} |-> [graph  |-> EmptyGraph,
                                  bypass |-> [n \in Nodes |-> FALSE],
                                  plan   |-> 0]]
    /\ active = 0
    /\ needsCommit = FALSE
    /\ procAt = [n \in Nodes |-> Dummy]
    /\ nodeCount = 0
    /\ garbage = <<>>
    /\ fate = [p \in Procs |-> "unborn"]

-----------------------------------------------------------------------------
(***************************************************************************)
(* The conductor thread: TopologyManager::handle_topology_command.  It is  *)
(* synchronous, so no command starts while a mutation is being pushed.     *)
(***************************************************************************)
Accept(op) ==
    /\ op \in Ops
    /\ pushing = NoMutation
    /\ issued < MaxCommands
    /\ issued' = issued + 1

RTUnchanged == UNCHANGED <<sideVars, nodeVars, blockVars, pending>>

\* create_by_id makes a new processor; which name it has is all the same.
Created(p) == fate[p] = "unborn" /\ p = CHOOSE q \in Procs : fate[q] = "unborn"

AddNode(n) ==
    /\ Accept("AddNode")
    /\ \E p \in Procs :
         /\ Created(p)
         /\ fate' = [fate EXCEPT ![p] = "live"]
         /\ pushing' = [op |-> "AddNode", node |-> n, proc |-> p]
    /\ typed' = typed \cup {n}
    /\ mirror' = IF n \in Nodes THEN AddNodeTo(mirror, n) ELSE mirror
    /\ edited' = TRUE
    /\ UNCHANGED <<mirrorBypass, published, topoRing, bundleRing, garbage, dropped>>
    /\ RTUnchanged

SwapProcessor(n) ==
    /\ Accept("SwapProcessor")
    /\ \E p \in Procs :
         /\ Created(p)
         /\ fate' = [fate EXCEPT ![p] = "live"]
         /\ pushing' = [op |-> "SwapProcessor", node |-> n, proc |-> p]
    /\ typed' = typed \cup {n}
    /\ UNCHANGED <<mirror, mirrorBypass, published, edited, topoRing, bundleRing,
                   garbage, dropped>>
    /\ RTUnchanged

RemoveNode(n) ==
    /\ Accept("RemoveNode")
    /\ typed' = typed \ {n}
    /\ mirror' = RemoveNodeFrom(mirror, n, typed')
    /\ mirrorBypass' = [mirrorBypass EXCEPT ![n] = FALSE]
    /\ pushing' = [op |-> "RemoveNode", node |-> n]
    /\ edited' = TRUE
    /\ UNCHANGED <<published, topoRing, bundleRing, procVars, dropped>>
    /\ RTUnchanged

\* A full bundle ring loses the bundle: MixerBridge keeps only its buffer.
SendBundle(bundle) ==
    bundleRing' = IF Len(bundleRing) < BundleCap THEN Append(bundleRing, bundle)
                                                 ELSE bundleRing

\* An edge to a buffer out of range is refused here, and a refused command
\* joins the bundle of the commands the topology manager did not handle.
Edge(op, n, c, b, edit(_, _, _, _)) ==
    LET m == [op |-> op, node |-> n, slot |-> c, buffer |-> b] IN
    /\ Accept(op)
    /\ IF b \notin Buffers
       THEN /\ SendBundle(<<m>>)
            /\ UNCHANGED <<mirror, pushing, edited>>
       ELSE /\ mirror' = IF n \in Nodes THEN edit(mirror, n, c, b) ELSE mirror
            /\ pushing' = m
            /\ edited' = TRUE
            /\ UNCHANGED bundleRing
    /\ UNCHANGED <<mirrorBypass, typed, published, topoRing, procVars, dropped>>
    /\ RTUnchanged

UpdateEdge(n, c, b)       == Edge("UpdateEdge", n, c, b, SetInput)
UpdateOutputEdge(n, c, b) == Edge("UpdateOutputEdge", n, c, b, SetOutput)

Disconnect(n, c) ==
    /\ Accept("Disconnect")
    /\ mirror' = IF n \in Nodes THEN DropInput(mirror, n, c) ELSE mirror
    /\ pushing' = [op |-> "Disconnect", node |-> n, slot |-> c]
    /\ edited' = TRUE
    /\ UNCHANGED <<mirrorBypass, typed, published, topoRing, bundleRing, procVars,
                   dropped>>
    /\ RTUnchanged

SetBypass(n, enabled) ==
    /\ Accept("SetBypass")
    /\ mirrorBypass' = IF n \in Nodes THEN [mirrorBypass EXCEPT ![n] = enabled]
                                      ELSE mirrorBypass
    /\ pushing' = [op |-> "SetBypass", node |-> n, enabled |-> enabled]
    /\ UNCHANGED <<mirror, typed, published, edited, topoRing, bundleRing, procVars,
                   dropped>>
    /\ RTUnchanged

\* A successful compile runs every node that is not bypassed.  A failed one
\* changes nothing, so it is this action not being taken.
Stages == {n \in Nodes : n < mirror.count /\ ~mirrorBypass[n]}

CommitTopology ==
    /\ Accept("CommitTopology")
    /\ published' = Append(published, [graph |-> mirror, bypass |-> mirrorBypass,
                                       stages |-> Stages, typed |-> typed])
    /\ pushing' = [op |-> "SetTopology", topo |-> Len(published')]
    /\ edited' = FALSE
    /\ UNCHANGED <<mirror, mirrorBypass, typed, topoRing, bundleRing, procVars,
                   dropped>>
    /\ RTUnchanged

\* PlayNode and AddSourceFromRegistry are addressed to nodes that exist as
\* far as the conductor knows; `times` of them are forwarded in one bundle.
Perform(op, n, times) ==
    /\ Accept(op)
    /\ n \in typed
    /\ SendBundle([i \in 1 .. times |-> [op |-> op, node |-> n]])
    /\ UNCHANGED <<mirror, mirrorBypass, typed, published, edited, pushing, topoRing,
                   procVars, dropped>>
    /\ RTUnchanged

TopologyRingFull == Len(topoRing) >= RingCap

\* push_mutation: the push that succeeds, and the last of 500 that did not.
Push ==
    /\ pushing # NoMutation
    /\ ~TopologyRingFull
    /\ topoRing' = Append(topoRing, pushing)
    /\ pushing' = NoMutation
    /\ UNCHANGED <<conductorVars, bundleRing, procVars, dropped>>
    /\ RTUnchanged

GiveUp ==
    /\ pushing # NoMutation
    /\ TopologyRingFull
    /\ fate' = IF pushing \in AddMutation
               THEN [fate EXCEPT ![pushing.proc] = "freed"] ELSE fate
    /\ pushing' = NoMutation
    /\ dropped' = TRUE
    /\ UNCHANGED <<conductorVars, topoRing, bundleRing, garbage>>
    /\ RTUnchanged

Conductor ==
    \/ \E n \in Targets : AddNode(n) \/ SwapProcessor(n)
    \/ \E n \in Nodes : RemoveNode(n)
    \/ \E w \in Wires :
         UpdateEdge(w[1], w[2], w[3]) \/ UpdateOutputEdge(w[1], w[2], w[3])
    \/ \E n \in Targets, c \in Channels : Disconnect(n, c)
    \/ \E n \in Targets, enabled \in BOOLEAN : SetBypass(n, enabled)
    \/ CommitTopology
    \/ \E op \in {"PlayNode", "AddSource"}, n \in Nodes, times \in 1 .. MaxBundle :
         Perform(op, n, times)

-----------------------------------------------------------------------------
(***************************************************************************)
(* The audio thread, phase 1: EngineInputHandler::handle_topology_inputs.  *)
(***************************************************************************)
\* ProcessorGraph::apply_topology_mutation.  On overflow the processor goes
\* to the garbage ring if the ring takes it, and is dropped here if not.
Enqueue(m) ==
    IF Len(pending) < PendingCap
    THEN /\ pending' = Append(pending, m)
         /\ UNCHANGED <<garbage, fate, dropped>>
    ELSE /\ dropped' = TRUE
         /\ UNCHANGED pending
         /\ CASE m \notin AddMutation ->
                   UNCHANGED <<garbage, fate>>
              [] m \in AddMutation /\ Len(garbage) < GarbageCap ->
                   garbage' = Append(garbage, m.proc) /\ UNCHANGED fate
              [] OTHER ->
                   fate' = [fate EXCEPT ![m.proc] = "freedOnRT"] /\ UNCHANGED garbage

\* Mutated form: a mutation is taken only when another one follows it.
TakesAllButLast == drained < DrainCap /\ Len(topoRing) > 1

\* The loop takes mutations while there are any, up to the cap of a block.
TakesOne == drained < DrainCap /\ topoRing # <<>>

PopTopology ==
    /\ pc = "drain"
    /\ TakesOne
    /\ Enqueue(Head(topoRing))
    /\ topoRing' = Tail(topoRing)
    /\ drained' = drained + 1
    /\ UNCHANGED <<conductorVars, pushing, bundleRing, sideVars, nodeVars, pc,
                   streamPending>>

\* A chunk that reached the cap may be followed by more of the same batch.
ChunkFull == drained >= DrainCap

EndDrain ==
    /\ pc = "drain"
    /\ ~TakesOne
    /\ streamPending' = ChunkFull
    /\ pc' = "commit"
    /\ UNCHANGED <<conductorVars, queueVars, sideVars, nodeVars, drained, pending,
                   procVars, dropped>>

-----------------------------------------------------------------------------
(***************************************************************************)
(* Phase 2: ProcessorGraph::commit_graph, which commits what the earlier   *)
(* blocks staged and then applies the mutations of this one.               *)
(***************************************************************************)
\* Mutated form: a side without stages is swapped in.
UncompiledIgnored(side) == FALSE

Uncompiled(side) == side.plan = 0 /\ side.graph.count > 0

CommitUnchanged ==
    UNCHANGED <<conductorVars, queueVars, sides, nodeVars, drained, streamPending,
                pending, procVars, dropped>>

NothingToCommit ==
    /\ pc = "commit"
    /\ ~needsCommit \/ streamPending
    /\ pc' = "apply"
    /\ UNCHANGED <<active, needsCommit, refused>>
    /\ CommitUnchanged

RefuseCommit ==
    /\ pc = "commit"
    /\ needsCommit /\ ~streamPending
    /\ Uncompiled(sides[Inactive])
    /\ pc' = "apply"
    /\ needsCommit' = FALSE
    /\ refused' = TRUE
    /\ UNCHANGED active
    /\ CommitUnchanged

\* Mutated form: the sides are swapped and the commit stays due.
SwapSidesForGood ==
    /\ pc = "commit"
    /\ needsCommit /\ ~streamPending
    /\ ~Uncompiled(sides[Inactive])
    /\ pc' = "apply"
    /\ active' = Inactive
    /\ UNCHANGED <<needsCommit, refused>>
    /\ CommitUnchanged

SwapSides ==
    /\ pc = "commit"
    /\ needsCommit /\ ~streamPending
    /\ ~Uncompiled(sides[Inactive])
    /\ pc' = "apply"
    /\ active' = Inactive
    /\ needsCommit' = FALSE
    /\ UNCHANGED refused
    /\ CommitUnchanged

\* inactive_topology_mut: the side an edit is made on is a fresh clone of the
\* active one unless edits are staged already; its plan is void either way.
Staged == [(IF needsCommit THEN sides[Inactive] ELSE sides[active])
             EXCEPT !.plan = 0]

Stage(graph) ==
    /\ sides' = [sides EXCEPT ![Inactive] = [Staged EXCEPT !.graph = graph]]
    /\ needsCommit' = TRUE
    /\ UNCHANGED <<active, refused>>

\* What becomes of a box nobody owns any more; a dummy owns nothing.
Lose(p, how) ==
    /\ fate' = IF p = Dummy THEN fate ELSE [fate EXCEPT ![p] = how]
    /\ UNCHANGED garbage

\* Mutated form: the box falls out of scope.
RetireByDropping(p) == Lose(p, "freedOnRT")

\* The processor a mutation displaces or rejects, dummies included.
Retire(p) ==
    IF Len(garbage) < GarbageCap
    THEN garbage' = Append(garbage, p) /\ UNCHANGED fate
    ELSE Lose(p, "leaked")

ApplyAddNode(m) ==
    /\ m.op = "AddNode"
    /\ IF m.node \notin Nodes
       THEN /\ Retire(m.proc)
            /\ UNCHANGED <<sideVars, nodeVars>>
       ELSE /\ procAt' = [procAt EXCEPT ![m.node] = m.proc]
            /\ Retire(procAt[m.node])
            /\ nodeCount' = AtLeast(nodeCount, m.node + 1)
            /\ Stage(StagedAddNode(Staged.graph, m.node))

\* Mutated form: the new processor is retired and the old one forgotten.
ApplySwapRetiringNew(m) ==
    /\ m.op = "SwapProcessor"
    /\ procAt' = IF m.node \in Nodes THEN [procAt EXCEPT ![m.node] = m.proc]
                                     ELSE procAt
    /\ Retire(m.proc)
    /\ UNCHANGED <<sideVars, nodeCount>>

ApplySwapProcessor(m) ==
    /\ m.op = "SwapProcessor"
    /\ IF m.node \notin Nodes
       THEN /\ Retire(m.proc)
            /\ UNCHANGED procAt
       ELSE /\ procAt' = [procAt EXCEPT ![m.node] = m.proc]
            /\ Retire(procAt[m.node])
    /\ UNCHANGED <<sideVars, nodeCount>>

Occupied(installed) == {n \in Nodes : installed[n] # Dummy}

WithBypass(side, n, enabled) ==
    [side EXCEPT !.bypass = [side.bypass EXCEPT ![n] = enabled]]

\* The bypass flag goes on both sides, the wiring on the staged one.
ApplyRemoveNode(m) ==
    /\ m.op = "RemoveNode"
    /\ procAt' = [procAt EXCEPT ![m.node] = Dummy]
    /\ Retire(procAt[m.node])
    /\ nodeCount' = OneAfterLast(Occupied(procAt'), nodeCount)
    /\ LET graph == StagedRemoveNode(Staged.graph, m.node, Occupied(procAt'))
       IN  sides' = [s \in {0, 1} |->
                       WithBypass(IF s = active THEN sides[s]
                                  ELSE [Staged EXCEPT !.graph = graph],
                                  m.node, FALSE)]
    /\ needsCommit' = TRUE
    /\ UNCHANGED <<active, refused>>

\* The three edits that touch only the staged wiring.
ApplyEdge(m, op, edit(_, _, _, _)) ==
    /\ m.op = op
    /\ IF m.node \in Nodes /\ m.buffer \in Buffers
       THEN Stage(edit(Staged.graph, m.node, m.slot, m.buffer))
       ELSE UNCHANGED sideVars
    /\ UNCHANGED <<nodeVars, procVars>>

ApplyUpdateEdge(m)       == ApplyEdge(m, "UpdateEdge", StagedUpdateEdge)
ApplyUpdateOutputEdge(m) == ApplyEdge(m, "UpdateOutputEdge", StagedUpdateOutputEdge)

ApplyDisconnect(m) ==
    /\ m.op = "Disconnect"
    /\ IF m.node \in Nodes
       THEN Stage(StagedDisconnect(Staged.graph, m.node, m.slot))
       ELSE UNCHANGED sideVars
    /\ UNCHANGED <<nodeVars, procVars>>

ApplySetBypass(m) ==
    /\ m.op = "SetBypass"
    /\ sides' = IF m.node \in Nodes
                THEN [s \in {0, 1} |-> WithBypass(sides[s], m.node, m.enabled)]
                ELSE sides
    /\ UNCHANGED <<active, needsCommit, refused, nodeVars, procVars>>

PlanOf(k) == IF published[k].stages = {} THEN 0 ELSE k

ApplySetTopology(m) ==
    /\ m.op = "SetTopology"
    /\ sides' = [sides EXCEPT ![Inactive] = [graph  |-> published[m.topo].graph,
                                             bypass |-> published[m.topo].bypass,
                                             plan   |-> PlanOf(m.topo)]]
    /\ needsCommit' = TRUE
    /\ refused' = FALSE
    /\ UNCHANGED <<active, nodeVars, procVars>>

\* The sample goes to the processor at the node, whichever that is.
ApplyAddSource(m) ==
    /\ m.op = "AddSource"
    /\ UNCHANGED <<sideVars, nodeVars, procVars>>

ApplyOne ==
    /\ pc = "apply"
    /\ pending # <<>>
    /\ pending' = Tail(pending)
    /\ LET m == Head(pending) IN
         \/ ApplyAddNode(m)
         \/ ApplySwapProcessor(m)
         \/ ApplyRemoveNode(m)
         \/ ApplyUpdateEdge(m)
         \/ ApplyUpdateOutputEdge(m)
         \/ ApplyDisconnect(m)
         \/ ApplySetBypass(m)
         \/ ApplySetTopology(m)
         \/ ApplyAddSource(m)
    /\ UNCHANGED <<conductorVars, queueVars, blockVars, dropped>>

EndApply ==
    /\ pc = "apply"
    /\ pending = <<>>
    /\ pc' = "async"
    /\ UNCHANGED <<conductorVars, queueVars, sideVars, nodeVars, drained,
                   streamPending, pending, procVars, dropped>>

-----------------------------------------------------------------------------
(***************************************************************************)
(* Phase 3: EngineInputHandler::handle_async_inputs, then the render.      *)
(***************************************************************************)
\* One command of the bundle at hand, which is gone after its last one.
PopBundle ==
    /\ pc = "async"
    /\ bundleRing # <<>>
    /\ LET bundle == Head(bundleRing)
           cmd    == Head(bundle)
       IN  /\ bundleRing' = IF Len(bundle) = 1 THEN Tail(bundleRing)
                            ELSE [bundleRing EXCEPT ![1] = Tail(bundle)]
           /\ IF cmd.op = "PlayNode"
              THEN UNCHANGED <<pending, garbage, fate, dropped>>
              ELSE Enqueue(cmd)
    /\ UNCHANGED <<conductorVars, pushing, topoRing, sideVars, nodeVars, blockVars>>

EndAsync ==
    /\ pc = "async"
    /\ bundleRing = <<>>
    /\ pc' = "render"
    /\ UNCHANGED <<conductorVars, queueVars, sideVars, nodeVars, drained,
                   streamPending, pending, procVars, dropped>>

Render ==
    /\ pc = "render"
    /\ pc' = "drain"
    /\ drained' = 0
    /\ UNCHANGED <<conductorVars, queueVars, sideVars, nodeVars, streamPending,
                   pending, procVars, dropped>>

AudioThread ==
    \/ PopTopology \/ EndDrain
    \/ NothingToCommit \/ RefuseCommit \/ SwapSides
    \/ ApplyOne \/ EndApply
    \/ PopBundle \/ EndAsync \/ Render

\* EngineCoordinator::drain_garbage, off the audio thread.
DrainGarbage ==
    /\ garbage # <<>>
    /\ fate' = IF Head(garbage) = Dummy THEN fate
               ELSE [fate EXCEPT ![Head(garbage)] = "freed"]
    /\ garbage' = Tail(garbage)
    /\ UNCHANGED <<conductorVars, queueVars, sideVars, nodeVars, blockVars, pending,
                   dropped>>

Next == Conductor \/ Push \/ GiveUp \/ AudioThread \/ DrainGarbage

Spec == Init /\ [][Next]_vars

\* The device calls the audio thread for every block and push_mutation
\* retries; nothing obliges the conductor to issue a command or to give up.
FairSpec == Spec /\ WF_vars(AudioThread) /\ WF_vars(Push)
-----------------------------------------------------------------------------
\* Every variable ranges over the values the code's types and rings allow.
MirrorType ==
    /\ mirror \in Graph /\ mirrorBypass \in Bypass /\ typed \in SUBSET Targets
    /\ published \in Seq(Topology)
    /\ edited \in BOOLEAN /\ issued \in 0 .. MaxCommands

QueueType ==
    /\ pushing \in Mutation \cup {NoMutation}
    /\ topoRing \in Seq(Mutation) /\ Len(topoRing) <= RingCap
    /\ bundleRing \in Seq(Bundle) /\ Len(bundleRing) <= BundleCap
    /\ pending \in Seq(Mutation) /\ Len(pending) <= PendingCap
    /\ dropped \in BOOLEAN

SideType ==
    /\ sides \in [{0, 1} -> Side] /\ active \in {0, 1} /\ needsCommit \in BOOLEAN
    /\ refused \in BOOLEAN

NodeType ==
    procAt \in [Nodes -> Procs \cup {Dummy}] /\ nodeCount \in 0 .. MaxNodes

BlockType ==
    /\ pc \in {"drain", "commit", "apply", "async", "render"}
    /\ drained \in 0 .. DrainCap /\ streamPending \in BOOLEAN

ProcType ==
    /\ garbage \in Seq(Procs \cup {Dummy}) /\ Len(garbage) <= GarbageCap
    /\ fate \in [Procs -> {"unborn", "live", "leaked", "freed", "freedOnRT"}]

TypeOK == MirrorType /\ QueueType /\ SideType /\ NodeType /\ BlockType /\ ProcType

\* The audio thread plays either an empty graph or exactly a topology that
\* the conductor compiled, with the plan of that very compilation: never a
\* half-applied batch, never a plan left over from other wiring
\* (inactive_topology_mut and commit of TopologyCoordinator).
ActiveIsPublished ==
    LET a == sides[active] IN
    IF a.plan = 0 THEN a.graph.count = 0
    ELSE /\ a.plan \in 1 .. Len(published)
         /\ a.graph = published[a.plan].graph
         /\ published[a.plan].stages # {}

\* Topologies are installed in the order the conductor compiled them; a swap
\* never brings back the plan being played or an older one, although the
\* side swapped in still held one when it was swapped out.
InstallsForward ==
    [][active' # active =>
         \/ sides'[active'].plan = 0
         \/ sides'[active'].plan > sides[active].plan]_vars

\* The wiring being played changes at the commit point of a block and nowhere
\* else, whatever arrives between two blocks or in the middle of one.
WiringChangesAtCommit ==
    [][sides'[active'].graph # sides[active].graph => pc = "commit"]_vars

\* The two replicas of the graph, edited by two hand-written copies of the same
\* arms, agree whenever everything pushed was applied and is still staged:
\* unless a commit was refused in between, which discards what was staged.
ReplicasAgree ==
    /\ pushing = NoMutation /\ topoRing = <<>> /\ pending = <<>>
    /\ needsCommit /\ ~refused /\ ~dropped
    => sides[Inactive].graph = mirror

\* Where the conductor, the rings, the node array and the garbage ring hold
\* a processor.
Holders(p) ==
    LET In(q) == {i \in DOMAIN q : q[i] \in AddMutation /\ q[i].proc = p} IN
    {<<"pushing", 0>> : x \in {y \in {pushing} : y \in AddMutation /\ y.proc = p}}
      \cup {<<"ring", i>> : i \in In(topoRing)}
      \cup {<<"pending", i>> : i \in In(pending)}
      \cup {<<"node", n>> : n \in {k \in Nodes : procAt[k] = p}}
      \cup {<<"garbage", i>> : i \in {j \in DOMAIN garbage : garbage[j] = p}}

\* A boxed processor has one owner until it is freed or leaked and none
\* after, through every push, drop, swap and retirement.
OwnedOnce ==
    \A p \in Procs :
      IF fate[p] = "live" THEN \E h \in Holders(p) : Holders(p) = {h}
                          ELSE Holders(p) = {}

\* The audio thread frees a processor in one case only, against the rule stated
\* at retire(): when the mutation that brings it finds both the pending buffer
\* and the garbage ring full, so that the edit is lost as well.  What it ever
\* played goes to the garbage ring or is leaked
\* (ProcessorGraph::apply_topology_mutation).
FreedOnlyOnOverflow ==
    [][\A p \in Procs :
         fate'[p] = "freedOnRT" /\ fate[p] # "freedOnRT" =>
           /\ Len(pending) = PendingCap /\ Len(garbage) = GarbageCap /\ dropped'
           /\ \A n \in Nodes : procAt[n] # p]_vars

\* Once the conductor stops on a compiled topology that has something to
\* play and no mutation was dropped, the audio thread comes to play that
\* graph with the conductor's bypass flags and with a processor at exactly
\* the nodes the conductor believes occupied.
Playable(t) == t.graph.count > 0 => t.stages # {}

Settled ==
    /\ pushing = NoMutation /\ ~edited /\ ~dropped
    /\ published # <<>> => Playable(published[Len(published)])

Agreed ==
    /\ sides[active].graph = mirror
    /\ sides[active].bypass = mirrorBypass
    /\ Occupied(procAt) = typed \cap Nodes

Converges == <>[]Settled => <>[]Agreed
=============================================================================
