----------------------------- MODULE SessionEdits -----------------------------
(***************************************************************************)
(* Editing a running session: the conductor reads the desired-state view   *)
(* of its graph, builds the target it wants, lets GraphReconciler turn the *)
(* difference into topology commands and runs them on the graph.  Every    *)
(* command list is computed against the graph as it was before the first   *)
(* command, while RemoveNode also edits the nodes that stay.               *)
(*                                                                         *)
(* The session is the one bootstrap builds, cut down to the nodes an edit  *)
(* meets: the master EQ, the master limiter, the two summing nodes of the  *)
(* cue bus, and the capture node that listens to the master.  What feeds   *)
(* them is outside.  The mutations the commands also send to the audio     *)
(* thread are in TopologyPipeline.                                         *)
(***************************************************************************)
EXTENDS GraphEdits, Sequences, FiniteSets

CONSTANT Reserved   \* RESERVED_BUFFERS: ids below it, master and cue, are never handed out

ASSUME SessionAssumption ==
    /\ MaxNodes >= 5
    /\ MaxChannels >= 2
    /\ Reserved \in Nat /\ Reserved >= 4
    /\ MaxBuffers > 10

\* The fixed slots and buffers of create_4channel_mixer.
Eq == 0
BootLimiter == 1
CueSumL == 2
CueSumR == 3
Capture == 4
Fixed == {Eq, CueSumL, CueSumR, Capture}
Master == <<0, 1>>
Cue    == <<2, 3>>

Types == {"MASTERING_EQ", "LIMITER", "SUMMING", "CAPTURE", "SAMPLER", "GAIN"}

DesiredNode == [type : Types, in : Seq(Buffers), out : Seq(Buffers)]

\* A slot without a node.
Empty == [type |-> "EMPTY", in |-> <<>>, out |-> <<>>]

Boot ==
    [n \in Nodes |->
       CASE n = Eq          -> [type |-> "MASTERING_EQ", in |-> <<4, 5>>, out |-> <<6, 7>>]
         [] n = BootLimiter -> [type |-> "LIMITER",      in |-> <<6, 7>>, out |-> Master]
         [] n = CueSumL     -> [type |-> "SUMMING",      in |-> <<8>>,    out |-> <<Cue[1]>>]
         [] n = CueSumR     -> [type |-> "SUMMING",      in |-> <<9>>,    out |-> <<Cue[2]>>]
         [] n = Capture     -> [type |-> "CAPTURE",      in |-> Master,   out |-> <<>>]
         [] OTHER           -> Empty]

VARIABLES
    graph,         \* current_topology.routing
    types,         \* active_node_types: the type of each slot, or EMPTY
    limiterName,   \* node_names["master_limiter"]
    strips,        \* history: the <<sampler, gain>> pairs the console holds
    target,        \* history: what the last edit asked for
    misfired       \* history: the limiter switch removed another node

sessionVars == <<graph, types, limiterName, strips, target, misfired>>

-----------------------------------------------------------------------------
(***************************************************************************)
(* DesiredGraphState: what each slot holds.                                *)
(***************************************************************************)
FromLive(g, kinds) ==
    [n \in Nodes |->
       LET r == g.routing[n] IN
       IF kinds[n] = "EMPTY" THEN Empty
       ELSE [type |-> kinds[n],
             in   |-> [j \in 1 .. r.nin  |-> r.in[j - 1]],
             out  |-> [j \in 1 .. r.nout |-> r.out[j - 1]]]]

Members(s) == {s[j] : j \in DOMAIN s}

OccupiedSlots(state) == {n \in Nodes : state[n] # Empty}

FreeSlots(state) == Nodes \ OccupiedSlots(state)

BuffersInUse(state) == UNION {Members(state[n].in) \cup Members(state[n].out) : n \in Nodes}

\* Mutated form: whatever is not reserved is free.
FreeBuffersUnfiltered(state) == Reserved .. MaxBuffers - 1

FreeBuffers(state) == (Reserved .. MaxBuffers - 1) \ BuffersInUse(state)

\* The free lists are handed out from the lowest id.
Lowest(S) == CHOOSE i \in S : \A j \in S : i <= j
LowestTwo(S) == <<Lowest(S), Lowest(S \ {Lowest(S)})>>

-----------------------------------------------------------------------------
(***************************************************************************)
(* GraphReconciler::reconcile, and the commands it makes run by            *)
(* TopologyManager::handle_topology_command.  have and want are what the   *)
(* graph was before the first command and what it is to become; g is what  *)
(* the commands before this one have made of it.                           *)
(***************************************************************************)
\* A place that is new or is to name another buffer.
Differs(have, want, j) == j > Len(have) \/ have[j] # want[j]

\* UpdateEdge
InputsWired(g, n, have, want) ==
    LET wired[j \in 0 .. Len(want)] ==
          IF j = 0 THEN g
          ELSE IF Differs(have, want, j) THEN SetInput(wired[j - 1], n, j - 1, want[j])
          ELSE wired[j - 1]
    IN  wired[Len(want)]

\* UpdateOutputEdge
OutputsWired(g, n, have, want) ==
    LET wired[j \in 0 .. Len(want)] ==
          IF j = 0 THEN g
          ELSE IF Differs(have, want, j) THEN SetOutput(wired[j - 1], n, j - 1, want[j])
          ELSE wired[j - 1]
    IN  wired[Len(want)]

\* Mutated form: the inputs the target no longer has are left connected.
ExcessKept(g, n, have, want) == g

\* Disconnect: the inputs the target no longer has, highest first.
ExcessDropped(g, n, have, want) ==
    LET excess == AtLeast(Len(have) - Len(want), 0)
        dropped[k \in 0 .. excess] ==
          IF k = 0 THEN g ELSE DropInput(dropped[k - 1], n, Len(have) - k)
    IN  dropped[excess]

Wired(g, n, have, want) ==
    OutputsWired(InputsWired(g, n, have.in, want.in), n, have.out, want.out)

\* The commands of one slot: AddNode, a change of what is there (SwapProcessor if
\* the type is another), or RemoveNode.
SlotReconciled(live, n, have, want) ==
    LET g == live.graph IN
    [graph |->
       CASE have = Empty /\ want # Empty -> Wired(AddNodeTo(g, n), n, have, want)
         [] have # Empty /\ want # Empty ->
              ExcessDropped(Wired(g, n, have, want), n, have.in, want.in)
         [] have # Empty /\ want = Empty ->
              RemoveNodeFrom(g, n, {m \in Nodes \ {n} : live.types[m] # "EMPTY"})
         [] OTHER -> g,
     types |-> [live.types EXCEPT ![n] = want.type]]

Live == FromLive(graph, types)

Reconciled(live, wanted) ==
    LET current == FromLive(live.graph, live.types)
        upTo[i \in 0 .. MaxNodes] ==
          IF i = 0 THEN live
          ELSE SlotReconciled(upTo[i - 1], i - 1, current[i - 1], wanted[i - 1])
    IN  upTo[MaxNodes]

\* apply_reconciled
ApplyReconciled(wanted) ==
    LET live == Reconciled([graph |-> graph, types |-> types], wanted) IN
    /\ graph' = live.graph
    /\ types' = live.types
    /\ target' = wanted

\* Bootstrap issues the same commands a reconciliation of Boot with an empty
\* graph does.
SessionInit ==
    LET booted == Reconciled([graph |-> EmptyGraph, types |-> [n \in Nodes |-> "EMPTY"]], Boot)
    IN
    /\ graph = booted.graph
    /\ types = booted.types
    /\ limiterName = BootLimiter
    /\ strips = {}
    /\ target = Boot
    /\ misfired = FALSE

-----------------------------------------------------------------------------
(***************************************************************************)
(* Conductor::add_channel_strip                                            *)
(***************************************************************************)
\* find_producer_of: the first node that writes the buffer.
ProducersOf(state, b) == {n \in Nodes : b \in Members(state[n].out)}
ProducerOf(state, b) == Lowest(ProducersOf(state, b))

CanJoin(state, b) ==
    /\ ProducersOf(state, b) # {}
    /\ Len(state[ProducerOf(state, b)].in) < MaxChannels

\* Mutated form: the new input takes the place of the last one.
JoinOverLast(state, b, signal) ==
    LET n == ProducerOf(state, b)
    IN  [state EXCEPT ![n].in = Append(SubSeq(@, 1, Len(@) - 1), signal)]

Join(state, b, signal) ==
    [state EXCEPT ![ProducerOf(state, b)].in = Append(@, signal)]

WithStrip(state, samp, gain, s, g) ==
    [state EXCEPT ![samp] = [type |-> "SAMPLER", in |-> <<>>, out |-> s],
                  ![gain] = [type |-> "GAIN", in |-> s, out |-> g]]

\* The strip is placed whole or not at all.
AddChannelStrip ==
    LET slots == LowestTwo(FreeSlots(Live))
        bufs  == FreeBuffers(Live)
        s     == LowestTwo(bufs)
        g     == LowestTwo(bufs \ Members(s))
        placed == WithStrip(Live, slots[1], slots[2], s, g)
        left   == Join(placed, Cue[1], g[1])
    IN
    /\ Cardinality(FreeSlots(Live)) >= 2
    /\ Cardinality(bufs) >= 4
    /\ CanJoin(placed, Cue[1]) /\ CanJoin(left, Cue[2])
    /\ ApplyReconciled(Join(left, Cue[2], g[2]))
    /\ strips' = strips \cup {slots}
    /\ UNCHANGED <<limiterName, misfired>>

(***************************************************************************)
(* Conductor::remove_nodes                                                 *)
(***************************************************************************)
\* Mutated form: an orphaned input is zeroed where it stands.
KeptZeroed(in, orphaned) ==
    [j \in DOMAIN in |-> IF in[j] \in orphaned THEN NoBuffer ELSE in[j]]

\* The inputs that are not orphaned, moved together.
Kept(in, orphaned) ==
    LET kept[j \in 0 .. Len(in)] ==
          IF j = 0 THEN <<>>
          ELSE IF in[j] \in orphaned THEN kept[j - 1] ELSE Append(kept[j - 1], in[j])
    IN  kept[Len(in)]

Without(state, ids) ==
    LET orphaned == UNION {Members(state[n].out) : n \in ids}
    IN  [n \in Nodes |->
           IF n \in ids THEN Empty
           ELSE [state[n] EXCEPT !.in = Kept(@, orphaned)]]

RemoveNodes ==
    \E strip \in strips :
      /\ ApplyReconciled(Without(Live, Members(strip)))
      /\ strips' = strips \ {strip}
      /\ UNCHANGED <<limiterName, misfired>>

(***************************************************************************)
(* Conductor::set_master_limiter                                           *)
(***************************************************************************)
\* Whatever occupies the slot the limiter had when it was last inserted.
LimiterIsLive == types[limiterName] # "EMPTY"

\* Mutated form: the EQ keeps the buffers it had.
EqUntouched(state, pair) == state

EqWrites(state, pair) == [state EXCEPT ![Eq].out = pair]

TakeLimiterOut ==
    /\ LimiterIsLive
    /\ ApplyReconciled([EqWrites(Live, Master) EXCEPT ![limiterName] = Empty])
    /\ misfired' = (misfired \/ types[limiterName] # "LIMITER")
    /\ UNCHANGED <<limiterName, strips>>

PutLimiterBack ==
    LET slot == Lowest(FreeSlots(Live))
        pair == LowestTwo(FreeBuffers(Live))
    IN
    /\ ~LimiterIsLive
    /\ FreeSlots(Live) # {}
    /\ Cardinality(FreeBuffers(Live)) >= 2
    /\ ApplyReconciled([EqWrites(Live, pair) EXCEPT
                          ![slot] = [type |-> "LIMITER", in |-> pair, out |-> Master]])
    /\ limiterName' = slot
    /\ UNCHANGED <<strips, misfired>>

SessionNext == AddChannelStrip \/ RemoveNodes \/ TakeLimiterOut \/ PutLimiterBack

SessionSpec == SessionInit /\ [][SessionNext]_sessionVars

-----------------------------------------------------------------------------
\* Types: the graph is well formed and every slot the console knows of exists.
SessionTypeOK ==
    /\ graph \in Graph
    /\ types \in [Nodes -> Types \cup {"EMPTY"}]
    /\ limiterName \in Nodes
    /\ strips \subseteq Nodes \X Nodes
    /\ misfired \in BOOLEAN

LimiterInPath == \E n \in Nodes : types[n] = "LIMITER"

\* The commands of a reconciliation, run one after another on the live graph,
\* lead to the graph that was asked for, although they were computed before
\* the first of them ran (GraphReconciler::reconcile, apply_reconciled).
\* Taking the limiter out is the exception: see EqDrivesTheMaster.
ReconcileReaches == [][TakeLimiterOut \/ misfired \/ Live' = target']_sessionVars

\* A strip is never silent: its gain stage reads its sampler, and each side of
\* its output is one of the inputs of the bus, once (add_channel_strip: "A
\* strip that does not reach the master is silent").
StripsReachTheBus ==
    ~misfired => \A s \in strips :
        /\ types[s[1]] = "SAMPLER" /\ types[s[2]] = "GAIN"
        /\ Live[s[2]].in = Live[s[1]].out
        /\ \A side \in {1, 2} :
             LET bus == Live[<<CueSumL, CueSumR>>[side]].in
             IN  Cardinality({j \in DOMAIN bus : bus[j] = Live[s[2]].out[side]}) = 1

\* However many edits a session went through, it uses what its strips and its
\* limiter need and no more, besides the buffers of the master itself: two nodes
\* and four buffers a strip, one input of each bus side, one node and two buffers
\* for the limiter (remove_nodes).
NothingLeaks ==
    ~misfired =>
        LET limiters == IF LimiterInPath THEN 1 ELSE 0 IN
        /\ Cardinality(OccupiedSlots(Live)) = Cardinality(Fixed) + limiters + 2 * Cardinality(strips)
        /\ Cardinality(BuffersInUse(Live) \ Members(Master))
             = Cardinality(Members(Cue) \cup {4, 5, 8, 9}) + 2 * limiters
                 + 4 * Cardinality(strips)
        /\ \A n \in {CueSumL, CueSumR} : Len(Live[n].in) = 1 + Cardinality(strips)

\* No buffer has two writers: ids freed by one edit and handed out by a later
\* one never reach a node that still writes them (free_buffers).
OneWriterPerBuffer ==
    \A m, n \in Nodes :
        Members(Live[m].out) \cap Members(Live[n].out) # {} => m = n

\* The master chain holds whenever the limiter is in it: the limiter reads
\* what the EQ writes and drives both sides of the master
\* (set_master_limiter: "EQ -> fresh pair -> limiter -> master").
LimiterInChain ==
    \A n \in Nodes :
        types[n] = "LIMITER" /\ ~misfired => /\ Live[n].in = Live[Eq].out
                                             /\ Live[n].out = Master

\* set_master_limiter, "Off rewires the mastering EQ straight to the master
\* buffers": without a limiter the EQ drives both sides.
EqDrivesTheMaster == LimiterInPath \/ Live[Eq].out = Master
=============================================================================
