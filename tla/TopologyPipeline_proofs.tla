------------------------ MODULE TopologyPipeline_proofs ------------------------
(***************************************************************************)
(* Safety of the topology pipeline, for every size of the node array, of   *)
(* the rings and of the pending buffer, and any number of commands.        *)
(*                                                                         *)
(* TypeOK alone is not inductive: a SetTopology could name a topology that *)
(* was never published.  QueuedKnown excludes that, and the two are proved *)
(* together.                                                               *)
(***************************************************************************)
EXTENDS TopologyPipeline, SequenceTheorems, WellFoundedInduction, TLAPS

-----------------------------------------------------------------------------
(***************************************************************************)
(* Every edit of a graph yields a graph: the wiring stays within the node, *)
(* channel and buffer ranges, and the node count within the node array.    *)
(***************************************************************************)

\* A graph without nodes is a graph.
LEMMA EmptyGraphType == EmptyGraph \in Graph
<1>1. Unrouted \in Routing
  BY SizeAssumption DEF Unrouted, Routing, NoBuffer, Channels, Buffers
<1> QED
  BY <1>1, SizeAssumption DEF EmptyGraph, Graph, Nodes

\* The new count of a removal never exceeds the old one.
LEMMA CountOfBound ==
  ASSUME NEW occupied, NEW count \in Nat, occupied \subseteq Nat
  PROVE  CountOf(occupied, count) \in 0 .. count
<1> DEFINE last == {i \in occupied : /\ i < count
                                     /\ \A j \in occupied : j < count => j <= i}
           top == CHOOSE i \in last : TRUE
<1>1. CASE last = {}
  BY <1>1 DEF CountOf
<1>2. CASE last # {}
  <2>1. top \in last
    BY <1>2
  <2>2. CountOf(occupied, count) = top + 1
    BY <1>2, Zenon DEF CountOf
  <2>3. top \in Nat /\ top < count
    BY <2>1
  <2> HIDE DEF top
  <2> QED
    BY <2>2, <2>3
<1> QED
  BY <1>1, <1>2

\* Rewiring one node well keeps the graph well formed.
LEMMA RewiredType ==
  ASSUME NEW g \in Graph, NEW n \in Nodes, NEW r \in Routing
  PROVE  Rewired(g, n, r) \in Graph
  BY DEF Rewired, Graph

\* AddNode keeps the graph well formed.
LEMMA AddNodeToType ==
  ASSUME NEW g \in Graph, NEW n \in Nodes
  PROVE  AddNodeTo(g, n) \in Graph
<1> DEFINE r == g.routing[n]
           q == [in |-> r.in, nin |-> 0, out |-> r.out, nout |-> 0]
<1>1. q \in Routing
  BY SizeAssumption DEF Graph, Routing
<1>2. AtLeast(g.count, n + 1) \in 0 .. MaxNodes
  BY SizeAssumption DEF Graph, Nodes, AtLeast
<1>3. [g.routing EXCEPT ![n] = q] \in [Nodes -> Routing]
  BY <1>1 DEF Graph
<1> QED
  BY <1>2, <1>3 DEF AddNodeTo, Graph

\* UpdateEdge keeps the graph well formed.
LEMMA SetInputType ==
  ASSUME NEW g \in Graph, NEW n \in Nodes, NEW c \in Channels, NEW b \in Buffers
  PROVE  SetInput(g, n, c, b) \in Graph
<1> DEFINE r == g.routing[n]
<1>1. r \in Routing
  BY DEF Graph
<1>2. AtLeast(r.nin, c + 1) \in 0 .. MaxChannels
  BY <1>1, SizeAssumption DEF Routing, Channels, AtLeast
<1>3. [in |-> [r.in EXCEPT ![c] = b], nin |-> AtLeast(r.nin, c + 1),
       out |-> r.out, nout |-> r.nout] \in Routing
  BY <1>1, <1>2 DEF Routing
<1> QED
  BY <1>3, RewiredType DEF SetInput

\* UpdateOutputEdge keeps the graph well formed.
LEMMA SetOutputType ==
  ASSUME NEW g \in Graph, NEW n \in Nodes, NEW c \in Channels, NEW b \in Buffers
  PROVE  SetOutput(g, n, c, b) \in Graph
<1> DEFINE r == g.routing[n]
<1>1. r \in Routing
  BY DEF Graph
<1>2. AtLeast(r.nout, c + 1) \in 0 .. MaxChannels
  BY <1>1, SizeAssumption DEF Routing, Channels, AtLeast
<1>3. [in |-> r.in, nin |-> r.nin,
       out |-> [r.out EXCEPT ![c] = b], nout |-> AtLeast(r.nout, c + 1)] \in Routing
  BY <1>1, <1>2 DEF Routing
<1> QED
  BY <1>3, RewiredType DEF SetOutput

\* Moving the inputs above a slot down reads only slots below the old count.
LEMMA MovedType ==
  ASSUME NEW r \in Routing, NEW c \in Channels
  PROVE  Moved(r, c) \in [Channels -> Buffers]
<1>1. r.in \in [Channels -> Buffers] /\ r.nin \in 0 .. MaxChannels
  BY DEF Routing
<1>2. NoBuffer \in Buffers
  BY SizeAssumption DEF NoBuffer, Buffers
<1>3. ASSUME NEW d \in Channels, d < r.nin - 1 PROVE d + 1 \in Channels
  BY <1>1, <1>3, SizeAssumption DEF Channels
<1> QED
  BY <1>1, <1>2, <1>3 DEF Moved

\* Disconnect keeps the graph well formed.
LEMMA DropInputType ==
  ASSUME NEW g \in Graph, NEW n \in Nodes, NEW c \in Channels
  PROVE  DropInput(g, n, c) \in Graph
<1> DEFINE r == g.routing[n]
<1>1. r \in Routing
  BY DEF Graph
<1>2. CASE c >= r.nin
  BY <1>2 DEF DropInput
<1>3. CASE ~ (c >= r.nin)
  <2>1. r.nin - 1 \in 0 .. MaxChannels
    BY <1>1, <1>3, SizeAssumption DEF Routing, Channels
  <2>2. Moved(r, c) \in [Channels -> Buffers]
    BY <1>1, MovedType
  <2>3. [in |-> Moved(r, c), nin |-> r.nin - 1, out |-> r.out, nout |-> r.nout]
          \in Routing
    BY <1>1, <2>1, <2>2 DEF Routing
  <2> QED
    BY <1>3, <2>3, RewiredType DEF DropInput
<1> QED
  BY <1>2, <1>3

\* RemoveNode keeps the graph well formed, whatever set of indices counts as
\* occupied.
LEMMA RemoveNodeFromType ==
  ASSUME NEW g \in Graph, NEW n \in Nodes, NEW occupied \in SUBSET (0 .. MaxNodes)
  PROVE  RemoveNodeFrom(g, n, occupied) \in Graph
<1> DEFINE cleared == (Reads(g.routing[n]) \cup Writes(g.routing[n])) \ {NoBuffer}
<1>1. NoBuffer \in Buffers
  BY SizeAssumption DEF NoBuffer, Buffers
<1>2. ASSUME NEW m \in Nodes PROVE Detach(g.routing[m], cleared) \in Routing
  <2>1. g.routing[m] \in Routing
    BY DEF Graph
  <2> QED
    BY <1>1, <2>1 DEF Detach, Routing
<1>3. Unrouted \in Routing
  BY SizeAssumption DEF Unrouted, Routing, NoBuffer, Channels, Buffers
<1>4. g.count \in 0 .. MaxNodes /\ MaxNodes \in Nat
  BY SizeAssumption DEF Graph
<1>5. CountOf(occupied, g.count) \in 0 .. g.count
  <2>1. g.count \in Nat /\ occupied \subseteq Nat
    BY <1>4
  <2> QED
    BY <2>1, CountOfBound
<1>6. CountOf(occupied, g.count) \in 0 .. MaxNodes
  BY <1>4, <1>5
<1> QED
  BY <1>2, <1>3, <1>6 DEF RemoveNodeFrom, Graph

-----------------------------------------------------------------------------
(***************************************************************************)
(* The two copies of the edits.  The audio thread makes each of them with  *)
(* statements of its own; on every graph they come to the same result.     *)
(***************************************************************************)

\* What is known of the wiring of one node.
LEMMA GraphFields ==
  ASSUME NEW g \in Graph, NEW n \in Nodes
  PROVE  /\ g.count \in 0 .. MaxNodes /\ n \in Nat
         /\ g.routing[n] \in Routing
         /\ g.routing[n].nin \in 0 .. MaxChannels /\ g.routing[n].nout \in 0 .. MaxChannels
  BY SizeAssumption DEF Graph, Routing, Nodes

\* AddNode does the same in both copies.
LEMMA SameAddNode ==
  ASSUME NEW g \in Graph, NEW n \in Nodes
  PROVE  StagedAddNode(g, n) = AddNodeTo(g, n)
<1>1. (IF n >= g.count THEN n + 1 ELSE g.count) = AtLeast(g.count, n + 1)
  BY GraphFields, SizeAssumption DEF AtLeast
<1> QED
  BY <1>1 DEF AddNodeTo, StagedAddNode

\* UpdateEdge does the same in both copies.
LEMMA SameUpdateEdge ==
  ASSUME NEW g \in Graph, NEW n \in Nodes, NEW c \in Channels, NEW b
  PROVE  StagedUpdateEdge(g, n, c, b) = SetInput(g, n, c, b)
<1> DEFINE r == g.routing[n]
<1>1. (IF c >= r.nin THEN c + 1 ELSE r.nin) = AtLeast(r.nin, c + 1)
  BY GraphFields, SizeAssumption DEF AtLeast, Channels
<1> QED
  BY <1>1 DEF SetInput, StagedUpdateEdge

\* UpdateOutputEdge does the same in both copies.
LEMMA SameUpdateOutputEdge ==
  ASSUME NEW g \in Graph, NEW n \in Nodes, NEW c \in Channels, NEW b
  PROVE  StagedUpdateOutputEdge(g, n, c, b) = SetOutput(g, n, c, b)
<1> DEFINE r == g.routing[n]
<1>1. (IF c >= r.nout THEN c + 1 ELSE r.nout) = AtLeast(r.nout, c + 1)
  BY GraphFields, SizeAssumption DEF AtLeast, Channels
<1> QED
  BY <1>1 DEF SetOutput, StagedUpdateOutputEdge

\* Disconnect does the same in both copies: shifting the inputs above the slot
\* and clearing the last one afterwards is choosing per slot what it becomes.
LEMMA SameDisconnect ==
  ASSUME NEW g \in Graph, NEW n \in Nodes, NEW c \in Channels
  PROVE  StagedDisconnect(g, n, c) = DropInput(g, n, c)
<1> DEFINE r == g.routing[n]
           left == r.nin - 1
           shifted == [d \in Channels |-> IF d \in c .. left - 1 THEN r.in[d + 1]
                                                                ELSE r.in[d]]
           cleared == [shifted EXCEPT ![left] = NoBuffer]
<1>1. r.nin \in 0 .. MaxChannels /\ c \in Nat
  BY GraphFields, SizeAssumption DEF Channels
<1>2. CASE c > left
  BY <1>1, <1>2 DEF StagedDisconnect, DropInput
<1>3. CASE ~ (c > left)
  <2>1. left \in Channels
    BY <1>1, <1>3, SizeAssumption DEF Channels
  <2>2. ASSUME NEW d \in Channels PROVE cleared[d] = Moved(r, c)[d]
    <3>1. d \in Nat /\ left \in Nat /\ Moved(r, c)[d] = IF c <= d /\ d < left THEN r.in[d + 1]
                                            ELSE IF d = left THEN NoBuffer ELSE r.in[d]
      BY <1>1, <2>1, SizeAssumption DEF Moved, Channels
    <3>2. CASE d = left
      BY <2>1, <3>1, <3>2
    <3>3. CASE d # left
      <4>1. cleared[d] = shifted[d]
        BY <3>3
      <4>2. d \in c .. left - 1 <=> c <= d /\ d < left
        BY <1>1, <3>1
      <4> QED
        BY <3>1, <3>3, <4>1, <4>2
    <3> QED
      BY <3>2, <3>3
  <2>3. cleared = Moved(r, c)
    BY <2>2 DEF Moved
  <2>4. StagedDisconnect(g, n, c)
          = Rewired(g, n, [in  |-> cleared, nin |-> left,
                           out |-> r.out, nout |-> r.nout])
    BY <1>3 DEF StagedDisconnect
  <2>5. DropInput(g, n, c) = Rewired(g, n, [in  |-> Moved(r, c), nin |-> left,
                                            out |-> r.out, nout |-> r.nout])
    BY <1>1, <1>3 DEF DropInput
  <2> QED
    BY <2>3, <2>4, <2>5
<1> QED
  BY <1>2, <1>3

\* A set of naturals that is not empty has a least element.
LEMMA LeastNat ==
  ASSUME NEW T, T \subseteq Nat, T # {}
  PROVE  \E x \in T : \A y \in T : x <= y
<1>1. PICK R : IsWellFoundedOn(R, Nat) /\ \A x, y \in Nat : y < x => <<y, x>> \in R
  <2>1. \A x, y \in Nat : y < x => <<y, x>> \in OpToRel(<, Nat)
    BY DEF OpToRel
  <2> QED
    BY <2>1, NatLessThanWellFounded, Zenon
<1>2. PICK x \in T : \A y \in T : ~ (<<y, x>> \in R)
  BY <1>1, WFMin
<1>3. \A y \in T : ~ (y < x)
  BY <1>1, <1>2
<1> QED
  BY <1>3

\* Going down from a count to the first occupied index finds the last one.
LEMMA SameCount ==
  ASSUME NEW occupied, NEW count \in Nat, occupied \subseteq Nat
  PROVE  OneAfterLast(occupied, count) = CountOf(occupied, count)
<1> DEFINE last == {i \in occupied : /\ i < count
                                     /\ \A j \in occupied : j < count => j <= i}
           top == CHOOSE i \in last : TRUE
           Free(k) == \A i \in k .. count - 1 : i \notin occupied
           Stops(k) == (k = 0 \/ k - 1 \in occupied) /\ Free(k)
           found == CHOOSE k \in 0 .. count : Stops(k)
<1>1. OneAfterLast(occupied, count) = found
  BY DEF OneAfterLast
<1>2. \E k \in 0 .. count : Stops(k)
  <2> DEFINE T == {k \in 0 .. count : Free(k)}
  <2>1. count \in T /\ T \subseteq Nat
    OBVIOUS
  <2>2. PICK k \in T : \A l \in T : k <= l
    BY <2>1, LeastNat
  <2>3. ASSUME k # 0, k - 1 \notin occupied
        PROVE  FALSE
    <3>1. k - 1 \in 0 .. count /\ Free(k) /\ k \in Nat
      BY <2>1, <2>2, <2>3
    <3>2. \A i \in k - 1 .. count - 1 : i = k - 1 \/ i \in k .. count - 1
      BY <3>1
    <3>3. k - 1 \in T
      BY <2>3, <3>1, <3>2
    <3> QED
      BY <2>2, <3>1, <3>3
  <2> QED
    BY <2>2, <2>3
<1>3. found \in 0 .. count /\ Stops(found)
  BY <1>2
<1> HIDE DEF found
<1>4. CASE found = 0
  <2>1. \A i \in occupied : ~ (i < count)
    BY <1>3, <1>4
  <2>2. last = {}
    BY <2>1
  <2> QED
    BY <1>1, <1>4, <2>2 DEF CountOf
<1>5. CASE found # 0
  <2>1. found - 1 \in occupied /\ found - 1 < count
    BY <1>3, <1>5
  <2>2. \A j \in occupied : j < count => j <= found - 1
    BY <1>3, <1>5
  <2>3. found - 1 \in last
    BY <2>1, <2>2
  <2>4. top \in last
    BY <2>3
  <2> HIDE DEF top
  <2>5. top = found - 1
    BY <1>3, <2>1, <2>2, <2>4
  <2>6. CountOf(occupied, count) = top + 1
    BY <2>3, Zenon DEF CountOf, top
  <2> QED
    BY <1>1, <1>3, <2>5, <2>6
<1> QED
  BY <1>4, <1>5

\* RemoveNode does the same in both copies.
LEMMA SameRemoveNode ==
  ASSUME NEW g \in Graph, NEW n \in Nodes, NEW occupied, occupied \subseteq Nat
  PROVE  StagedRemoveNode(g, n, occupied) = RemoveNodeFrom(g, n, occupied)
<1> DEFINE gone == g.routing[n]
           lost == (Listed(gone.out, gone.nout) \cup Listed(gone.in, gone.nin))
                     \ {NoBuffer}
           Kept(r) == [in  |-> Without(r.in, r.nin, lost),   nin  |-> r.nin,
                       out |-> Without(r.out, r.nout, lost), nout |-> r.nout]
           cleared == (Reads(gone) \cup Writes(gone)) \ {NoBuffer}
<1>1. \A k \in 0 .. MaxChannels : 0 .. k - 1 = {d \in Channels : d < k}
  BY SizeAssumption DEF Channels
<1>2. lost = cleared
  <2>1. Listed(gone.out, gone.nout) = Writes(gone)
    BY <1>1, GraphFields DEF Listed, Writes
  <2>2. Listed(gone.in, gone.nin) = Reads(gone)
    BY <1>1, GraphFields DEF Listed, Reads
  <2> QED
    BY <2>1, <2>2
<1>3. ASSUME NEW m \in Nodes
      PROVE  Kept(g.routing[m]) = Detach(g.routing[m], cleared)
  <2> DEFINE r == g.routing[m]
  <2>1. \A k \in 0 .. MaxChannels : \A c \in Channels : c \in 0 .. k - 1 <=> c < k
    BY <1>1
  <2>2. r.nin \in 0 .. MaxChannels /\ r.nout \in 0 .. MaxChannels
    BY GraphFields
  <2>3. Without(r.in, r.nin, lost)
          = [c \in Channels |-> IF c < r.nin /\ r.in[c] \in cleared THEN NoBuffer
                                ELSE r.in[c]]
    BY <1>2, <2>1, <2>2, Zenon DEF Without
  <2>4. Without(r.out, r.nout, lost)
          = [c \in Channels |-> IF c < r.nout /\ r.out[c] \in cleared THEN NoBuffer
                                ELSE r.out[c]]
    BY <1>2, <2>1, <2>2, Zenon DEF Without
  <2> QED
    BY <2>3, <2>4 DEF Detach
<1>4. [m \in Nodes |-> IF m = n THEN Unrouted ELSE Kept(g.routing[m])]
        = [m \in Nodes |-> IF m = n THEN Unrouted ELSE Detach(g.routing[m], cleared)]
  BY <1>3, Zenon
<1>5. OneAfterLast(occupied, g.count) = CountOf(occupied, g.count)
  <2>1. g.count \in Nat
    BY GraphFields, SizeAssumption
  <2> QED
    BY <2>1, SameCount, Zenon
<1> QED
  BY <1>4, <1>5, Zenon DEF StagedRemoveNode, RemoveNodeFrom
-----------------------------------------------------------------------------
(***************************************************************************)
(* The invariant.                                                          *)
(***************************************************************************)

\* A SetTopology on its way names a published topology.
Known(m, n) == m.op = "SetTopology" => m.topo \in 1 .. n

QueuedKnown ==
    /\ pushing # NoMutation => Known(pushing, Len(published))
    /\ \A i \in 1 .. Len(topoRing) : Known(topoRing[i], Len(published))
    /\ \A i \in 1 .. Len(pending) : Known(pending[i], Len(published))

Inv == TypeOK /\ QueuedKnown

-----------------------------------------------------------------------------
\* What appending does to a sequence.
LEMMA AppendFacts ==
  ASSUME NEW S, NEW q \in Seq(S), NEW e \in S
  PROVE  /\ Append(q, e) \in Seq(S)
         /\ Len(q) \in Nat /\ Len(Append(q, e)) = Len(q) + 1
         /\ \A i \in 1 .. Len(q) : Append(q, e)[i] = q[i]
         /\ Append(q, e)[Len(q) + 1] = e
  BY AppendProperties, LenProperties

\* What taking the first element off does to a sequence.
LEMMA TailFacts ==
  ASSUME NEW S, NEW q \in Seq(S), q # <<>>
  PROVE  /\ Tail(q) \in Seq(S) /\ Head(q) \in S /\ Head(q) = q[1]
         /\ Len(q) \in Nat \ {0} /\ Len(Tail(q)) = Len(q) - 1
         /\ \A i \in 1 .. Len(q) - 1 : Tail(q)[i] = q[i + 1]
  BY HeadTailProperties, LenProperties, EmptySeq

\* Initially nothing is queued and both sides are empty.
LEMMA InitInv == Init => Inv
<1> SUFFICES ASSUME Init PROVE Inv
  OBVIOUS
<1>1. EmptyGraph \in Graph
  BY EmptyGraphType
<1>2. [n \in Nodes |-> FALSE] \in Bypass
  BY DEF Bypass
<1>3. MirrorType
  <2>1. published \in Seq(Topology) /\ issued \in 0 .. MaxCommands
    BY PipelineAssumption, EmptySeq DEF Init
  <2>2. mirror \in Graph /\ mirrorBypass \in Bypass /\ typed \in SUBSET Targets
    BY <1>1, <1>2 DEF Init
  <2>3. edited \in BOOLEAN
    BY DEF Init
  <2> QED
    BY <2>1, <2>2, <2>3 DEF MirrorType
<1>4. QueueType /\ BlockType
  <2>1. /\ topoRing \in Seq(Mutation) /\ Len(topoRing) <= RingCap
        /\ bundleRing \in Seq(Bundle) /\ Len(bundleRing) <= BundleCap
        /\ pending \in Seq(Mutation) /\ Len(pending) <= PendingCap
    BY PipelineAssumption, EmptySeq DEF Init
  <2>2. dropped \in BOOLEAN /\ streamPending \in BOOLEAN /\ pushing = NoMutation
    BY DEF Init
  <2>3. drained \in 0 .. DrainCap /\ pc = "drain"
    BY PipelineAssumption DEF Init
  <2> QED
    BY <2>1, <2>2, <2>3 DEF QueueType, BlockType
<1>5. ProcType
  BY PipelineAssumption, EmptySeq DEF Init, ProcType
<1>6. NodeType
  BY SizeAssumption DEF Init, NodeType
<1>7. SideType
  BY <1>1, <1>2 DEF Init, SideType, Side
<1>8. QueuedKnown
  BY EmptySeq DEF Init, QueuedKnown
<1> QED
  BY <1>3, <1>4, <1>5, <1>6, <1>7, <1>8 DEF Inv, TypeOK

-----------------------------------------------------------------------------
\* The side an edit is made on is a side, whichever it was taken from.
LEMMA StagedIsSide ==
  ASSUME SideType PROVE Staged \in Side /\ Inactive \in {0, 1}
<1>1. active \in {0, 1} /\ Inactive \in {0, 1}
  BY DEF SideType, Inactive
<1>2. sides[active] \in Side /\ sides[Inactive] \in Side
  BY <1>1 DEF SideType
<1> QED
  BY <1>1, <1>2 DEF Staged, Side

\* Staging a graph keeps both sides well formed.
LEMMA StageType ==
  ASSUME SideType, NEW g \in Graph, Stage(g) PROVE SideType'
<1>1. Staged \in Side /\ Inactive \in {0, 1}
  BY StagedIsSide
<1>2. [Staged EXCEPT !.graph = g] \in Side
  BY <1>1 DEF Side
<1> QED
  BY <1>1, <1>2 DEF SideType, Stage

\* Retiring a processor keeps the garbage ring within its size.
LEMMA RetireType ==
  ASSUME ProcType, NEW p \in Procs \cup {Dummy}, Retire(p) PROVE ProcType'
<1>1. CASE Len(garbage) < GarbageCap
  <2>1. garbage' = Append(garbage, p) /\ fate' = fate
    BY <1>1 DEF Retire
  <2>2. /\ garbage' \in Seq(Procs \cup {Dummy}) /\ Len(garbage') = Len(garbage) + 1
        /\ Len(garbage) \in Nat
    BY <2>1, AppendFacts DEF ProcType
  <2> QED
    BY <1>1, <2>1, <2>2, PipelineAssumption DEF ProcType
<1>2. CASE ~ (Len(garbage) < GarbageCap)
  <2>1. fate' = (IF p = Dummy THEN fate ELSE [fate EXCEPT ![p] = "leaked"])
          /\ garbage' = garbage
    BY <1>2 DEF Retire, Lose
  <2> QED
    BY <2>1 DEF ProcType
<1> QED
  BY <1>1, <1>2

\* A mutation taken into the pending buffer keeps it within its size, and
\* names a published topology if it is a SetTopology.
LEMMA EnqueueType ==
  ASSUME QueueType, ProcType, NEW n, NEW m \in Mutation, Known(m, n), Enqueue(m),
         \A i \in 1 .. Len(pending) : Known(pending[i], n)
  PROVE  /\ pending' \in Seq(Mutation) /\ Len(pending') <= PendingCap
         /\ dropped' \in BOOLEAN
         /\ ProcType'
         /\ \A i \in 1 .. Len(pending') : Known(pending'[i], n)
<1>1. CASE Len(pending) < PendingCap
  <2>1. pending' = Append(pending, m) /\ UNCHANGED <<garbage, fate, dropped>>
    BY <1>1 DEF Enqueue
  <2>2. /\ pending' \in Seq(Mutation) /\ Len(pending') = Len(pending) + 1
        /\ Len(pending) \in Nat
        /\ \A i \in 1 .. Len(pending) : pending'[i] = pending[i]
        /\ pending'[Len(pending) + 1] = m
    BY <2>1, AppendFacts DEF QueueType
  <2>3. \A i \in 1 .. Len(pending') : pending'[i] = m \/ i \in 1 .. Len(pending)
    BY <2>2
  <2>4. \A i \in 1 .. Len(pending') : Known(pending'[i], n)
    BY <2>2, <2>3
  <2> QED
    BY <1>1, <2>1, <2>2, <2>4, PipelineAssumption DEF QueueType, ProcType
<1>2. CASE ~ (Len(pending) < PendingCap)
  <2>1. dropped' = TRUE /\ pending' = pending
    BY <1>2 DEF Enqueue
  <2>2. ProcType'
    <3>1. CASE m \notin AddMutation
      BY <1>2, <3>1 DEF Enqueue, ProcType
    <3>2. CASE m \in AddMutation /\ Len(garbage) < GarbageCap
      <4>1. garbage' = Append(garbage, m.proc) /\ fate' = fate
        BY <1>2, <3>2 DEF Enqueue
      <4>2. m.proc \in Procs
        BY <3>2 DEF AddMutation
      <4>3. garbage' \in Seq(Procs \cup {Dummy}) /\ Len(garbage') = Len(garbage) + 1
              /\ Len(garbage) \in Nat
        BY <4>1, <4>2, AppendFacts DEF ProcType
      <4> QED
        BY <3>2, <4>1, <4>3, PipelineAssumption DEF ProcType
    <3>3. CASE m \in AddMutation /\ ~ (Len(garbage) < GarbageCap)
      <4>1. fate' = [fate EXCEPT ![m.proc] = "freedOnRT"] /\ garbage' = garbage
        BY <1>2, <3>3 DEF Enqueue
      <4> QED
        BY <4>1 DEF ProcType
    <3> QED
      BY <3>1, <3>2, <3>3
  <2> QED
    BY <2>1, <2>2 DEF QueueType
<1> QED
  BY <1>1, <1>2

-----------------------------------------------------------------------------
(***************************************************************************)
(* The conductor's steps.                                                  *)
(***************************************************************************)
\* What a conductor command leaves alone: the audio thread's state and what
\* is queued already.
LEMMA QueuedUnchanged ==
  ASSUME Inv, UNCHANGED <<topoRing, pending>>, published' = published,
         pushing' # NoMutation => Known(pushing', Len(published))
  PROVE  QueuedKnown'
  BY DEF Inv, QueuedKnown

\* Nothing of the audio thread changes type in a step that leaves it alone.
LEMMA RTType ==
  ASSUME TypeOK, RTUnchanged PROVE SideType' /\ NodeType' /\ BlockType'
  BY DEF TypeOK, RTUnchanged, SideType, NodeType, BlockType, sideVars, nodeVars, blockVars

\* Accepting a command keeps the count of commands within its bound.
LEMMA AcceptType ==
  ASSUME MirrorType, NEW op, Accept(op) PROVE issued' \in 0 .. MaxCommands
  BY PipelineAssumption DEF Accept, MirrorType

\* AddNode (conductor) keeps the invariant.
LEMMA AddNodeInv ==
  ASSUME Inv, NEW n \in Targets, AddNode(n) PROVE Inv'
<1> USE DEF Inv, TypeOK
<1>1. PICK p \in Procs : /\ fate' = [fate EXCEPT ![p] = "live"]
                         /\ pushing' = [op |-> "AddNode", node |-> n, proc |-> p]
  BY DEF AddNode
<1>2. pushing' \in Mutation /\ Known(pushing', Len(published))
  BY <1>1 DEF Mutation, AddMutation, Known
<1>3. /\ UNCHANGED <<mirrorBypass, published, topoRing, bundleRing, garbage, dropped>>
      /\ RTUnchanged /\ UNCHANGED pending
  BY DEF AddNode, RTUnchanged
<1>4. MirrorType'
  <2>1. mirror' \in Graph
    BY AddNodeToType DEF AddNode, MirrorType
  <2>2. issued' \in 0 .. MaxCommands
    BY AcceptType DEF AddNode
  <2> QED
    BY <1>3, <2>1, <2>2 DEF AddNode, MirrorType
<1>5. QueueType'
  BY <1>2, <1>3 DEF QueueType
<1>6. ProcType'
  BY <1>1, <1>3 DEF ProcType
<1>7. QueuedKnown'
  BY <1>2, <1>3, QueuedUnchanged
<1> QED
  BY <1>3, <1>4, <1>5, <1>6, <1>7, RTType

\* SwapProcessor (conductor) keeps the invariant.
LEMMA SwapProcessorInv ==
  ASSUME Inv, NEW n \in Targets, SwapProcessor(n) PROVE Inv'
<1> USE DEF Inv, TypeOK
<1>1. PICK p \in Procs : /\ fate' = [fate EXCEPT ![p] = "live"]
                         /\ pushing' = [op |-> "SwapProcessor", node |-> n, proc |-> p]
  BY DEF SwapProcessor
<1>2. pushing' \in Mutation /\ Known(pushing', Len(published))
  BY <1>1 DEF Mutation, AddMutation, Known
<1>3. /\ UNCHANGED <<mirror, mirrorBypass, published, edited, topoRing, bundleRing,
                     garbage, dropped>>
      /\ RTUnchanged /\ UNCHANGED pending
  BY DEF SwapProcessor, RTUnchanged
<1>4. MirrorType'
  <2>1. issued' \in 0 .. MaxCommands
    BY AcceptType DEF SwapProcessor
  <2> QED
    BY <1>3, <2>1 DEF SwapProcessor, MirrorType
<1>5. QueueType'
  BY <1>2, <1>3 DEF QueueType
<1>6. ProcType'
  BY <1>1, <1>3 DEF ProcType
<1>7. QueuedKnown'
  BY <1>2, <1>3, QueuedUnchanged
<1> QED
  BY <1>3, <1>4, <1>5, <1>6, <1>7, RTType

\* RemoveNode (conductor) keeps the invariant.
LEMMA RemoveNodeInv ==
  ASSUME Inv, NEW n \in Nodes, RemoveNode(n) PROVE Inv'
<1> USE DEF Inv, TypeOK
<1>1. pushing' \in Mutation /\ Known(pushing', Len(published))
  BY DEF RemoveNode, Mutation, NodeMutation, Known
<1>2. /\ UNCHANGED <<published, topoRing, bundleRing, garbage, fate, dropped>>
      /\ RTUnchanged /\ UNCHANGED pending
  BY DEF RemoveNode, RTUnchanged, procVars
<1>3. MirrorType'
  <2>1. typed' \in SUBSET Targets
    BY DEF RemoveNode, MirrorType
  <2>2. mirror' \in Graph
    BY <2>1, RemoveNodeFromType DEF RemoveNode, MirrorType, Targets
  <2>3. mirrorBypass' \in Bypass
    BY DEF RemoveNode, MirrorType, Bypass
  <2>4. issued' \in 0 .. MaxCommands
    BY AcceptType DEF RemoveNode
  <2> QED
    BY <1>2, <2>1, <2>2, <2>3, <2>4 DEF RemoveNode, MirrorType
<1>4. QueueType'
  BY <1>1, <1>2 DEF QueueType
<1>5. ProcType'
  BY <1>2 DEF ProcType
<1>6. QueuedKnown'
  BY <1>1, <1>2, QueuedUnchanged
<1> QED
  BY <1>2, <1>3, <1>4, <1>5, <1>6, RTType

\* A bundle of one command.
LEMMA OneIsBundle ==
  ASSUME NEW e \in BundleCommand PROVE <<e>> \in Bundle
<1>1. <<e>> \in Seq(BundleCommand) /\ Len(<<e>>) = 1
  OBVIOUS
<1> QED
  BY <1>1, EmptySeq DEF Bundle

\* A bundle of the same command several times.
LEMMA ManyIsBundle ==
  ASSUME NEW e \in BundleCommand, NEW times \in 1 .. MaxBundle
  PROVE  [i \in 1 .. times |-> e] \in Bundle
<1> DEFINE bundle == [i \in 1 .. times |-> e]
<1>1. times \in Nat /\ times # 0
  BY PipelineAssumption
<1>2. bundle \in [1 .. times -> BundleCommand]
  OBVIOUS
<1>3. bundle \in Seq(BundleCommand) /\ Len(bundle) = times
  BY <1>1, <1>2, SeqDef, LenProperties
<1> QED
  BY <1>1, <1>3, EmptySeq DEF Bundle

\* A bundle ring that is full keeps what it holds.
LEMMA SendBundleType ==
  ASSUME QueueType, NEW bundle \in Bundle, SendBundle(bundle)
  PROVE  bundleRing' \in Seq(Bundle) /\ Len(bundleRing') <= BundleCap
<1>1. CASE Len(bundleRing) < BundleCap
  <2>1. bundleRing' = Append(bundleRing, bundle)
    BY <1>1 DEF SendBundle
  <2>2. /\ bundleRing' \in Seq(Bundle) /\ Len(bundleRing') = Len(bundleRing) + 1
        /\ Len(bundleRing) \in Nat
    BY <2>1, AppendFacts DEF QueueType
  <2> QED
    BY <1>1, <2>2, PipelineAssumption
<1>2. CASE ~ (Len(bundleRing) < BundleCap)
  BY <1>2 DEF SendBundle, QueueType
<1> QED
  BY <1>1, <1>2

\* Both edges, given that the edit they make yields a graph.
LEMMA UpdateEdgeInv ==
  ASSUME Inv, NEW n \in Targets, NEW c \in Channels, NEW b \in BufferArgs,
         UpdateEdge(n, c, b)
  PROVE  Inv'
<1> USE DEF Inv, TypeOK
<1> DEFINE e == [op |-> "UpdateEdge", node |-> n, slot |-> c, buffer |-> b]
<1>1. e \in EdgeMutation /\ e \in Mutation /\ <<e>> \in Bundle
        /\ Known(e, Len(published))
  BY OneIsBundle DEF EdgeMutation, Mutation, BundleCommand, Known
<1>2. /\ UNCHANGED <<mirrorBypass, typed, published, topoRing, garbage, fate, dropped>>
      /\ RTUnchanged /\ UNCHANGED pending
  BY DEF UpdateEdge, Edge, RTUnchanged, procVars
<1>3. issued' \in 0 .. MaxCommands
  BY AcceptType DEF UpdateEdge, Edge
<1>4. ProcType'
  BY <1>2 DEF ProcType
<1>5. CASE b \notin Buffers
  <2>1. SendBundle(<<e>>) /\ UNCHANGED <<mirror, pushing, edited>>
    BY <1>5 DEF UpdateEdge, Edge
  <2>2. bundleRing' \in Seq(Bundle) /\ Len(bundleRing') <= BundleCap
    BY <1>1, <2>1, SendBundleType
  <2>3. MirrorType' /\ QueueType'
    BY <1>2, <1>3, <2>1, <2>2 DEF MirrorType, QueueType
  <2>4. QueuedKnown'
    BY <1>2, <2>1, QueuedUnchanged DEF QueuedKnown
  <2> QED
    BY <1>2, <1>4, <2>3, <2>4, RTType
<1>6. CASE b \in Buffers
  <2>1. /\ mirror' = IF n \in Nodes THEN SetInput(mirror, n, c, b) ELSE mirror
        /\ pushing' = e /\ edited' = TRUE /\ UNCHANGED bundleRing
    BY <1>6 DEF UpdateEdge, Edge
  <2>2. mirror' \in Graph
    BY <1>6, <2>1, SetInputType DEF MirrorType
  <2>3. MirrorType' /\ QueueType'
    BY <1>1, <1>2, <1>3, <2>1, <2>2 DEF MirrorType, QueueType
  <2>4. QueuedKnown'
    BY <1>1, <1>2, <2>1, QueuedUnchanged
  <2> QED
    BY <1>2, <1>4, <2>3, <2>4, RTType
<1> QED
  BY <1>5, <1>6

\* UpdateOutputEdge (conductor) keeps the invariant, refused or sent.
LEMMA UpdateOutputEdgeInv ==
  ASSUME Inv, NEW n \in Targets, NEW c \in Channels, NEW b \in BufferArgs,
         UpdateOutputEdge(n, c, b)
  PROVE  Inv'
<1> USE DEF Inv, TypeOK
<1> DEFINE e == [op |-> "UpdateOutputEdge", node |-> n, slot |-> c, buffer |-> b]
<1>1. e \in EdgeMutation /\ e \in Mutation /\ <<e>> \in Bundle
        /\ Known(e, Len(published))
  BY OneIsBundle DEF EdgeMutation, Mutation, BundleCommand, Known
<1>2. /\ UNCHANGED <<mirrorBypass, typed, published, topoRing, garbage, fate, dropped>>
      /\ RTUnchanged /\ UNCHANGED pending
  BY DEF UpdateOutputEdge, Edge, RTUnchanged, procVars
<1>3. issued' \in 0 .. MaxCommands
  BY AcceptType DEF UpdateOutputEdge, Edge
<1>4. ProcType'
  BY <1>2 DEF ProcType
<1>5. CASE b \notin Buffers
  <2>1. SendBundle(<<e>>) /\ UNCHANGED <<mirror, pushing, edited>>
    BY <1>5 DEF UpdateOutputEdge, Edge
  <2>2. bundleRing' \in Seq(Bundle) /\ Len(bundleRing') <= BundleCap
    BY <1>1, <2>1, SendBundleType
  <2>3. MirrorType' /\ QueueType'
    BY <1>2, <1>3, <2>1, <2>2 DEF MirrorType, QueueType
  <2>4. QueuedKnown'
    BY <1>2, <2>1, QueuedUnchanged DEF QueuedKnown
  <2> QED
    BY <1>2, <1>4, <2>3, <2>4, RTType
<1>6. CASE b \in Buffers
  <2>1. /\ mirror' = IF n \in Nodes THEN SetOutput(mirror, n, c, b) ELSE mirror
        /\ pushing' = e /\ edited' = TRUE /\ UNCHANGED bundleRing
    BY <1>6 DEF UpdateOutputEdge, Edge
  <2>2. mirror' \in Graph
    BY <1>6, <2>1, SetOutputType DEF MirrorType
  <2>3. MirrorType' /\ QueueType'
    BY <1>1, <1>2, <1>3, <2>1, <2>2 DEF MirrorType, QueueType
  <2>4. QueuedKnown'
    BY <1>1, <1>2, <2>1, QueuedUnchanged
  <2> QED
    BY <1>2, <1>4, <2>3, <2>4, RTType
<1> QED
  BY <1>5, <1>6

\* Disconnect (conductor) keeps the invariant.
LEMMA DisconnectInv ==
  ASSUME Inv, NEW n \in Targets, NEW c \in Channels, Disconnect(n, c) PROVE Inv'
<1> USE DEF Inv, TypeOK
<1>1. pushing' \in Mutation /\ Known(pushing', Len(published))
  BY DEF Disconnect, Mutation, DropMutation, Known
<1>2. /\ UNCHANGED <<mirrorBypass, typed, published, topoRing, bundleRing, garbage, fate,
                     dropped>>
      /\ RTUnchanged /\ UNCHANGED pending
  BY DEF Disconnect, RTUnchanged, procVars
<1>3. MirrorType'
  <2>1. mirror' \in Graph
    BY DropInputType DEF Disconnect, MirrorType
  <2>2. issued' \in 0 .. MaxCommands
    BY AcceptType DEF Disconnect
  <2> QED
    BY <1>2, <2>1, <2>2 DEF Disconnect, MirrorType
<1>4. QueueType' /\ ProcType'
  BY <1>1, <1>2 DEF QueueType, ProcType
<1>5. QueuedKnown'
  BY <1>1, <1>2, QueuedUnchanged
<1> QED
  BY <1>2, <1>3, <1>4, <1>5, RTType

\* SetBypass (conductor) keeps the invariant.
LEMMA SetBypassInv ==
  ASSUME Inv, NEW n \in Targets, NEW flag \in BOOLEAN, SetBypass(n, flag) PROVE Inv'
<1> USE DEF Inv, TypeOK
<1>1. pushing' \in Mutation /\ Known(pushing', Len(published))
  BY DEF SetBypass, Mutation, BypassMutation, Known
<1>2. /\ UNCHANGED <<mirror, typed, published, edited, topoRing, bundleRing, garbage,
                     fate, dropped>>
      /\ RTUnchanged /\ UNCHANGED pending
  BY DEF SetBypass, RTUnchanged, procVars
<1>3. MirrorType'
  <2>1. mirrorBypass' \in Bypass
    BY DEF SetBypass, MirrorType, Bypass
  <2>2. issued' \in 0 .. MaxCommands
    BY AcceptType DEF SetBypass
  <2> QED
    BY <1>2, <2>1, <2>2 DEF SetBypass, MirrorType
<1>4. QueueType' /\ ProcType'
  BY <1>1, <1>2 DEF QueueType, ProcType
<1>5. QueuedKnown'
  BY <1>1, <1>2, QueuedUnchanged
<1> QED
  BY <1>2, <1>3, <1>4, <1>5, RTType

\* What CommitTopology appends is a topology.
LEMMA PublishedType ==
  ASSUME TypeOK, CommitTopology
  PROVE  /\ published' \in Seq(Topology) /\ Len(published') = Len(published) + 1
         /\ Len(published) \in Nat
         /\ \A k \in 1 .. Len(published) : published'[k] = published[k]
         /\ published'[Len(published) + 1]
              = [graph |-> mirror, bypass |-> mirrorBypass, stages |-> Stages,
                 typed |-> typed]
<1>1. [graph |-> mirror, bypass |-> mirrorBypass, stages |-> Stages, typed |-> typed]
        \in Topology
  BY DEF TypeOK, MirrorType, Topology, Stages
<1> QED
  BY <1>1, AppendFacts DEF CommitTopology, TypeOK, MirrorType

\* CommitTopology names the topology it has just published.
LEMMA CommitTopologyInv ==
  ASSUME Inv, CommitTopology PROVE Inv'
<1> USE DEF Inv, TypeOK
<1>1. /\ published' \in Seq(Topology) /\ Len(published') = Len(published) + 1
      /\ Len(published) \in Nat
  BY PublishedType
<1>2. /\ pushing' = [op |-> "SetTopology", topo |-> Len(published')]
      /\ UNCHANGED <<mirror, mirrorBypass, typed, topoRing, bundleRing, garbage, fate,
                     dropped>>
      /\ RTUnchanged /\ UNCHANGED pending /\ edited' = FALSE
  BY DEF CommitTopology, RTUnchanged, procVars
<1>3. pushing' \in Mutation /\ Known(pushing', Len(published'))
  BY <1>1, <1>2 DEF Mutation, SetMutation, Known
<1>4. MirrorType'
  <2>1. issued' \in 0 .. MaxCommands
    BY AcceptType DEF CommitTopology
  <2> QED
    BY <1>1, <1>2, <2>1 DEF MirrorType
<1>5. QueueType' /\ ProcType'
  BY <1>2, <1>3 DEF QueueType, ProcType
<1>6. \A m : Known(m, Len(published)) => Known(m, Len(published'))
  BY <1>1 DEF Known
<1>7. QueuedKnown'
  BY <1>2, <1>3, <1>6 DEF QueuedKnown
<1> QED
  BY <1>2, <1>4, <1>5, <1>7, RTType

\* Bundled commands put nothing on the topology ring.
LEMMA PerformInv ==
  ASSUME Inv, NEW op \in {"PlayNode", "AddSource"}, NEW n \in Nodes,
         NEW times \in 1 .. MaxBundle, Perform(op, n, times)
  PROVE  Inv'
<1> USE DEF Inv, TypeOK
<1>1. [i \in 1 .. times |-> [op |-> op, node |-> n]] \in Bundle
  BY ManyIsBundle DEF BundleCommand
<1>2. /\ UNCHANGED <<mirror, mirrorBypass, typed, published, edited, pushing, topoRing,
                     garbage, fate, dropped>>
      /\ RTUnchanged /\ UNCHANGED pending
  BY DEF Perform, RTUnchanged, procVars
<1>3. bundleRing' \in Seq(Bundle) /\ Len(bundleRing') <= BundleCap
  BY <1>1, SendBundleType DEF Perform
<1>4. issued' \in 0 .. MaxCommands
  BY AcceptType DEF Perform
<1>5. MirrorType' /\ QueueType' /\ ProcType'
  BY <1>2, <1>3, <1>4 DEF MirrorType, QueueType, ProcType
<1>6. QueuedKnown'
  BY <1>2, QueuedUnchanged DEF QueuedKnown
<1> QED
  BY <1>2, <1>5, <1>6, RTType

-----------------------------------------------------------------------------
(***************************************************************************)
(* The topology ring, the audio thread and the garbage ring.               *)
(***************************************************************************)
LEMMA PushInv ==
  ASSUME Inv, Push PROVE Inv'
<1> USE DEF Inv, TypeOK
<1>1. /\ UNCHANGED <<mirror, mirrorBypass, typed, published, edited, issued, bundleRing,
                     garbage, fate, dropped>>
      /\ RTUnchanged /\ UNCHANGED pending
  BY DEF Push, RTUnchanged, conductorVars, procVars
<1>2. /\ pushing \in Mutation /\ Known(pushing, Len(published))
      /\ topoRing' = Append(topoRing, pushing) /\ Len(topoRing) < RingCap
      /\ pushing' = NoMutation
  BY PipelineAssumption, LenProperties
  DEF Push, QueueType, QueuedKnown, TopologyRingFull
<1>3. /\ topoRing' \in Seq(Mutation) /\ Len(topoRing') = Len(topoRing) + 1
      /\ Len(topoRing) \in Nat
      /\ \A i \in 1 .. Len(topoRing) : topoRing'[i] = topoRing[i]
      /\ topoRing'[Len(topoRing) + 1] = pushing
  BY <1>2, AppendFacts DEF QueueType
<1>4. Len(topoRing') <= RingCap
  BY <1>2, <1>3, PipelineAssumption
<1>5. MirrorType' /\ QueueType' /\ ProcType'
  BY <1>1, <1>2, <1>3, <1>4 DEF MirrorType, QueueType, ProcType
<1>6. \A i \in 1 .. Len(topoRing') : Known(topoRing'[i], Len(published))
  <2>1. \A i \in 1 .. Len(topoRing') : i \in 1 .. Len(topoRing) \/ topoRing'[i] = pushing
    BY <1>3
  <2> QED
    BY <1>2, <1>3, <2>1 DEF QueuedKnown
<1>7. QueuedKnown'
  BY <1>1, <1>2, <1>6 DEF QueuedKnown
<1> QED
  BY <1>1, <1>5, <1>7, RTType

\* Dropping a mutation after a second of back-pressure keeps the invariant.
LEMMA GiveUpInv ==
  ASSUME Inv, GiveUp PROVE Inv'
<1> USE DEF Inv, TypeOK
<1>1. /\ UNCHANGED <<mirror, mirrorBypass, typed, published, edited, issued, bundleRing,
                     topoRing, garbage>>
      /\ RTUnchanged /\ UNCHANGED pending /\ pushing' = NoMutation /\ dropped' = TRUE
  BY DEF GiveUp, RTUnchanged, conductorVars
<1>2. ProcType'
  BY <1>1 DEF GiveUp, ProcType
<1>3. MirrorType' /\ QueueType'
  BY <1>1 DEF MirrorType, QueueType
<1>4. QueuedKnown'
  BY <1>1 DEF QueuedKnown
<1> QED
  BY <1>1, <1>2, <1>3, <1>4, RTType

\* What the audio thread never touches.
LEMMA ConductorUnchanged ==
  ASSUME MirrorType, UNCHANGED conductorVars
  PROVE  MirrorType' /\ UNCHANGED published
  BY DEF MirrorType, conductorVars

\* Draining a mutation moves it, or loses it when the pending buffer is full.
LEMMA PopTopologyInv ==
  ASSUME Inv, PopTopology PROVE Inv'
<1> USE DEF Inv, TypeOK
<1> DEFINE m == Head(topoRing)
<1>1. /\ UNCHANGED <<conductorVars, pushing, bundleRing, sideVars, nodeVars, pc,
                     streamPending>>
      /\ topoRing # <<>> /\ topoRing' = Tail(topoRing) /\ Enqueue(m)
      /\ drained < DrainCap /\ drained' = drained + 1
  BY DEF PopTopology, TakesOne
<1>2. MirrorType' /\ UNCHANGED published
  BY <1>1, ConductorUnchanged
<1>3. /\ topoRing' \in Seq(Mutation) /\ m \in Mutation /\ m = topoRing[1]
      /\ Len(topoRing) \in Nat \ {0} /\ Len(topoRing') = Len(topoRing) - 1
      /\ \A i \in 1 .. Len(topoRing) - 1 : topoRing'[i] = topoRing[i + 1]
  BY <1>1, TailFacts DEF QueueType
<1>4. Known(m, Len(published))
  BY <1>3 DEF QueuedKnown
<1>5. /\ pending' \in Seq(Mutation) /\ Len(pending') <= PendingCap
      /\ dropped' \in BOOLEAN
      /\ ProcType'
      /\ \A i \in 1 .. Len(pending') : Known(pending'[i], Len(published))
  <2> HIDE DEF m
  <2> QED
    BY <1>1, <1>3, <1>4, EnqueueType DEF QueuedKnown
<1>6. Len(topoRing') <= RingCap
  BY <1>3, PipelineAssumption DEF QueueType
<1>7. QueueType'
  BY <1>1, <1>3, <1>5, <1>6 DEF QueueType
<1>8. BlockType'
  BY <1>1, PipelineAssumption DEF BlockType
<1>9. SideType' /\ NodeType'
  BY <1>1 DEF SideType, NodeType, sideVars, nodeVars
<1>10. \A i \in 1 .. Len(topoRing') : Known(topoRing'[i], Len(published))
  <2>1. \A i \in 1 .. Len(topoRing') : i + 1 \in 1 .. Len(topoRing)
    BY <1>3
  <2> QED
    BY <1>3, <2>1 DEF QueuedKnown
<1>11. QueuedKnown'
  BY <1>1, <1>2, <1>5, <1>10 DEF QueuedKnown
<1> QED
  BY <1>2, <1>5, <1>7, <1>8, <1>9, <1>11

\* The steps that move the block forward without moving a mutation.
LEMMA EndDrainInv ==
  ASSUME Inv, EndDrain PROVE Inv'
<1> USE DEF Inv, TypeOK, EndDrain, queueVars, sideVars, nodeVars, procVars
<1>1. MirrorType' /\ UNCHANGED published
  BY ConductorUnchanged
<1>2. streamPending' \in BOOLEAN
  BY DEF ChunkFull
<1>3. BlockType'
  BY <1>2 DEF BlockType
<1>4. QueueType' /\ SideType' /\ NodeType' /\ ProcType'
  BY DEF QueueType, SideType, NodeType, ProcType
<1>5. QueuedKnown'
  BY <1>1 DEF QueuedKnown
<1> QED
  BY <1>1, <1>3, <1>4, <1>5

\* The three outcomes of a commit change no wiring and no plan.
LEMMA CommitInv ==
  ASSUME Inv, NothingToCommit \/ RefuseCommit \/ SwapSides PROVE Inv'
<1> USE DEF Inv, TypeOK
<1>1. CommitUnchanged /\ pc' = "apply"
  BY DEF NothingToCommit, RefuseCommit, SwapSides
<1>2. MirrorType' /\ UNCHANGED published
  BY <1>1, ConductorUnchanged DEF CommitUnchanged
<1>3. QueueType' /\ NodeType' /\ BlockType' /\ ProcType'
  BY <1>1
  DEF CommitUnchanged, queueVars, nodeVars, procVars, QueueType, NodeType, BlockType, ProcType
<1>4. SideType'
  <2>1. active' \in {active, Inactive} /\ active \in {0, 1} /\ Inactive \in {0, 1}
    BY DEF SideType, NothingToCommit, RefuseCommit, SwapSides, Inactive
  <2>2. needsCommit' \in BOOLEAN /\ refused' \in BOOLEAN
    BY DEF SideType, NothingToCommit, RefuseCommit, SwapSides
  <2>3. sides' \in [{0, 1} -> Side]
    BY <1>1 DEF SideType, CommitUnchanged
  <2> QED
    BY <2>1, <2>2, <2>3 DEF SideType
<1>5. QueuedKnown'
  BY <1>1, <1>2 DEF QueuedKnown, CommitUnchanged, queueVars
<1> QED
  BY <1>2, <1>3, <1>4, <1>5

\* The command of the bundles that is looked at next.
CommandAtHand == Head(Head(bundleRing))

\* The ends of the phases move the block forward only.
LEMMA EndOfPhaseInv ==
  ASSUME Inv, EndApply \/ EndAsync \/ Render PROVE Inv'
<1> USE DEF Inv, TypeOK
<1>1. /\ UNCHANGED <<conductorVars, queueVars, sideVars, nodeVars, streamPending, pending,
                     procVars, dropped>>
      /\ pc' \in {"async", "render", "drain"} /\ drained' \in {drained, 0}
  BY DEF EndApply, EndAsync, Render
<1>2. MirrorType' /\ UNCHANGED published
  BY <1>1, ConductorUnchanged
<1>3. BlockType'
  BY <1>1, PipelineAssumption DEF BlockType
<1>4. QueueType' /\ SideType' /\ NodeType' /\ ProcType'
  BY <1>1
  DEF QueueType, SideType, NodeType, ProcType, queueVars, sideVars, nodeVars, procVars
<1>5. QueuedKnown'
  BY <1>1, <1>2 DEF QueuedKnown, queueVars
<1> QED
  BY <1>2, <1>3, <1>4, <1>5

\* Taking one command of a bundle adds none to those that are on their way.
LEMMA CommandTaken ==
  ASSUME QueueType, PopBundle
  PROVE  /\ bundleRing # <<>> /\ CommandAtHand \in BundleCommand
         /\ bundleRing' \in Seq(Bundle) /\ Len(bundleRing') <= BundleCap
         /\ \E k \in 1 .. Len(bundleRing) : \E l \in 1 .. Len(bundleRing[k]) :
              CommandAtHand = bundleRing[k][l]
         /\ \A i \in 1 .. Len(bundleRing') : \A j \in 1 .. Len(bundleRing'[i]) :
              \E k \in 1 .. Len(bundleRing) : \E l \in 1 .. Len(bundleRing[k]) :
                bundleRing'[i][j] = bundleRing[k][l]
<1> DEFINE bundle == Head(bundleRing)
<1>1. /\ bundleRing # <<>>
      /\ bundleRing' = IF Len(bundle) = 1 THEN Tail(bundleRing)
                       ELSE [bundleRing EXCEPT ![1] = Tail(bundle)]
  BY DEF PopBundle
<1>2. /\ bundleRing \in Seq(Bundle) /\ Len(bundleRing) \in Nat \ {0}
      /\ bundle = bundleRing[1] /\ bundle \in Bundle
      /\ Tail(bundleRing) \in Seq(Bundle)
      /\ Len(Tail(bundleRing)) = Len(bundleRing) - 1
      /\ \A i \in 1 .. Len(bundleRing) - 1 : Tail(bundleRing)[i] = bundleRing[i + 1]
  BY <1>1, TailFacts DEF QueueType
<1>3. /\ bundle \in Seq(BundleCommand) /\ Len(bundle) \in Nat \ {0}
      /\ CommandAtHand = bundle[1] /\ CommandAtHand \in BundleCommand
      /\ Tail(bundle) \in Seq(BundleCommand) /\ Len(Tail(bundle)) = Len(bundle) - 1
      /\ \A j \in 1 .. Len(bundle) - 1 : Tail(bundle)[j] = bundle[j + 1]
  <2>1. bundle \in Seq(BundleCommand) /\ bundle # <<>>
    BY <1>2 DEF Bundle
  <2>2. CommandAtHand = Head(bundle)
    BY DEF CommandAtHand
  <2> HIDE DEF bundle
  <2> QED
    BY <2>1, <2>2, TailFacts
<1>4. Len(bundleRing) <= BundleCap /\ BundleCap \in Nat
  BY PipelineAssumption DEF QueueType
<1> HIDE DEF bundle
<1>5. 1 \in 1 .. Len(bundleRing) /\ 1 \in 1 .. Len(bundleRing[1])
  BY <1>2, <1>3
<1>6. \E k \in 1 .. Len(bundleRing) : \E l \in 1 .. Len(bundleRing[k]) :
        CommandAtHand = bundleRing[k][l]
  BY <1>2, <1>3, <1>5
<1>7. CASE Len(bundle) = 1
  <2>1. bundleRing' = Tail(bundleRing)
    BY <1>1, <1>7 DEF bundle
  <2>2. ASSUME NEW i \in 1 .. Len(bundleRing'), NEW j \in 1 .. Len(bundleRing'[i])
        PROVE  \E k \in 1 .. Len(bundleRing) : \E l \in 1 .. Len(bundleRing[k]) :
                 bundleRing'[i][j] = bundleRing[k][l]
    <3>1. i + 1 \in 1 .. Len(bundleRing) /\ bundleRing'[i] = bundleRing[i + 1]
      BY <1>2, <2>1
    <3>2. j \in 1 .. Len(bundleRing[i + 1]) /\ bundleRing'[i][j] = bundleRing[i + 1][j]
      BY <3>1
    <3> QED
      BY <3>1, <3>2
  <2> QED
    <3>1. bundleRing' \in Seq(Bundle) /\ Len(bundleRing') <= BundleCap
      BY <1>2, <1>4, <2>1
    <3> QED
      BY <1>1, <1>3, <1>6, <2>2, <3>1, Zenon
<1>8. CASE Len(bundle) # 1
  <2>1. bundleRing' = [bundleRing EXCEPT ![1] = Tail(bundle)]
    BY <1>1, <1>8 DEF bundle
  <2>2. Tail(bundle) \in Bundle
    <3>1. Len(Tail(bundle)) # 0
      BY <1>3, <1>8
    <3> QED
      BY <1>3, <3>1, EmptySeq DEF Bundle
  <2>3. /\ bundleRing' \in Seq(Bundle) /\ Len(bundleRing') = Len(bundleRing)
        /\ \A i \in 1 .. Len(bundleRing) :
             bundleRing'[i] = IF i = 1 THEN Tail(bundle) ELSE bundleRing[i]
    BY <1>2, <1>5, <2>1, <2>2, ExceptSeq
  <2>4. ASSUME NEW i \in 1 .. Len(bundleRing'), NEW j \in 1 .. Len(bundleRing'[i])
        PROVE  \E k \in 1 .. Len(bundleRing) : \E l \in 1 .. Len(bundleRing[k]) :
                 bundleRing'[i][j] = bundleRing[k][l]
    <3>1. CASE i = 1
      <4>1. j \in 1 .. Len(bundle) - 1 /\ bundleRing'[i][j] = Tail(bundle)[j]
        BY <1>3, <2>3, <3>1
      <4>2. j + 1 \in 1 .. Len(bundleRing[1]) /\ bundleRing'[i][j] = bundleRing[1][j + 1]
        BY <1>2, <1>3, <4>1
      <4> QED
        BY <1>5, <4>2
    <3>2. CASE i # 1
      <4>1. i \in 1 .. Len(bundleRing) /\ bundleRing'[i] = bundleRing[i]
        BY <2>3, <3>2
      <4>2. j \in 1 .. Len(bundleRing[i])
        BY <4>1
      <4> QED
        BY <4>1, <4>2
    <3> QED
      BY <3>1, <3>2
  <2> QED
    <3>1. bundleRing' \in Seq(Bundle) /\ Len(bundleRing') <= BundleCap
      BY <1>4, <2>3
    <3> QED
      BY <1>1, <1>3, <1>6, <2>4, <3>1, Zenon
<1> QED
  BY <1>7, <1>8

\* Draining a bundle moves its edges into the pending buffer.
LEMMA PopBundleInv ==
  ASSUME Inv, PopBundle PROVE Inv'
<1> USE DEF Inv, TypeOK
<1> DEFINE cmd == CommandAtHand
<1>1. /\ UNCHANGED <<conductorVars, pushing, topoRing, sideVars, nodeVars, blockVars>>
      /\ IF cmd.op = "PlayNode" THEN UNCHANGED <<pending, garbage, fate, dropped>>
                                ELSE Enqueue(cmd)
  BY DEF PopBundle, CommandAtHand
<1>2. MirrorType' /\ UNCHANGED published
  BY <1>1, ConductorUnchanged
<1>3. /\ bundleRing' \in Seq(Bundle) /\ Len(bundleRing') <= BundleCap
      /\ cmd \in BundleCommand
  BY CommandTaken
<1>5. /\ pending' \in Seq(Mutation) /\ Len(pending') <= PendingCap
      /\ dropped' \in BOOLEAN
      /\ ProcType'
      /\ \A i \in 1 .. Len(pending') : Known(pending'[i], Len(published))
  <2> HIDE DEF cmd
  <2>1. CASE cmd.op = "PlayNode"
    BY <1>1, <2>1 DEF QueueType, ProcType, QueuedKnown
  <2>2. CASE cmd.op # "PlayNode"
    <3>1. cmd \in Mutation /\ Known(cmd, Len(published))
      BY <1>3, <2>2 DEF BundleCommand, Mutation, NodeMutation, EdgeMutation, Known
    <3> QED
      BY <1>1, <2>2, <3>1, EnqueueType DEF QueuedKnown
  <2> QED
    BY <2>1, <2>2
<1>6. QueueType'
  BY <1>1, <1>3, <1>5 DEF QueueType
<1>7. SideType' /\ NodeType' /\ BlockType'
  BY <1>1 DEF SideType, NodeType, BlockType, sideVars, nodeVars, blockVars
<1>8. QueuedKnown'
  BY <1>1, <1>2, <1>5 DEF QueuedKnown
<1> QED
  BY <1>2, <1>5, <1>6, <1>7, <1>8

\* Freeing a retired processor off the audio thread keeps the invariant.
LEMMA DrainGarbageInv ==
  ASSUME Inv, DrainGarbage PROVE Inv'
<1> USE DEF Inv, TypeOK
<1>1. /\ UNCHANGED <<conductorVars, queueVars, sideVars, nodeVars, blockVars, pending,
                     dropped>>
      /\ garbage # <<>> /\ garbage' = Tail(garbage)
      /\ fate' = IF Head(garbage) = Dummy THEN fate
                 ELSE [fate EXCEPT ![Head(garbage)] = "freed"]
  BY DEF DrainGarbage
<1>2. MirrorType' /\ UNCHANGED published
  BY <1>1, ConductorUnchanged
<1>3. /\ garbage' \in Seq(Procs \cup {Dummy}) /\ Len(garbage') = Len(garbage) - 1
      /\ Len(garbage) \in Nat \ {0}
  BY <1>1, TailFacts DEF ProcType
<1>4. ProcType'
  <2>1. Len(garbage') <= GarbageCap
    BY <1>3, PipelineAssumption DEF ProcType
  <2> QED
    BY <1>1, <1>3, <2>1 DEF ProcType
<1>5. QueueType' /\ SideType' /\ NodeType' /\ BlockType'
  BY <1>1 DEF QueueType, SideType, NodeType, BlockType, queueVars, sideVars, nodeVars,
    blockVars
<1>6. QueuedKnown'
  BY <1>1, <1>2 DEF QueuedKnown, queueVars
<1> QED
  BY <1>2, <1>4, <1>5, <1>6

-----------------------------------------------------------------------------
(***************************************************************************)
(* One mutation applied: for each kind, what it does to the sides, the     *)
(* node array and the processors.                                          *)
(***************************************************************************)
\* What the audio thread's arms stage, said with the conductor's edits.
LEMMA StagesAddNode ==
  ASSUME TypeOK, NEW m, m.node \in Nodes, ApplyAddNode(m)
  PROVE  Stage(AddNodeTo(Staged.graph, m.node))
<1>1. Staged.graph \in Graph
  BY StagedIsSide DEF TypeOK, Side
<1>2. StagedAddNode(Staged.graph, m.node) = AddNodeTo(Staged.graph, m.node)
  BY <1>1, SameAddNode
<1>3. Stage(StagedAddNode(Staged.graph, m.node))
  BY DEF ApplyAddNode
<1> QED
  BY <1>2, <1>3, Zenon

LEMMA StagesEdge ==
  ASSUME TypeOK, NEW m \in Mutation, ApplyUpdateEdge(m)
  PROVE  /\ m.op = "UpdateEdge" /\ m \in EdgeMutation
         /\ IF m.node \in Nodes /\ m.buffer \in Buffers
            THEN Stage(SetInput(Staged.graph, m.node, m.slot, m.buffer))
            ELSE UNCHANGED sideVars
         /\ UNCHANGED <<nodeVars, procVars>>
<1>1. Staged.graph \in Graph
  BY StagedIsSide DEF TypeOK, Side
<1>2. m.op = "UpdateEdge" /\ m \in EdgeMutation
  BY DEF ApplyUpdateEdge, ApplyEdge, Mutation, AddMutation, NodeMutation, DropMutation,
    BypassMutation, SetMutation
<1>3. m.slot \in Channels
  BY <1>2 DEF EdgeMutation
<1>4. /\ IF m.node \in Nodes /\ m.buffer \in Buffers
         THEN Stage(StagedUpdateEdge(Staged.graph, m.node, m.slot, m.buffer))
         ELSE UNCHANGED sideVars
      /\ UNCHANGED <<nodeVars, procVars>>
  BY DEF ApplyUpdateEdge, ApplyEdge
<1>5. m.node \in Nodes => StagedUpdateEdge(Staged.graph, m.node, m.slot, m.buffer)
                            = SetInput(Staged.graph, m.node, m.slot, m.buffer)
  BY <1>1, <1>3, SameUpdateEdge
<1> QED
  BY <1>2, <1>4, <1>5, Zenon

LEMMA StagesOutputEdge ==
  ASSUME TypeOK, NEW m \in Mutation, ApplyUpdateOutputEdge(m)
  PROVE  /\ m.op = "UpdateOutputEdge" /\ m \in EdgeMutation
         /\ IF m.node \in Nodes /\ m.buffer \in Buffers
            THEN Stage(SetOutput(Staged.graph, m.node, m.slot, m.buffer))
            ELSE UNCHANGED sideVars
         /\ UNCHANGED <<nodeVars, procVars>>
<1>1. Staged.graph \in Graph
  BY StagedIsSide DEF TypeOK, Side
<1>2. m.op = "UpdateOutputEdge" /\ m \in EdgeMutation
  BY DEF ApplyUpdateOutputEdge, ApplyEdge, Mutation, AddMutation, NodeMutation,
    DropMutation, BypassMutation, SetMutation
<1>3. m.slot \in Channels
  BY <1>2 DEF EdgeMutation
<1>4. /\ IF m.node \in Nodes /\ m.buffer \in Buffers
         THEN Stage(StagedUpdateOutputEdge(Staged.graph, m.node, m.slot, m.buffer))
         ELSE UNCHANGED sideVars
      /\ UNCHANGED <<nodeVars, procVars>>
  BY DEF ApplyUpdateOutputEdge, ApplyEdge
<1>5. m.node \in Nodes => StagedUpdateOutputEdge(Staged.graph, m.node, m.slot, m.buffer)
                            = SetOutput(Staged.graph, m.node, m.slot, m.buffer)
  BY <1>1, <1>3, SameUpdateOutputEdge
<1> QED
  BY <1>2, <1>4, <1>5, Zenon

LEMMA StagesDisconnect ==
  ASSUME TypeOK, NEW m \in Mutation, ApplyDisconnect(m)
  PROVE  /\ m.op = "Disconnect" /\ m \in DropMutation
         /\ IF m.node \in Nodes
            THEN Stage(DropInput(Staged.graph, m.node, m.slot))
            ELSE UNCHANGED sideVars
         /\ UNCHANGED <<nodeVars, procVars>>
<1>1. Staged.graph \in Graph
  BY StagedIsSide DEF TypeOK, Side
<1>2. m.op = "Disconnect" /\ m \in DropMutation
  BY DEF ApplyDisconnect, Mutation, AddMutation, NodeMutation, EdgeMutation,
    BypassMutation, SetMutation
<1>3. m.slot \in Channels
  BY <1>2 DEF DropMutation
<1>4. /\ IF m.node \in Nodes
         THEN Stage(StagedDisconnect(Staged.graph, m.node, m.slot))
         ELSE UNCHANGED sideVars
      /\ UNCHANGED <<nodeVars, procVars>>
  BY DEF ApplyDisconnect
<1>5. m.node \in Nodes => StagedDisconnect(Staged.graph, m.node, m.slot)
                            = DropInput(Staged.graph, m.node, m.slot)
  BY <1>1, <1>3, SameDisconnect
<1> QED
  BY <1>2, <1>4, <1>5, Zenon

LEMMA StagesRemoval ==
  ASSUME TypeOK, NEW m, m.node \in Nodes, ApplyRemoveNode(m)
  PROVE  /\ nodeCount' = CountOf(Occupied(procAt'), nodeCount)
         /\ StagedRemoveNode(Staged.graph, m.node, Occupied(procAt'))
              = RemoveNodeFrom(Staged.graph, m.node, Occupied(procAt'))
<1>1. Staged.graph \in Graph
  BY StagedIsSide DEF TypeOK, Side
<1>2. Occupied(procAt') \subseteq Nat /\ nodeCount \in Nat
  BY SizeAssumption DEF Occupied, Nodes, TypeOK, NodeType
<1>3. nodeCount' = OneAfterLast(Occupied(procAt'), nodeCount)
  BY DEF ApplyRemoveNode
<1> QED
  BY <1>1, <1>2, <1>3, SameCount, SameRemoveNode

\* Replacing or clearing the processor of a node keeps the node array.
LEMMA ApplyAddNodeType ==
  ASSUME TypeOK, NEW m \in Mutation, ApplyAddNode(m)
  PROVE  SideType' /\ NodeType' /\ ProcType'
<1> USE DEF TypeOK
<1>1. m \in AddMutation
  BY DEF ApplyAddNode, Mutation, NodeMutation, EdgeMutation, DropMutation, BypassMutation,
    SetMutation
<1>2. m.proc \in Procs /\ m.node \in Targets
  BY <1>1 DEF AddMutation
<1>3. CASE m.node \notin Nodes
  <2>1. Retire(m.proc) /\ UNCHANGED <<sideVars, nodeVars>>
    BY <1>3 DEF ApplyAddNode
  <2>2. ProcType'
    BY <1>2, <2>1, RetireType
  <2> QED
    BY <2>1, <2>2 DEF SideType, NodeType, sideVars, nodeVars
<1>4. CASE m.node \in Nodes
  <2>1. /\ procAt' = [procAt EXCEPT ![m.node] = m.proc]
        /\ Retire(procAt[m.node])
        /\ nodeCount' = AtLeast(nodeCount, m.node + 1)
        /\ Stage(AddNodeTo(Staged.graph, m.node))
    BY <1>4, StagesAddNode DEF ApplyAddNode
  <2>2. Staged.graph \in Graph
    BY StagedIsSide DEF Side
  <2>3. AddNodeTo(Staged.graph, m.node) \in Graph
    BY <1>4, <2>2, AddNodeToType
  <2>4. SideType'
    BY <2>1, <2>3, StageType
  <2>5. procAt[m.node] \in Procs \cup {Dummy}
    BY <1>4 DEF NodeType
  <2>6. ProcType'
    BY <2>1, <2>5, RetireType
  <2>7. nodeCount' \in 0 .. MaxNodes
    BY <1>4, <2>1, SizeAssumption DEF NodeType, Nodes, AtLeast
  <2>8. NodeType'
    BY <1>2, <1>4, <2>1, <2>7 DEF NodeType
  <2> QED
    BY <2>4, <2>6, <2>8
<1> QED
  BY <1>3, <1>4

\* SwapProcessor, sentinel or node, keeps the node array.
LEMMA ApplySwapProcessorType ==
  ASSUME TypeOK, NEW m \in Mutation, ApplySwapProcessor(m)
  PROVE  SideType' /\ NodeType' /\ ProcType'
<1> USE DEF TypeOK
<1>1. m \in AddMutation
  BY DEF ApplySwapProcessor, Mutation, NodeMutation, EdgeMutation, DropMutation,
    BypassMutation, SetMutation
<1>2. m.proc \in Procs
  BY <1>1 DEF AddMutation
<1>3. SideType'
  BY DEF ApplySwapProcessor, SideType, sideVars
<1>4. CASE m.node \notin Nodes
  <2>1. Retire(m.proc) /\ UNCHANGED <<procAt, nodeCount>>
    BY <1>4 DEF ApplySwapProcessor
  <2>2. ProcType'
    BY <1>2, <2>1, RetireType
  <2> QED
    BY <1>3, <2>1, <2>2 DEF NodeType
<1>5. CASE m.node \in Nodes
  <2>1. /\ procAt' = [procAt EXCEPT ![m.node] = m.proc]
        /\ Retire(procAt[m.node]) /\ UNCHANGED nodeCount
    BY <1>5 DEF ApplySwapProcessor
  <2>2. procAt[m.node] \in Procs \cup {Dummy}
    BY <1>5 DEF NodeType
  <2>3. ProcType'
    BY <2>1, <2>2, RetireType
  <2>4. NodeType'
    BY <1>2, <1>5, <2>1 DEF NodeType
  <2> QED
    BY <1>3, <2>3, <2>4
<1> QED
  BY <1>4, <1>5

\* Setting a bypass flag of a side yields a side.
LEMMA WithBypassType ==
  ASSUME NEW side \in Side, NEW n \in Nodes, NEW flag \in BOOLEAN
  PROVE  /\ WithBypass(side, n, flag) \in Side
         /\ WithBypass(side, n, flag).graph = side.graph
         /\ WithBypass(side, n, flag).plan = side.plan
<1>1. [side.bypass EXCEPT ![n] = flag] \in Bypass
  BY DEF Side, Bypass
<1> QED
  BY <1>1 DEF WithBypass, Side

\* The two sides a RemoveNode leaves behind.
LEMMA ApplyRemoveNodeSides ==
  ASSUME TypeOK, NEW m \in Mutation, ApplyRemoveNode(m)
  PROVE  /\ SideType' /\ m.node \in Nodes /\ UNCHANGED active /\ needsCommit' = TRUE
         /\ sides'[active].graph = sides[active].graph
         /\ sides'[active].plan = sides[active].plan
         /\ sides'[Inactive].plan = 0
         /\ sides'[Inactive].graph
              = RemoveNodeFrom(Staged.graph, m.node, Occupied(procAt'))
<1> USE DEF TypeOK
<1>1. m.node \in Nodes
  BY DEF ApplyRemoveNode, Mutation, NodeMutation, AddMutation, EdgeMutation, DropMutation,
    BypassMutation, SetMutation
<1> DEFINE graph == RemoveNodeFrom(Staged.graph, m.node, Occupied(procAt'))
           staged == [Staged EXCEPT !.graph = graph]
<1>2. Staged \in Side /\ Staged.plan = 0 /\ Inactive \in {0, 1} /\ Inactive # active
        /\ active \in {0, 1}
  <2>1. Staged \in Side /\ Inactive \in {0, 1}
    BY StagedIsSide
  <2>2. active \in {0, 1} /\ Inactive # active
    BY DEF SideType, Inactive
  <2>3. sides[active] \in Side /\ sides[Inactive] \in Side
    BY <2>1, <2>2 DEF SideType
  <2> QED
    BY <2>1, <2>2, <2>3 DEF Staged, Side
<1>3. graph \in Graph
  <2>1. Occupied(procAt') \in SUBSET (0 .. MaxNodes)
    BY SizeAssumption DEF Occupied, Nodes
  <2>2. Staged.graph \in Graph
    BY <1>2 DEF Side
  <2> QED
    BY <1>1, <2>1, <2>2, RemoveNodeFromType
<1>4. staged \in Side /\ staged.plan = 0 /\ staged.graph = graph
  BY <1>2, <1>3 DEF Side
<1>5. sides' = [s \in {0, 1} |->
                  WithBypass(IF s = active THEN sides[s] ELSE staged, m.node, FALSE)]
  BY <1>1, StagesRemoval DEF ApplyRemoveNode
<1>6. sides[active] \in Side
  BY <1>2 DEF SideType
<1> HIDE DEF staged
<1>7. /\ sides'[active] = WithBypass(sides[active], m.node, FALSE)
      /\ sides'[Inactive] = WithBypass(staged, m.node, FALSE)
  BY <1>2, <1>5
<1>8. /\ WithBypass(sides[active], m.node, FALSE) \in Side
      /\ WithBypass(sides[active], m.node, FALSE).graph = sides[active].graph
      /\ WithBypass(sides[active], m.node, FALSE).plan = sides[active].plan
  BY <1>1, <1>6, WithBypassType
<1>9. WithBypass(staged, m.node, FALSE) \in Side
        /\ WithBypass(staged, m.node, FALSE).plan = 0
        /\ WithBypass(staged, m.node, FALSE).graph = staged.graph
  BY <1>1, <1>4, WithBypassType
<1>10. sides' \in [{0, 1} -> Side]
  <2>1. \A s \in {0, 1} : s = active \/ s = Inactive
    BY <1>2
  <2>2. \A s \in {0, 1} : sides'[s] \in Side
    BY <1>7, <1>8, <1>9, <2>1
  <2> QED
    BY <1>5, <2>2
<1>11. UNCHANGED <<active, refused>> /\ needsCommit' = TRUE
  BY DEF ApplyRemoveNode
<1>12. SideType'
  BY <1>10, <1>11 DEF SideType
<1> HIDE DEF graph
<1>13. sides'[Inactive].graph = graph
  BY <1>4, <1>7, <1>9
<1> QED
  BY <1>1, <1>7, <1>8, <1>9, <1>11, <1>12, <1>13 DEF graph

\* RemoveNode keeps the sides, the node array and the garbage ring.
LEMMA ApplyRemoveNodeType ==
  ASSUME TypeOK, NEW m \in Mutation, ApplyRemoveNode(m)
  PROVE  SideType' /\ NodeType' /\ ProcType'
<1> USE DEF TypeOK
<1>1. SideType' /\ m.node \in Nodes
  BY ApplyRemoveNodeSides
<1>2. /\ procAt' = [procAt EXCEPT ![m.node] = Dummy]
      /\ Retire(procAt[m.node])
      /\ nodeCount' = CountOf(Occupied(procAt'), nodeCount)
  BY <1>1, StagesRemoval DEF ApplyRemoveNode
<1>3. procAt[m.node] \in Procs \cup {Dummy}
  BY <1>1 DEF NodeType
<1>4. ProcType'
  BY <1>2, <1>3, RetireType
<1>5. nodeCount' \in 0 .. nodeCount
  <2>1. Occupied(procAt') \subseteq Nat /\ nodeCount \in Nat
    BY SizeAssumption DEF Occupied, Nodes, NodeType
  <2> QED
    BY <1>2, <2>1, CountOfBound
<1>6. nodeCount' \in 0 .. MaxNodes
  BY <1>5, SizeAssumption DEF NodeType
<1>7. NodeType'
  BY <1>1, <1>2, <1>6 DEF NodeType
<1> QED
  BY <1>1, <1>4, <1>7

\* The edges and Disconnect stage a graph or do nothing.
LEMMA ApplyEditType ==
  ASSUME TypeOK, NEW m \in Mutation,
         ApplyUpdateEdge(m) \/ ApplyUpdateOutputEdge(m) \/ ApplyDisconnect(m)
  PROVE  /\ SideType' /\ NodeType' /\ ProcType'
         /\ (UNCHANGED sideVars \/ \E g \in Graph : Stage(g))
<1> USE DEF TypeOK
<1>1. NodeType' /\ ProcType'
  BY DEF ApplyUpdateEdge, ApplyUpdateOutputEdge, ApplyDisconnect, ApplyEdge, NodeType, ProcType,
    nodeVars, procVars
<1>2. Staged.graph \in Graph
  BY StagedIsSide DEF Side
<1>3. UNCHANGED sideVars \/ \E g \in Graph : Stage(g)
  <2>1. CASE ApplyUpdateEdge(m)
    <3>1. m.slot \in Channels
      BY <2>1, StagesEdge DEF EdgeMutation
    <3> QED
      BY <1>2, <2>1, <3>1, StagesEdge, SetInputType
  <2>2. CASE ApplyUpdateOutputEdge(m)
    <3>1. m.slot \in Channels
      BY <2>2, StagesOutputEdge DEF EdgeMutation
    <3> QED
      BY <1>2, <2>2, <3>1, StagesOutputEdge, SetOutputType
  <2>3. CASE ApplyDisconnect(m)
    <3>1. m.slot \in Channels
      BY <2>3, StagesDisconnect DEF DropMutation
    <3> QED
      BY <1>2, <2>3, <3>1, StagesDisconnect, DropInputType
  <2> QED
    BY <2>1, <2>2, <2>3
<1>4. SideType'
  <2>1. CASE UNCHANGED sideVars
    BY <2>1 DEF SideType, sideVars
  <2>2. CASE \E g \in Graph : Stage(g)
    BY <2>2, StageType
  <2> QED
    BY <1>3, <2>1, <2>2
<1> QED
  BY <1>1, <1>3, <1>4

\* SetBypass changes neither the wiring nor the plan of a side.
LEMMA ApplySetBypassType ==
  ASSUME TypeOK, NEW m \in Mutation, ApplySetBypass(m)
  PROVE  /\ SideType' /\ NodeType' /\ ProcType' /\ UNCHANGED <<active, needsCommit>>
         /\ \A s \in {0, 1} : /\ sides'[s].graph = sides[s].graph
                              /\ sides'[s].plan = sides[s].plan
<1> USE DEF TypeOK
<1>1. UNCHANGED <<active, needsCommit, refused, procAt, nodeCount, garbage, fate>>
  BY DEF ApplySetBypass, nodeVars, procVars
<1>2. m \in BypassMutation
  BY DEF ApplySetBypass, Mutation, AddMutation, NodeMutation, EdgeMutation, DropMutation,
    SetMutation
<1>3. m.enabled \in BOOLEAN
  BY <1>2 DEF BypassMutation
<1>4. /\ sides' \in [{0, 1} -> Side]
      /\ \A s \in {0, 1} : sides'[s].graph = sides[s].graph /\ sides'[s].plan = sides[s].plan
  <2>1. CASE m.node \notin Nodes
    BY <2>1 DEF ApplySetBypass, SideType
  <2>2. CASE m.node \in Nodes
    <3>1. sides' = [s \in {0, 1} |-> WithBypass(sides[s], m.node, m.enabled)]
      BY <2>2 DEF ApplySetBypass
    <3>2. \A s \in {0, 1} :
            /\ WithBypass(sides[s], m.node, m.enabled) \in Side
            /\ WithBypass(sides[s], m.node, m.enabled).graph = sides[s].graph
            /\ WithBypass(sides[s], m.node, m.enabled).plan = sides[s].plan
      BY <1>3, <2>2, WithBypassType DEF SideType
    <3> QED
      BY <3>1, <3>2
  <2> QED
    BY <2>1, <2>2
<1>5. SideType' /\ NodeType' /\ ProcType'
  BY <1>1, <1>4 DEF SideType, NodeType, ProcType
<1> QED
  BY <1>1, <1>4, <1>5

\* SetTopology fills the staged side from a published topology.
LEMMA ApplySetTopologyType ==
  ASSUME TypeOK, NEW m \in Mutation, Known(m, Len(published)), ApplySetTopology(m)
  PROVE  /\ SideType' /\ NodeType' /\ ProcType' /\ UNCHANGED active
         /\ m.topo \in 1 .. Len(published) /\ Inactive \in {0, 1}
         /\ sides'[active] = sides[active] /\ Inactive # active
         /\ sides'[Inactive].graph = published[m.topo].graph
         /\ sides'[Inactive].plan = PlanOf(m.topo)
<1> USE DEF TypeOK
<1>1. m.topo \in 1 .. Len(published)
  BY DEF ApplySetTopology, Known
<1>2. published[m.topo] \in Topology
  BY <1>1, ElementOfSeq DEF MirrorType
<1>3. PlanOf(m.topo) \in Nat
  BY <1>1 DEF PlanOf
<1>4. active \in {0, 1} /\ Inactive \in {0, 1} /\ Inactive # active
  BY DEF SideType, Inactive
<1> DEFINE filled == [graph  |-> published[m.topo].graph,
                      bypass |-> published[m.topo].bypass,
                      plan   |-> PlanOf(m.topo)]
<1>5. filled \in Side
  BY <1>2, <1>3 DEF Side, Topology
<1>6. /\ sides' = [sides EXCEPT ![Inactive] = filled]
      /\ needsCommit' = TRUE /\ refused' = FALSE
      /\ UNCHANGED <<active, procAt, nodeCount, garbage, fate>>
  BY DEF ApplySetTopology, nodeVars, procVars
<1>7. SideType'
  <2> HIDE DEF filled
  <2> QED
    BY <1>4, <1>5, <1>6 DEF SideType
<1>8. NodeType' /\ ProcType'
  BY <1>6 DEF NodeType, ProcType
<1> QED
  BY <1>1, <1>4, <1>6, <1>7, <1>8 DEF SideType

\* Applying one pending mutation keeps the invariant, whichever it is.
LEMMA ApplyOneInv ==
  ASSUME Inv, ApplyOne PROVE Inv'
<1> USE DEF Inv, TypeOK
<1> DEFINE m == Head(pending)
<1>1. /\ UNCHANGED <<conductorVars, queueVars, blockVars, dropped>>
      /\ pending # <<>> /\ pending' = Tail(pending)
  BY DEF ApplyOne
<1>2. MirrorType' /\ UNCHANGED published
  BY <1>1, ConductorUnchanged
<1>3. /\ pending' \in Seq(Mutation) /\ m \in Mutation /\ m = pending[1]
      /\ Len(pending) \in Nat \ {0} /\ Len(pending') = Len(pending) - 1
      /\ \A i \in 1 .. Len(pending) - 1 : pending'[i] = pending[i + 1]
  BY <1>1, TailFacts DEF QueueType
<1>4. Known(m, Len(published))
  BY <1>3 DEF QueuedKnown
<1>5. Len(pending') <= PendingCap
  BY <1>3, PipelineAssumption DEF QueueType
<1>6. QueueType' /\ BlockType'
  BY <1>1, <1>3, <1>5 DEF QueueType, BlockType, queueVars, blockVars
<1>7. \A i \in 1 .. Len(pending') : Known(pending'[i], Len(published))
  <2>1. \A i \in 1 .. Len(pending') : i + 1 \in 1 .. Len(pending)
    BY <1>3
  <2> QED
    BY <1>3, <2>1 DEF QueuedKnown
<1>8. QueuedKnown'
  BY <1>1, <1>2, <1>7 DEF QueuedKnown, queueVars
<1>9. SideType' /\ NodeType' /\ ProcType'
  <2>1. \/ ApplyAddNode(m) \/ ApplySwapProcessor(m) \/ ApplyRemoveNode(m)
        \/ ApplyUpdateEdge(m) \/ ApplyUpdateOutputEdge(m) \/ ApplyDisconnect(m)
        \/ ApplySetBypass(m) \/ ApplySetTopology(m) \/ ApplyAddSource(m)
    BY DEF ApplyOne
  <2> HIDE DEF m
  <2>2. CASE ApplyAddNode(m)
    BY <1>3, <2>2, ApplyAddNodeType
  <2>3. CASE ApplySwapProcessor(m)
    BY <1>3, <2>3, ApplySwapProcessorType
  <2>4. CASE ApplyRemoveNode(m)
    BY <1>3, <2>4, ApplyRemoveNodeType
  <2>5. CASE ApplyUpdateEdge(m) \/ ApplyUpdateOutputEdge(m) \/ ApplyDisconnect(m)
    BY <1>3, <2>5, ApplyEditType
  <2>6. CASE ApplySetBypass(m)
    BY <1>3, <2>6, ApplySetBypassType
  <2>7. CASE ApplySetTopology(m)
    BY <1>3, <1>4, <2>7, ApplySetTopologyType
  <2>8. CASE ApplyAddSource(m)
    BY <2>8 DEF ApplyAddSource, SideType, NodeType, ProcType, sideVars, nodeVars, procVars
  <2> QED
    BY <2>1, <2>2, <2>3, <2>4, <2>5, <2>6, <2>7, <2>8
<1> QED
  BY <1>2, <1>6, <1>8, <1>9

\* The edges that are asked for name a node, a slot and a buffer.
LEMMA WireTypes ==
  ASSUME NEW w \in Wires
  PROVE  w[1] \in Targets /\ w[2] \in Channels /\ w[3] \in BufferArgs
  BY PipelineAssumption DEF Targets, BufferArgs

\* Every step keeps the invariant, one case per action.
LEMMA NextInv == Inv /\ [Next]_vars => Inv'
<1> SUFFICES ASSUME Inv, [Next]_vars PROVE Inv'
  OBVIOUS
<1>1. CASE \E n \in Targets : AddNode(n) \/ SwapProcessor(n)
  BY <1>1, AddNodeInv, SwapProcessorInv
<1>2. CASE \E n \in Nodes : RemoveNode(n)
  BY <1>2, RemoveNodeInv
<1>3. CASE \E w \in Wires :
             UpdateEdge(w[1], w[2], w[3]) \/ UpdateOutputEdge(w[1], w[2], w[3])
  BY <1>3, WireTypes, UpdateEdgeInv, UpdateOutputEdgeInv
<1>4. CASE \E n \in Targets, c \in Channels : Disconnect(n, c)
  BY <1>4, DisconnectInv
<1>5. CASE \E n \in Targets, enabled \in BOOLEAN : SetBypass(n, enabled)
  BY <1>5, SetBypassInv
<1>6. CASE CommitTopology
  BY <1>6, CommitTopologyInv
<1>7. CASE \E op \in {"PlayNode", "AddSource"}, n \in Nodes, times \in 1 .. MaxBundle :
             Perform(op, n, times)
  BY <1>7, PerformInv
<1>8. CASE Push \/ GiveUp
  BY <1>8, PushInv, GiveUpInv
<1>9. CASE PopTopology \/ EndDrain
  BY <1>9, PopTopologyInv, EndDrainInv
<1>10. CASE NothingToCommit \/ RefuseCommit \/ SwapSides
  BY <1>10, CommitInv
<1>11. CASE ApplyOne
  BY <1>11, ApplyOneInv
<1>12. CASE EndApply \/ EndAsync \/ Render
  BY <1>12, EndOfPhaseInv
<1>13. CASE PopBundle
  BY <1>13, PopBundleInv
<1>14. CASE DrainGarbage
  BY <1>14, DrainGarbageInv
<1>15. CASE UNCHANGED vars
  BY <1>15 DEF Inv, TypeOK, MirrorType, QueueType, SideType, NodeType, BlockType, ProcType,
    QueuedKnown, vars, conductorVars, queueVars, sideVars, nodeVars, blockVars, procVars
<1> QED
  BY <1>1, <1>2, <1>3, <1>4, <1>5, <1>6, <1>7, <1>8, <1>9, <1>10, <1>11, <1>12, <1>13,
     <1>14, <1>15 DEF Next, Conductor, AudioThread

\* Types and queued topologies, for every behaviour of the pipeline.
THEOREM InvHolds == Spec => []Inv
  BY InitInv, NextInv, PTL DEF Spec

\* The rings and buffers stay within their sizes, every processor index and
\* buffer within its range, through every command and every block.
THEOREM TypeCorrect == Spec => []TypeOK
<1>1. Inv => TypeOK
  BY DEF Inv
<1> QED
  BY <1>1, InvHolds, PTL

-----------------------------------------------------------------------------
(***************************************************************************)
(* What is being played.  A side with a plan holds the topology the plan   *)
(* was compiled from; the side being played has a plan or is empty; and    *)
(* the SetTopologies on their way are newer than the plan of either side   *)
(* and reach the audio thread in the order they were compiled.             *)
(***************************************************************************)
SidesPublished ==
    /\ \A s \in {0, 1} : sides[s].plan # 0 =>
          /\ sides[s].plan \in 1 .. Len(published)
          /\ sides[s].graph = published[sides[s].plan].graph
          /\ published[sides[s].plan].stages # {}
    /\ sides[active].plan = 0 => sides[active].graph.count = 0

\* The topology m names, if any, was published after the k-th.
After(k, m) == m.op = "SetTopology" => k < m.topo

Before(m1, m2) == m1.op = "SetTopology" => After(m1.topo, m2)

InOrder(q) == \A i, j \in 1 .. Len(q) : i < j => Before(q[i], q[j])

AllBefore(q, m) == \A i \in 1 .. Len(q) : Before(q[i], m)

AllAfter(k, q) == \A i \in 1 .. Len(q) : After(k, q[i])

Precedes(q, r) == \A i \in 1 .. Len(q), j \in 1 .. Len(r) : Before(q[i], r[j])

QueueOrdered ==
    /\ InOrder(pending) /\ InOrder(topoRing) /\ Precedes(pending, topoRing)
    /\ pushing # NoMutation => AllBefore(pending, pushing) /\ AllBefore(topoRing, pushing)

PlansBehind ==
    \A s \in {0, 1} :
      /\ AllAfter(sides[s].plan, pending)
      /\ AllAfter(sides[s].plan, topoRing)
      /\ pushing # NoMutation => After(sides[s].plan, pushing)

StagedAhead ==
    needsCommit /\ sides[Inactive].plan # 0 => sides[Inactive].plan > sides[active].plan

PlayInv == SidesPublished /\ QueueOrdered /\ PlansBehind /\ StagedAhead

\* What appending to a queue, and taking its first element off, does to the
\* order.
LEMMA AppendOrder ==
  ASSUME NEW S, NEW q \in Seq(S), NEW e \in S
  PROVE  /\ InOrder(q) /\ AllBefore(q, e) => InOrder(Append(q, e))
         /\ \A k : AllAfter(k, q) /\ After(k, e) => AllAfter(k, Append(q, e))
         /\ \A m : AllBefore(q, m) /\ Before(e, m) => AllBefore(Append(q, e), m)
         /\ \A r : Precedes(r, q) /\ AllBefore(r, e) => Precedes(r, Append(q, e))
<1>1. /\ Len(q) \in Nat /\ Len(Append(q, e)) = Len(q) + 1
      /\ \A i \in 1 .. Len(q) : Append(q, e)[i] = q[i]
      /\ Append(q, e)[Len(q) + 1] = e
  BY AppendFacts
<1> DEFINE a == Append(q, e)
<1> HIDE DEF a
<1>2. /\ \A i \in 1 .. Len(a) : \/ i \in 1 .. Len(q) /\ a[i] = q[i]
                                \/ i = Len(q) + 1 /\ a[i] = e
      /\ Len(q) \in Nat
  BY <1>1 DEF a
<1>3. InOrder(q) /\ AllBefore(q, e) => InOrder(a)
  BY <1>2 DEF InOrder, AllBefore
<1>4. \A k : AllAfter(k, q) /\ After(k, e) => AllAfter(k, a)
  BY <1>2 DEF AllAfter
<1>5. \A m : AllBefore(q, m) /\ Before(e, m) => AllBefore(a, m)
  BY <1>2 DEF AllBefore
<1>6. \A r : Precedes(r, q) /\ AllBefore(r, e) => Precedes(r, a)
  BY <1>2 DEF Precedes, AllBefore
<1> QED
  BY <1>3, <1>4, <1>5, <1>6 DEF a

\* Taking the first element off an ordered queue leaves it ordered.
LEMMA TailOrder ==
  ASSUME NEW S, NEW q \in Seq(S), q # <<>>
  PROVE  /\ InOrder(q) => InOrder(Tail(q)) /\ \A i \in 1 .. Len(Tail(q)) :
                                                 Before(Head(q), Tail(q)[i])
         /\ \A k : AllAfter(k, q) => AllAfter(k, Tail(q)) /\ After(k, Head(q))
         /\ \A m : AllBefore(q, m) => AllBefore(Tail(q), m) /\ Before(Head(q), m)
         /\ \A r : Precedes(q, r) => Precedes(Tail(q), r)
         /\ \A r : Precedes(r, q) => Precedes(r, Tail(q)) /\ AllBefore(r, Head(q))
<1> DEFINE t == Tail(q)
           h == Head(q)
<1>1. /\ h = q[1] /\ Len(q) \in Nat \ {0} /\ Len(t) = Len(q) - 1
      /\ \A i \in 1 .. Len(q) - 1 : t[i] = q[i + 1]
  BY TailFacts
<1> HIDE DEF t, h
<1>2. \A i \in 1 .. Len(t) : i + 1 \in 1 .. Len(q) /\ t[i] = q[i + 1]
  BY <1>1
<1>3. 1 \in 1 .. Len(q) /\ h = q[1]
  BY <1>1
<1>4. InOrder(q) => InOrder(t) /\ \A i \in 1 .. Len(t) : Before(h, t[i])
  BY <1>2, <1>3 DEF InOrder
<1>5. \A k : AllAfter(k, q) => AllAfter(k, t) /\ After(k, h)
  BY <1>2, <1>3 DEF AllAfter
<1>6. \A m : AllBefore(q, m) => AllBefore(t, m) /\ Before(h, m)
  BY <1>2, <1>3 DEF AllBefore
<1>7. \A r : Precedes(q, r) => Precedes(t, r)
  BY <1>2 DEF Precedes
<1>8. \A r : Precedes(r, q) => Precedes(r, t) /\ AllBefore(r, h)
  BY <1>2, <1>3 DEF Precedes, AllBefore
<1> QED
  BY <1>4, <1>5, <1>6, <1>7, <1>8 DEF t, h

\* A mutation that is not a SetTopology is in any order.
LEMMA NotSetOrder ==
  ASSUME NEW m, m.op # "SetTopology"
  PROVE  (\A k : After(k, m)) /\ (\A n : Before(m, n)) /\ (\A q : AllBefore(q, m))
  BY DEF After, Before, AllBefore

\* Initially nothing is published and both sides play the empty graph.
LEMMA InitPlayInv == Init => PlayInv
<1> SUFFICES ASSUME Init PROVE PlayInv
  OBVIOUS
<1>1. Len(pending) = 0 /\ Len(topoRing) = 0 /\ pushing = NoMutation
  BY EmptySeq DEF Init
<1>2. QueueOrdered /\ PlansBehind
  BY <1>1 DEF QueueOrdered, PlansBehind, InOrder, Precedes, AllAfter
<1>3. SidesPublished /\ StagedAhead
  BY DEF Init, SidesPublished, StagedAhead, EmptyGraph
<1> QED
  BY <1>2, <1>3 DEF PlayInv

-----------------------------------------------------------------------------
\* The commands that compile nothing put no SetTopology on its way.
LEMMA CommandPlayInv ==
  ASSUME Inv, PlayInv, RTUnchanged, UNCHANGED <<published, topoRing>>,
         pushing' # NoMutation => pushing'.op # "SetTopology" \/ pushing' = pushing
  PROVE  PlayInv'
<1>1. UNCHANGED <<sides, active, needsCommit, pending>>
  BY DEF RTUnchanged, sideVars
<1>2. SidesPublished' /\ StagedAhead'
  BY <1>1 DEF PlayInv, SidesPublished, StagedAhead, Inactive
<1>3. QueueOrdered' /\ PlansBehind'
  <2>1. CASE pushing' = NoMutation \/ pushing' = pushing
    BY <1>1, <2>1 DEF PlayInv, QueueOrdered, PlansBehind
  <2>2. CASE pushing'.op # "SetTopology"
    BY <1>1, <2>2, NotSetOrder DEF PlayInv, QueueOrdered, PlansBehind
  <2> QED
    BY <2>1, <2>2
<1> QED
  BY <1>2, <1>3 DEF PlayInv

\* Every command of the conductor keeps the order of the topologies.
LEMMA ConductorPlayInv ==
  ASSUME Inv, PlayInv, Conductor, ~ CommitTopology PROVE PlayInv'
<1>1. RTUnchanged /\ UNCHANGED <<published, topoRing>>
  BY DEF Conductor, AddNode, SwapProcessor, RemoveNode, UpdateEdge, UpdateOutputEdge, Edge,
    Disconnect, SetBypass, Perform
<1>2. pushing' = pushing \/ pushing'.op # "SetTopology"
  <2>1. CASE \E n \in Targets : AddNode(n) \/ SwapProcessor(n)
    BY <2>1 DEF AddNode, SwapProcessor
  <2>2. CASE \E n \in Nodes : RemoveNode(n)
    BY <2>2 DEF RemoveNode
  <2>3. CASE \E w \in Wires :
               UpdateEdge(w[1], w[2], w[3]) \/ UpdateOutputEdge(w[1], w[2], w[3])
    BY <2>3 DEF UpdateEdge, UpdateOutputEdge, Edge
  <2>4. CASE \E n \in Targets, c \in Channels : Disconnect(n, c)
    BY <2>4 DEF Disconnect
  <2>5. CASE \E n \in Targets, enabled \in BOOLEAN : SetBypass(n, enabled)
    BY <2>5 DEF SetBypass
  <2>6. CASE \E op \in {"PlayNode", "AddSource"}, n \in Nodes, times \in 1 .. MaxBundle :
               Perform(op, n, times)
    BY <2>6 DEF Perform
  <2> QED
    BY <2>1, <2>2, <2>3, <2>4, <2>5, <2>6 DEF Conductor
<1> QED
  BY <1>1, <1>2, CommandPlayInv

\* A plan is a published topology or none.
LEMMA PlanBound ==
  ASSUME Inv, SidesPublished, NEW s \in {0, 1}
  PROVE  sides[s].plan \in Nat /\ sides[s].plan <= Len(published) /\ Len(published) \in Nat
<1>1. Len(published) \in Nat
  BY LenProperties DEF Inv, TypeOK, MirrorType
<1>2. sides[s].plan \in Nat
  BY DEF Inv, TypeOK, SideType, Side
<1> QED
  BY <1>1, <1>2 DEF SidesPublished

\* A new topology is newer than all that were published.
LEMMA CommitTopologyPlayInv ==
  ASSUME Inv, PlayInv, CommitTopology PROVE PlayInv'
<1> DEFINE n == Len(published)
<1>1. /\ n \in Nat /\ Len(published') = n + 1
      /\ \A k \in 1 .. n : published'[k] = published[k]
  BY PublishedType DEF Inv
<1>2. UNCHANGED <<sides, active, needsCommit, pending, topoRing>>
  BY DEF CommitTopology, RTUnchanged, sideVars
<1>3. pushing' = [op |-> "SetTopology", topo |-> n + 1]
  BY <1>1 DEF CommitTopology
<1>4. SidesPublished' /\ StagedAhead'
  <2>1. \A k \in 1 .. n : k \in 1 .. n + 1
    BY <1>1
  <2> QED
    BY <1>1, <1>2, <2>1 DEF PlayInv, SidesPublished, StagedAhead, Inactive
<1>5. \A k \in 1 .. n : After(k, pushing')
  BY <1>1, <1>3 DEF After
<1>6. \A m : Known(m, n) => Before(m, pushing')
  BY <1>5 DEF Known, Before
<1>7. AllBefore(pending, pushing') /\ AllBefore(topoRing, pushing')
  BY <1>6 DEF Inv, QueuedKnown, AllBefore
<1>8. \A s \in {0, 1} : After(sides[s].plan, pushing')
  BY <1>1, <1>3, PlanBound DEF PlayInv, After
<1> QED
  BY <1>2, <1>4, <1>7, <1>8 DEF PlayInv, QueueOrdered, PlansBehind

\* Pushing moves the newest topology behind the ones in the ring.
LEMMA PushPlayInv ==
  ASSUME Inv, PlayInv, Push PROVE PlayInv'
<1>1. UNCHANGED <<sides, active, needsCommit, pending, published>>
  BY DEF Push, RTUnchanged, sideVars, conductorVars
<1>2. /\ pushing # NoMutation /\ topoRing' = Append(topoRing, pushing)
      /\ pushing' = NoMutation
  BY DEF Push
<1>3. topoRing \in Seq(Mutation) /\ pushing \in Mutation
  BY <1>2 DEF Inv, TypeOK, QueueType
<1>4. QueueOrdered' /\ PlansBehind'
  BY <1>1, <1>2, <1>3, AppendOrder DEF PlayInv, QueueOrdered, PlansBehind
<1>5. SidesPublished' /\ StagedAhead'
  BY <1>1 DEF PlayInv, SidesPublished, StagedAhead, Inactive
<1> QED
  BY <1>4, <1>5 DEF PlayInv

\* Dropping a mutation leaves the others in order.
LEMMA GiveUpPlayInv ==
  ASSUME Inv, PlayInv, GiveUp PROVE PlayInv'
<1>1. RTUnchanged /\ UNCHANGED <<published, topoRing>> /\ pushing' = NoMutation
  BY DEF GiveUp, conductorVars
<1> QED
  BY <1>1, CommandPlayInv

\* What a pop adds to the pending buffer, if it fits.
LEMMA EnqueueAppends ==
  ASSUME NEW m, Enqueue(m) PROVE pending' = pending \/ pending' = Append(pending, m)
  BY DEF Enqueue

\* Draining a mutation moves it behind the pending ones, or loses it.
LEMMA PopTopologyPlayInv ==
  ASSUME Inv, PlayInv, PopTopology PROVE PlayInv'
<1> DEFINE m == Head(topoRing)
<1>1. /\ UNCHANGED <<sides, active, needsCommit, published, pushing>>
      /\ topoRing # <<>> /\ topoRing' = Tail(topoRing)
  BY DEF PopTopology, TakesOne, sideVars, conductorVars
<1>2. pending' = pending \/ pending' = Append(pending, m)
  BY EnqueueAppends DEF PopTopology, TakesOne
<1>3. topoRing \in Seq(Mutation) /\ pending \in Seq(Mutation) /\ m \in Mutation
  BY <1>1, TailFacts DEF Inv, TypeOK, QueueType
<1>4. /\ InOrder(topoRing') /\ \A i \in 1 .. Len(topoRing') : Before(m, topoRing'[i])
      /\ \A k : AllAfter(k, topoRing) => AllAfter(k, topoRing') /\ After(k, m)
      /\ \A e : AllBefore(topoRing, e) => AllBefore(topoRing', e) /\ Before(m, e)
      /\ Precedes(pending, topoRing') /\ AllBefore(pending, m)
  BY <1>1, <1>3, TailOrder DEF PlayInv, QueueOrdered
<1> HIDE DEF m
<1>5. Precedes(Append(pending, m), topoRing')
  <2>1. \A i \in 1 .. Len(topoRing') : AllBefore(Append(pending, m), topoRing'[i])
    <3>1. ASSUME NEW i \in 1 .. Len(topoRing') PROVE AllBefore(pending, topoRing'[i])
      BY <1>4 DEF Precedes, AllBefore
    <3> QED
      BY <1>3, <1>4, <3>1, AppendOrder
  <2> QED
    BY <2>1 DEF AllBefore, Precedes
<1>6. QueueOrdered' /\ PlansBehind'
  <2>1. CASE pending' = pending
    BY <1>1, <1>4, <2>1 DEF PlayInv, QueueOrdered, PlansBehind
  <2>2. CASE pending' = Append(pending, m)
    <3>1. InOrder(pending')
      BY <1>3, <1>4, <2>2, AppendOrder DEF PlayInv, QueueOrdered
    <3>2. pushing # NoMutation => AllBefore(pending', pushing)
      BY <1>3, <1>4, <2>2, AppendOrder DEF PlayInv, QueueOrdered
    <3>3. \A s \in {0, 1} : AllAfter(sides[s].plan, pending')
      BY <1>3, <1>4, <2>2, AppendOrder DEF PlayInv, PlansBehind
    <3> QED
      BY <1>1, <1>4, <1>5, <2>2, <3>1, <3>2, <3>3 DEF PlayInv, QueueOrdered, PlansBehind
  <2> QED
    BY <1>2, <2>1, <2>2
<1>7. SidesPublished' /\ StagedAhead'
  BY <1>1 DEF PlayInv, SidesPublished, StagedAhead, Inactive
<1> QED
  BY <1>6, <1>7 DEF PlayInv

\* Bundled edges carry no topology.
LEMMA PopBundlePlayInv ==
  ASSUME Inv, PlayInv, PopBundle PROVE PlayInv'
<1> DEFINE m == CommandAtHand
<1>1. UNCHANGED <<sides, active, needsCommit, published, pushing, topoRing>>
  BY DEF PopBundle, sideVars, conductorVars
<1>2. pending' = pending \/ (pending' = Append(pending, m) /\ m.op # "PlayNode")
  BY EnqueueAppends DEF PopBundle, CommandAtHand
<1>3. pending \in Seq(Mutation) /\ topoRing \in Seq(Mutation)
  BY DEF Inv, TypeOK, QueueType
<1>4. m \in BundleCommand
  BY CommandTaken DEF Inv, TypeOK
<1>5. m.op # "SetTopology" /\ (m.op # "PlayNode" => m \in Mutation)
  BY <1>4 DEF BundleCommand, EdgeMutation, Mutation, NodeMutation
<1> HIDE DEF m
<1>6. QueueOrdered' /\ PlansBehind'
  <2>1. CASE pending' = pending
    BY <1>1, <2>1 DEF PlayInv, QueueOrdered, PlansBehind
  <2>2. CASE pending' = Append(pending, m) /\ m.op # "PlayNode"
    <3>1. InOrder(pending')
      BY <1>3, <1>5, <2>2, AppendOrder, NotSetOrder DEF PlayInv, QueueOrdered
    <3>2. pushing # NoMutation => AllBefore(pending', pushing)
      BY <1>3, <1>5, <2>2, AppendOrder, NotSetOrder DEF PlayInv, QueueOrdered
    <3>3. \A s \in {0, 1} : AllAfter(sides[s].plan, pending')
      BY <1>3, <1>5, <2>2, AppendOrder, NotSetOrder DEF PlayInv, PlansBehind
    <3>4. Precedes(pending', topoRing)
      <4>1. ASSUME NEW i \in 1 .. Len(topoRing) PROVE AllBefore(pending', topoRing[i])
        <5>1. AllBefore(pending, topoRing[i])
          BY DEF PlayInv, QueueOrdered, Precedes, AllBefore
        <5> QED
          BY <1>3, <1>5, <2>2, <5>1, AppendOrder, NotSetOrder
      <4> QED
        BY <4>1 DEF Precedes, AllBefore
    <3> QED
      BY <1>1, <3>1, <3>2, <3>3, <3>4 DEF PlayInv, QueueOrdered, PlansBehind
  <2> QED
    BY <1>2, <2>1, <2>2
<1>7. SidesPublished' /\ StagedAhead'
  BY <1>1 DEF PlayInv, SidesPublished, StagedAhead, Inactive
<1> QED
  BY <1>6, <1>7 DEF PlayInv

-----------------------------------------------------------------------------
\* Swapping the sides brings in the staged plan, or an empty graph.
LEMMA SwapPlayInv ==
  ASSUME Inv, PlayInv, SwapSides
  PROVE  /\ PlayInv' /\ UNCHANGED sides
         /\ sides'[active'].plan = 0 \/ sides'[active'].plan > sides[active].plan
<1>1. /\ UNCHANGED <<sides, published, pending, topoRing, pushing>>
      /\ active' = Inactive /\ needsCommit' = FALSE /\ needsCommit
      /\ ~ Uncompiled(sides[Inactive])
  BY DEF SwapSides, CommitUnchanged, conductorVars, queueVars
<1>2. Inactive \in {0, 1} /\ sides[Inactive] \in Side
  BY DEF Inv, TypeOK, SideType, Inactive
<1>3. sides[Inactive].plan = 0 => sides[Inactive].graph.count = 0
  BY <1>1, <1>2, SizeAssumption DEF Uncompiled, Side, Graph
<1>4. SidesPublished'
  BY <1>1, <1>3 DEF PlayInv, SidesPublished
<1>5. QueueOrdered' /\ PlansBehind' /\ StagedAhead'
  BY <1>1 DEF PlayInv, QueueOrdered, PlansBehind, StagedAhead
<1>6. sides'[active'].plan = 0 \/ sides'[active'].plan > sides[active].plan
  BY <1>1 DEF PlayInv, StagedAhead
<1> QED
  BY <1>1, <1>4, <1>5, <1>6 DEF PlayInv

\* A commit that swaps nothing leaves plans and queues alone.
LEMMA NoSwapPlayInv ==
  ASSUME Inv, PlayInv, NothingToCommit \/ RefuseCommit
  PROVE  PlayInv' /\ UNCHANGED <<sides, active>>
<1>1. /\ UNCHANGED <<sides, active, published, pending, topoRing, pushing>>
      /\ needsCommit' = needsCommit \/ needsCommit' = FALSE
  BY DEF NothingToCommit, RefuseCommit, CommitUnchanged, conductorVars, queueVars
<1>2. SidesPublished' /\ QueueOrdered' /\ PlansBehind'
  BY <1>1 DEF PlayInv, SidesPublished, QueueOrdered, PlansBehind
<1>3. StagedAhead'
  BY <1>1 DEF PlayInv, StagedAhead, Inactive
<1> QED
  BY <1>1, <1>2, <1>3 DEF PlayInv

\* Staging an edit touches the inactive side only and voids its plan.
LEMMA StageEffect ==
  ASSUME SideType, NEW g \in Graph, Stage(g)
  PROVE  /\ UNCHANGED active /\ Inactive \in {0, 1} /\ Inactive # active
         /\ sides'[active] = sides[active] /\ sides'[Inactive].plan = 0
<1>1. active \in {0, 1} /\ Inactive \in {0, 1} /\ Inactive # active
  BY DEF SideType, Inactive
<1>2. sides[active] \in Side /\ sides[Inactive] \in Side
  BY <1>1 DEF SideType
<1>3. Staged.plan = 0 /\ Staged \in Side
  BY <1>2, StagedIsSide DEF Staged, Side
<1>4. [Staged EXCEPT !.graph = g].plan = 0
  BY <1>3 DEF Side
<1>5. sides' = [sides EXCEPT ![Inactive] = [Staged EXCEPT !.graph = g]] /\ UNCHANGED active
  BY DEF Stage
<1> QED
  BY <1>1, <1>4, <1>5 DEF SideType

\* The ways a mutation can change the sides: the wiring and plan of neither,
\* a voided plan on the inactive one, or a compiled topology there.
Untouched ==
    /\ \A s \in {0, 1} : sides'[s].graph = sides[s].graph /\ sides'[s].plan = sides[s].plan
    /\ UNCHANGED needsCommit

ActiveKept ==
    sides'[active].graph = sides[active].graph /\ sides'[active].plan = sides[active].plan

Voided == ActiveKept /\ sides'[Inactive].plan = 0

Filled(m) ==
    /\ ActiveKept
    /\ m.op = "SetTopology"
    /\ sides'[Inactive].graph = published[m.topo].graph
    /\ sides'[Inactive].plan = PlanOf(m.topo)

\* What applying a mutation does to the side played and the side staged.
LEMMA ApplyEffect ==
  ASSUME Inv, ApplyOne
  PROVE  UNCHANGED active /\ (Untouched \/ Voided \/ Filled(Head(pending)))
<1> USE DEF Inv, TypeOK
<1> DEFINE m == Head(pending)
<1>1. m \in Mutation /\ m = pending[1] /\ Len(pending) \in Nat \ {0}
  BY TailFacts DEF ApplyOne, QueueType
<1>2. Known(m, Len(published))
  BY <1>1 DEF QueuedKnown
<1>3. \/ ApplyAddNode(m) \/ ApplySwapProcessor(m) \/ ApplyRemoveNode(m)
      \/ ApplyUpdateEdge(m) \/ ApplyUpdateOutputEdge(m) \/ ApplyDisconnect(m)
      \/ ApplySetBypass(m) \/ ApplySetTopology(m) \/ ApplyAddSource(m)
  BY DEF ApplyOne
<1> HIDE DEF m
<1>4. CASE ApplyAddNode(m)
  <2>1. CASE m.node \notin Nodes
    BY <1>4, <2>1 DEF ApplyAddNode, sideVars, Untouched
  <2>2. CASE m.node \in Nodes
    <3>1. Staged.graph \in Graph
      BY StagedIsSide DEF Side
    <3>2. Stage(AddNodeTo(Staged.graph, m.node)) /\ AddNodeTo(Staged.graph, m.node) \in Graph
      BY <1>4, <2>2, <3>1, AddNodeToType, StagesAddNode
    <3> QED
      BY <3>2, StageEffect DEF Voided, ActiveKept
  <2> QED
    BY <2>1, <2>2
<1>5. CASE ApplySwapProcessor(m) \/ ApplyAddSource(m)
  BY <1>5 DEF ApplySwapProcessor, ApplyAddSource, sideVars, Untouched
<1>6. CASE ApplyRemoveNode(m)
  BY <1>1, <1>6, ApplyRemoveNodeSides DEF Voided, ActiveKept
<1>7. CASE ApplyUpdateEdge(m) \/ ApplyUpdateOutputEdge(m) \/ ApplyDisconnect(m)
  <2>1. UNCHANGED sideVars \/ \E g \in Graph : Stage(g)
    BY <1>1, <1>7, ApplyEditType
  <2>2. CASE UNCHANGED sideVars
    BY <2>2 DEF sideVars, Untouched
  <2>3. CASE \E g \in Graph : Stage(g)
    BY <2>3, StageEffect DEF Voided, ActiveKept
  <2> QED
    BY <2>1, <2>2, <2>3
<1>8. CASE ApplySetBypass(m)
  BY <1>1, <1>8, ApplySetBypassType DEF Untouched
<1>9. CASE ApplySetTopology(m)
  <2>1. m.op = "SetTopology"
    BY <1>9 DEF ApplySetTopology
  <2> QED
    BY <1>1, <1>2, <1>9, <2>1, ApplySetTopologyType DEF Filled, ActiveKept
<1> QED
  BY <1>3, <1>4, <1>5, <1>6, <1>7, <1>8, <1>9 DEF m

\* Applying a mutation stages a newer plan or voids the staged one.
LEMMA ApplyOnePlayInv ==
  ASSUME Inv, PlayInv, ApplyOne PROVE PlayInv'
<1> DEFINE m == Head(pending)
<1>1. /\ UNCHANGED <<published, pushing, topoRing>>
      /\ pending # <<>> /\ pending' = Tail(pending)
  BY DEF ApplyOne, conductorVars, queueVars
<1>2. pending \in Seq(Mutation) /\ m \in Mutation /\ m = pending[1]
        /\ Len(pending) \in Nat \ {0}
  BY <1>1, TailFacts DEF Inv, TypeOK, QueueType
<1>3. UNCHANGED active /\ (Untouched \/ Voided \/ Filled(m))
  BY ApplyEffect
<1>4. /\ InOrder(pending') /\ \A i \in 1 .. Len(pending') : Before(m, pending'[i])
      /\ \A k : AllAfter(k, pending) => AllAfter(k, pending') /\ After(k, m)
      /\ \A e : AllBefore(pending, e) => AllBefore(pending', e) /\ Before(m, e)
      /\ Precedes(pending', topoRing)
  BY <1>1, <1>2, TailOrder DEF PlayInv, QueueOrdered
<1>5. QueueOrdered'
  BY <1>1, <1>4 DEF PlayInv, QueueOrdered
<1>6. active \in {0, 1} /\ Inactive \in {0, 1} /\ Inactive # active
        /\ \A s \in {0, 1} : s = active \/ s = Inactive
  BY DEF Inv, TypeOK, SideType, Inactive
<1>7. Known(m, Len(published))
  BY <1>2 DEF Inv, QueuedKnown
<1>8. AllAfter(sides[active].plan, pending') /\ After(sides[active].plan, m)
        /\ AllAfter(sides[active].plan, topoRing)
        /\ (pushing # NoMutation => After(sides[active].plan, pushing))
  BY <1>4, <1>6 DEF PlayInv, PlansBehind
<1>9. CASE Untouched
  <2>1. SidesPublished' /\ StagedAhead'
    BY <1>1, <1>3, <1>6, <1>9 DEF Untouched, PlayInv, SidesPublished, StagedAhead, Inactive
  <2>2. PlansBehind'
    BY <1>1, <1>4, <1>9 DEF Untouched, PlayInv, PlansBehind
  <2> QED
    BY <1>5, <2>1, <2>2 DEF PlayInv
<1>10. CASE Voided
  <2>1. /\ \A i \in 1 .. Len(pending') : Known(pending'[i], Len(published))
        /\ QueuedKnown
    BY <1>1, ApplyOneInv DEF Inv, QueuedKnown
  <2>2. \A e : Known(e, Len(published)) => After(0, e)
    BY DEF Known, After
  <2>3. /\ AllAfter(0, pending') /\ AllAfter(0, topoRing)
        /\ pushing # NoMutation => After(0, pushing)
    BY <2>1, <2>2 DEF QueuedKnown, AllAfter
  <2>4. PlansBehind'
    BY <1>1, <1>3, <1>6, <1>8, <1>10, <2>3 DEF Voided, ActiveKept, PlansBehind
  <2>5. SidesPublished' /\ StagedAhead'
    BY <1>1, <1>3, <1>6, <1>10
    DEF Voided, ActiveKept, PlayInv, SidesPublished, StagedAhead, Inactive
  <2> QED
    BY <1>5, <2>4, <2>5 DEF PlayInv
<1>11. CASE Filled(m)
  <2>1. m.op = "SetTopology" /\ m.topo \in 1 .. Len(published) /\ Len(published) \in Nat
    BY <1>7, <1>11, LenProperties DEF Filled, Known, Inv, TypeOK, MirrorType
  <2>2. sides[active].plan < m.topo
    BY <1>8, <2>1 DEF After
  <2>3. /\ AllAfter(m.topo, pending') /\ AllAfter(m.topo, topoRing)
        /\ pushing # NoMutation => After(m.topo, pushing)
    BY <1>2, <1>4, <2>1 DEF PlayInv, QueueOrdered, AllAfter, Before, AllBefore, Precedes
  <2>4. sides'[Inactive].plan \in {0, m.topo}
          /\ (sides'[Inactive].plan = m.topo => published[m.topo].stages # {})
    BY <1>11, <2>1 DEF Filled, PlanOf
  <2>5. \A k \in {0, m.topo} : /\ AllAfter(k, pending') /\ AllAfter(k, topoRing)
                               /\ pushing # NoMutation => After(k, pushing)
    <3>1. /\ \A i \in 1 .. Len(pending') : Known(pending'[i], Len(published))
          /\ QueuedKnown
      BY <1>1, ApplyOneInv DEF Inv, QueuedKnown
    <3>2. \A e : Known(e, Len(published)) => After(0, e)
      BY DEF Known, After
    <3> QED
      BY <2>3, <3>1, <3>2 DEF QueuedKnown, AllAfter
  <2>6. PlansBehind'
    BY <1>1, <1>3, <1>6, <1>8, <1>11, <2>4, <2>5 DEF Filled, ActiveKept, PlansBehind
  <2>7. SidesPublished'
    BY <1>1, <1>3, <1>6, <1>11, <2>1, <2>4 DEF Filled, ActiveKept, PlayInv, SidesPublished
  <2>8. StagedAhead'
    <3>1. Inactive' = Inactive
      BY <1>3 DEF Inactive
    <3> QED
      BY <1>3, <1>11, <2>2, <2>4, <3>1 DEF Filled, ActiveKept, StagedAhead
  <2> QED
    BY <1>5, <2>6, <2>7, <2>8 DEF PlayInv
<1> QED
  BY <1>3, <1>9, <1>10, <1>11

\* The steps that move neither a mutation nor a side.
LEMMA OtherPlayInv ==
  ASSUME Inv, PlayInv, EndDrain \/ EndApply \/ EndAsync \/ Render \/ DrainGarbage \/ UNCHANGED vars
  PROVE  PlayInv' /\ UNCHANGED <<sides, active>>
<1>1. UNCHANGED <<sides, active, needsCommit, published, pending, topoRing, pushing>>
  BY DEF EndDrain, EndApply, EndAsync, Render, DrainGarbage, vars, conductorVars, queueVars,
    sideVars
<1> QED
  BY <1>1 DEF PlayInv, SidesPublished, QueueOrdered, PlansBehind, StagedAhead, Inactive

\* Every step keeps the order of plans, one case per action.
LEMMA NextPlayInv ==
  ASSUME Inv, PlayInv, [Next]_vars PROVE PlayInv'
<1>1. CASE Conductor
  BY <1>1, ConductorPlayInv, CommitTopologyPlayInv
<1>2. CASE Push \/ GiveUp
  BY <1>2, PushPlayInv, GiveUpPlayInv
<1>3. CASE PopTopology \/ PopBundle
  BY <1>3, PopTopologyPlayInv, PopBundlePlayInv
<1>4. CASE NothingToCommit \/ RefuseCommit \/ SwapSides
  BY <1>4, NoSwapPlayInv, SwapPlayInv
<1>5. CASE ApplyOne
  BY <1>5, ApplyOnePlayInv
<1>6. CASE EndDrain \/ EndApply \/ EndAsync \/ Render \/ DrainGarbage \/ UNCHANGED vars
  BY <1>6, OtherPlayInv
<1> QED
  BY <1>1, <1>2, <1>3, <1>4, <1>5, <1>6 DEF Next, AudioThread

\* Plans and wiring belong together and only newer plans are on their way.
THEOREM PlayInvHolds == Spec => [](Inv /\ PlayInv)
<1>1. Init => Inv /\ PlayInv
  BY InitInv, InitPlayInv
<1>2. Inv /\ PlayInv /\ [Next]_vars => (Inv /\ PlayInv)'
  BY NextInv, NextPlayInv
<1> QED
  BY <1>1, <1>2, PTL DEF Spec

\* The audio thread plays an empty graph or exactly a topology the conductor
\* compiled, with the plan of that compilation.
THEOREM PlaysWhatWasPublished == Spec => []ActiveIsPublished
<1>1. Inv /\ PlayInv => ActiveIsPublished
  <2> SUFFICES ASSUME Inv, PlayInv PROVE ActiveIsPublished
    OBVIOUS
  <2>1. active \in {0, 1}
    BY DEF Inv, TypeOK, SideType
  <2> QED
    BY <2>1 DEF PlayInv, SidesPublished, ActiveIsPublished
<1> QED
  BY <1>1, PlayInvHolds, PTL

\* Who changes the side being played: nobody but a swap of the sides.
LEMMA ActiveChange ==
  ASSUME Inv, [Next]_vars, ~ SwapSides
  PROVE  UNCHANGED active /\ sides'[active].graph = sides[active].graph
<1>1. CASE Conductor
  <2>1. RTUnchanged
    BY <1>1 DEF Conductor, AddNode, SwapProcessor, RemoveNode, UpdateEdge, UpdateOutputEdge, Edge,
      Disconnect, SetBypass, CommitTopology, Perform
  <2> QED
    BY <2>1 DEF RTUnchanged, sideVars
<1>2. CASE Push \/ GiveUp
  BY <1>2 DEF Push, GiveUp, RTUnchanged, sideVars
<1>3. CASE PopTopology \/ PopBundle
  BY <1>3 DEF PopTopology, PopBundle, sideVars
<1>4. CASE NothingToCommit \/ RefuseCommit
  BY <1>4 DEF NothingToCommit, RefuseCommit, CommitUnchanged
<1>5. CASE ApplyOne
  <2>1. active \in {0, 1}
    BY DEF Inv, TypeOK, SideType
  <2> QED
    BY <1>5, <2>1, ApplyEffect DEF Untouched, Voided, Filled, ActiveKept
<1>6. CASE EndDrain \/ EndApply \/ EndAsync \/ Render \/ DrainGarbage \/ UNCHANGED vars
  BY <1>6 DEF EndDrain, EndApply, EndAsync, Render, DrainGarbage, vars, sideVars
<1> QED
  BY <1>1, <1>2, <1>3, <1>4, <1>5, <1>6 DEF Next, AudioThread

\* A commit never reinstalls the plan being played or an older one.
THEOREM NeverInstallsBackwards == Spec => InstallsForward
<1>1. Inv /\ PlayInv /\ [Next]_vars =>
        [active' # active =>
           \/ sides'[active'].plan = 0
           \/ sides'[active'].plan > sides[active].plan]_vars
  BY ActiveChange, SwapPlayInv
<1> QED
  BY <1>1, PlayInvHolds, PTL DEF Spec, InstallsForward

\* The wiring being played changes at the commit point of a block only.
THEOREM WiringStableWithinBlock == Spec => WiringChangesAtCommit
<1>1. Inv /\ [Next]_vars =>
        [sides'[active'].graph # sides[active].graph => pc = "commit"]_vars
  <2> SUFFICES ASSUME Inv, [Next]_vars, sides'[active'].graph # sides[active].graph
               PROVE  pc = "commit"
    OBVIOUS
  <2>1. SwapSides
    BY ActiveChange
  <2> QED
    BY <2>1 DEF SwapSides
<1> QED
  BY <1>1, InvHolds, PTL DEF Spec, WiringChangesAtCommit

-----------------------------------------------------------------------------
(***************************************************************************)
(* Who owns a processor.  There are five places it can be in; one that is  *)
(* live is in exactly one of them, once, and any other in none.            *)
(***************************************************************************)
Carriers(p) == {m \in AddMutation : m.proc = p}
Where(q, S) == {i \in DOMAIN q : q[i] \in S}

Offered(p) == {pushing} \cap Carriers(p)
InRing(p)  == Where(topoRing, Carriers(p))
InPend(p)  == Where(pending, Carriers(p))
AtNode(p)  == {n \in Nodes : procAt[n] = p}
Waste(p)   == Where(garbage, {p})

One(S) == \E x : S = {x}

Nowhere(p) ==
    Offered(p) = {} /\ InRing(p) = {} /\ InPend(p) = {} /\ AtNode(p) = {} /\ Waste(p) = {}

Somewhere(p) ==
    \/ One(Offered(p)) /\ InRing(p) = {} /\ InPend(p) = {} /\ AtNode(p) = {} /\ Waste(p) = {}
    \/ Offered(p) = {} /\ One(InRing(p)) /\ InPend(p) = {} /\ AtNode(p) = {} /\ Waste(p) = {}
    \/ Offered(p) = {} /\ InRing(p) = {} /\ One(InPend(p)) /\ AtNode(p) = {} /\ Waste(p) = {}
    \/ Offered(p) = {} /\ InRing(p) = {} /\ InPend(p) = {} /\ One(AtNode(p)) /\ Waste(p) = {}
    \/ Offered(p) = {} /\ InRing(p) = {} /\ InPend(p) = {} /\ AtNode(p) = {} /\ One(Waste(p))

OwnedBy(p) == IF fate[p] = "live" THEN Somewhere(p) ELSE Nowhere(p)

Owned == \A p \in Procs : OwnedBy(p)

LEMMA OneIsSome == \A S : One(S) => S # {}
BY DEF One

\* What is appended is in one more place.
LEMMA WhereAppend ==
  ASSUME NEW T, NEW q \in Seq(T), NEW e \in T, NEW S
  PROVE  /\ e \notin S => Where(Append(q, e), S) = Where(q, S)
         /\ e \in S /\ Where(q, S) = {} => One(Where(Append(q, e), S))
<1>1. /\ DOMAIN q = 1 .. Len(q) /\ DOMAIN Append(q, e) = 1 .. Len(q) + 1 /\ Len(q) \in Nat
      /\ \A i \in 1 .. Len(q) : Append(q, e)[i] = q[i]
      /\ Append(q, e)[Len(q) + 1] = e
  BY AppendProperties, LenProperties
<1>2. \A i : i \in 1 .. Len(q) + 1 <=> i \in 1 .. Len(q) \/ i = Len(q) + 1
  BY <1>1
<1>3. e \notin S => Where(Append(q, e), S) = Where(q, S)
  BY <1>1, <1>2 DEF Where
<1>4. ASSUME e \in S, Where(q, S) = {} PROVE Where(Append(q, e), S) = {Len(q) + 1}
  BY <1>1, <1>2, <1>4 DEF Where
<1> QED
  BY <1>3, <1>4 DEF One

\* What is taken off the front is in one place less.
LEMMA WhereTail ==
  ASSUME NEW T, NEW q \in Seq(T), q # <<>>, NEW S
  PROVE  /\ Head(q) \in S => Where(q, S) # {}
         /\ Head(q) \in S /\ One(Where(q, S)) => Where(Tail(q), S) = {}
         /\ Head(q) \notin S /\ Where(q, S) = {} => Where(Tail(q), S) = {}
         /\ Head(q) \notin S /\ One(Where(q, S)) => One(Where(Tail(q), S))
<1>1. /\ Head(q) = q[1] /\ Len(q) \in Nat \ {0} /\ Len(Tail(q)) = Len(q) - 1
      /\ \A i \in 1 .. Len(q) - 1 : Tail(q)[i] = q[i + 1]
      /\ Tail(q) \in Seq(T)
  BY TailFacts
<1>2. DOMAIN q = 1 .. Len(q) /\ DOMAIN Tail(q) = 1 .. Len(q) - 1
  BY <1>1
<1>3. \A i \in 1 .. Len(q) - 1 : i + 1 \in 1 .. Len(q) /\ i + 1 # 1
  BY <1>1
<1>4. \A i \in 1 .. Len(q) : i # 1 => i - 1 \in 1 .. Len(q) - 1 /\ (i - 1) + 1 = i
  BY <1>1
<1>5. 1 \in 1 .. Len(q)
  BY <1>1
<1>6. \A i : i \in Where(Tail(q), S) <=> i \in 1 .. Len(q) - 1 /\ i + 1 \in Where(q, S)
  BY <1>1, <1>2, <1>3 DEF Where
<1>7. Head(q) \in S <=> 1 \in Where(q, S)
  BY <1>1, <1>2, <1>5 DEF Where
<1>8. ASSUME Head(q) \in S, One(Where(q, S)) PROVE Where(Tail(q), S) = {}
  <2>1. Where(q, S) = {1}
    BY <1>7, <1>8 DEF One
  <2> QED
    BY <1>3, <1>6, <2>1
<1>9. ASSUME Where(q, S) = {} PROVE Where(Tail(q), S) = {}
  BY <1>6, <1>9
<1>10. ASSUME Head(q) \notin S, One(Where(q, S)) PROVE One(Where(Tail(q), S))
  <2>1. PICK i : Where(q, S) = {i}
    BY <1>10 DEF One
  <2>2. i \in 1 .. Len(q) /\ i # 1
    BY <1>2, <1>7, <1>10, <2>1 DEF Where
  <2>3. Where(Tail(q), S) = {i - 1}
    <3>1. i - 1 \in Where(Tail(q), S)
      BY <1>4, <1>6, <2>1, <2>2
    <3>2. ASSUME NEW k \in Where(Tail(q), S) PROVE k = i - 1
      <4>1. k \in 1 .. Len(q) - 1 /\ k + 1 = i
        BY <1>6, <2>1
      <4> QED
        BY <4>1
    <3> QED
      BY <3>1, <3>2
  <2> QED
    BY <2>3 DEF One
<1> QED
  BY <1>7, <1>8, <1>9, <1>10

\* The owners of p, as the property counts them.
LEMMA OwnersAreHolders ==
  ASSUME NEW p
  PROVE  /\ Somewhere(p) => \E h : Holders(p) = {h}
         /\ Nowhere(p) => Holders(p) = {}
<1>1. \A h : h \in Holders(p) <=>
        \/ h = <<"pushing", 0>> /\ Offered(p) # {}
        \/ \E i \in InRing(p) : h = <<"ring", i>>
        \/ \E i \in InPend(p) : h = <<"pending", i>>
        \/ \E n \in AtNode(p) : h = <<"node", n>>
        \/ \E i \in Waste(p) : h = <<"garbage", i>>
  BY DEF Holders, Offered, InRing, InPend, AtNode, Waste, Where, Carriers
<1>2. ASSUME Nowhere(p) PROVE Holders(p) = {}
  BY <1>1, <1>2 DEF Nowhere
<1>3. ASSUME Somewhere(p) PROVE \E h : Holders(p) = {h}
  <2>1. CASE One(Offered(p)) /\ InRing(p) = {} /\ InPend(p) = {} /\ AtNode(p) = {}
             /\ Waste(p) = {}
    <3>1. Holders(p) = {<<"pushing", 0>>}
      BY <1>1, <2>1, OneIsSome
    <3> QED
      BY <3>1
  <2>2. CASE Offered(p) = {} /\ One(InRing(p)) /\ InPend(p) = {} /\ AtNode(p) = {}
             /\ Waste(p) = {}
    <3>1. PICK i : InRing(p) = {i}
      BY <2>2 DEF One
    <3>2. Holders(p) = {<<"ring", i>>}
      BY <1>1, <2>2, <3>1
    <3> QED
      BY <3>2
  <2>3. CASE Offered(p) = {} /\ InRing(p) = {} /\ One(InPend(p)) /\ AtNode(p) = {}
             /\ Waste(p) = {}
    <3>1. PICK i : InPend(p) = {i}
      BY <2>3 DEF One
    <3>2. Holders(p) = {<<"pending", i>>}
      BY <1>1, <2>3, <3>1
    <3> QED
      BY <3>2
  <2>4. CASE Offered(p) = {} /\ InRing(p) = {} /\ InPend(p) = {} /\ One(AtNode(p))
             /\ Waste(p) = {}
    <3>1. PICK i : AtNode(p) = {i}
      BY <2>4 DEF One
    <3>2. Holders(p) = {<<"node", i>>}
      BY <1>1, <2>4, <3>1
    <3> QED
      BY <3>2
  <2>5. CASE Offered(p) = {} /\ InRing(p) = {} /\ InPend(p) = {} /\ AtNode(p) = {}
             /\ One(Waste(p))
    <3>1. PICK i : Waste(p) = {i}
      BY <2>5 DEF One
    <3>2. Holders(p) = {<<"garbage", i>>}
      BY <1>1, <2>5, <3>1
    <3> QED
      BY <3>2
  <2> QED
    BY <1>3, <2>1, <2>2, <2>3, <2>4, <2>5 DEF Somewhere
<1> QED
  BY <1>2, <1>3

\* Nothing has been created.
LEMMA InitOwned == Init => Owned
<1> SUFFICES ASSUME Init, NEW p \in Procs PROVE OwnedBy(p)
  BY DEF Owned
<1>1. Offered(p) = {}
  BY NoMutationAssumption DEF Init, Offered, Carriers, Mutation
<1>2. InRing(p) = {} /\ InPend(p) = {} /\ Waste(p) = {}
  BY EmptySeq DEF Init, InRing, InPend, Waste, Where
<1>3. AtNode(p) = {}
  BY PipelineAssumption DEF Init, AtNode
<1>4. fate[p] = "unborn"
  BY DEF Init
<1> QED
  BY <1>1, <1>2, <1>3, <1>4 DEF OwnedBy, Nowhere

-----------------------------------------------------------------------------
\* Everything that holds p but the conductor's hand is as it was.
Stored(p) ==
    /\ InRing(p)' = InRing(p) /\ InPend(p)' = InPend(p)
    /\ AtNode(p)' = AtNode(p) /\ Waste(p)' = Waste(p)

LEMMA StoredUnchanged ==
  ASSUME NEW p, UNCHANGED <<topoRing, pending, procAt, garbage>> PROVE Stored(p)
  BY DEF Stored, InRing, InPend, AtNode, Waste, Where

\* A processor that is where it was has the owner it had.
LEMMA UnmovedOwned ==
  ASSUME NEW p, OwnedBy(p), Stored(p), Offered(p)' = Offered(p), fate'[p] = fate[p]
  PROVE  OwnedBy(p)'
  BY DEF Stored, OwnedBy, Somewhere, Nowhere

\* Issuing a command that creates no processor.
LEMMA OfferedOwned ==
  ASSUME Owned, UNCHANGED <<topoRing, pending, procAt, garbage, fate>>,
         pushing' = pushing \/ (pushing = NoMutation /\ pushing' \notin AddMutation)
  PROVE  Owned'
<1> SUFFICES ASSUME NEW p \in Procs PROVE OwnedBy(p)'
  BY DEF Owned
<1>1. Stored(p) /\ OwnedBy(p)
  BY StoredUnchanged DEF Owned
<1>2. Offered(p)' = Offered(p)
  BY NoMutationAssumption DEF Offered, Carriers, Mutation
<1> QED
  BY <1>1, <1>2, UnmovedOwned

\* Issuing a command that creates one.
LEMMA CreatedOwned ==
  ASSUME Inv, Owned, NEW q \in Procs, NEW m \in AddMutation, m.proc = q,
         fate[q] = "unborn", fate' = [fate EXCEPT ![q] = "live"],
         pushing = NoMutation, pushing' = m,
         UNCHANGED <<topoRing, pending, procAt, garbage>>
  PROVE  Owned'
<1> SUFFICES ASSUME NEW p \in Procs PROVE OwnedBy(p)'
  BY DEF Owned
<1>1. Stored(p) /\ OwnedBy(p)
  BY StoredUnchanged DEF Owned
<1>2. Offered(p) = {}
  BY NoMutationAssumption DEF Offered, Carriers, Mutation
<1>3. fate'[q] = "live" /\ (p # q => fate'[p] = fate[p])
  BY DEF Inv, TypeOK, ProcType
<1>4. CASE p # q
  <2>1. Offered(p)' = {}
    BY <1>4 DEF Offered, Carriers
  <2> QED
    BY <1>1, <1>2, <1>3, <1>4, <2>1, UnmovedOwned
<1>5. CASE p = q
  <2>1. One(Offered(p)')
    <3>1. Offered(p)' = {m}
      BY <1>5 DEF Offered, Carriers
    <3> QED
      BY <3>1 DEF One
  <2>2. Nowhere(p)
    BY <1>1, <1>5 DEF OwnedBy
  <2> QED
    BY <1>1, <1>3, <1>5, <2>1, <2>2 DEF Stored, OwnedBy, Somewhere, Nowhere, One
<1> QED
  BY <1>4, <1>5

\* Every command.
LEMMA ConductorOwned ==
  ASSUME Inv, Owned, Conductor PROVE Owned'
<1>1. ASSUME NEW n \in Targets, AddNode(n) \/ SwapProcessor(n) PROVE Owned'
  <2>1. PICK q \in Procs, op \in {"AddNode", "SwapProcessor"} :
           /\ fate[q] = "unborn" /\ fate' = [fate EXCEPT ![q] = "live"]
           /\ pushing' = [op |-> op, node |-> n, proc |-> q]
    BY <1>1 DEF AddNode, SwapProcessor, Created
  <2>2. pushing' \in AddMutation /\ pushing'.proc = q
    BY <2>1 DEF AddMutation
  <2>3. /\ pushing = NoMutation
        /\ UNCHANGED <<topoRing, pending, procAt, garbage>>
    BY <1>1 DEF AddNode, SwapProcessor, Accept, RTUnchanged, nodeVars
  <2> QED
    BY <2>1, <2>2, <2>3, CreatedOwned
<1>2. ASSUME NEW n \in Nodes, RemoveNode(n) PROVE Owned'
  <2>1. pushing' \notin AddMutation
    BY <1>2 DEF RemoveNode, AddMutation
  <2>2. /\ pushing = NoMutation
        /\ UNCHANGED <<topoRing, pending, procAt, garbage, fate>>
    BY <1>2 DEF RemoveNode, Accept, RTUnchanged, nodeVars, procVars
  <2> QED
    BY <2>1, <2>2, OfferedOwned
<1>3. ASSUME NEW n, NEW c, NEW b, UpdateEdge(n, c, b) \/ UpdateOutputEdge(n, c, b)
      PROVE  Owned'
  <2>1. pushing' = pushing \/ pushing' \notin AddMutation
    BY <1>3 DEF UpdateEdge, UpdateOutputEdge, Edge, AddMutation
  <2>2. /\ pushing = NoMutation
        /\ UNCHANGED <<topoRing, pending, procAt, garbage, fate>>
    BY <1>3 DEF UpdateEdge, UpdateOutputEdge, Edge, Accept, RTUnchanged, nodeVars, procVars
  <2> QED
    BY <2>1, <2>2, OfferedOwned
<1>4. ASSUME NEW n \in Targets, NEW c \in Channels, Disconnect(n, c) PROVE Owned'
  <2>1. pushing' \notin AddMutation
    BY <1>4 DEF Disconnect, AddMutation
  <2>2. /\ pushing = NoMutation
        /\ UNCHANGED <<topoRing, pending, procAt, garbage, fate>>
    BY <1>4 DEF Disconnect, Accept, RTUnchanged, nodeVars, procVars
  <2> QED
    BY <2>1, <2>2, OfferedOwned
<1>5. ASSUME NEW n \in Targets, NEW flag \in BOOLEAN, SetBypass(n, flag) PROVE Owned'
  <2>1. pushing' \notin AddMutation
    BY <1>5 DEF SetBypass, AddMutation
  <2>2. /\ pushing = NoMutation
        /\ UNCHANGED <<topoRing, pending, procAt, garbage, fate>>
    BY <1>5 DEF SetBypass, Accept, RTUnchanged, nodeVars, procVars
  <2> QED
    BY <2>1, <2>2, OfferedOwned
<1>6. ASSUME CommitTopology PROVE Owned'
  <2>1. pushing' \notin AddMutation
    BY <1>6 DEF CommitTopology, AddMutation
  <2>2. /\ pushing = NoMutation
        /\ UNCHANGED <<topoRing, pending, procAt, garbage, fate>>
    BY <1>6 DEF CommitTopology, Accept, RTUnchanged, nodeVars, procVars
  <2> QED
    BY <2>1, <2>2, OfferedOwned
<1>7. ASSUME NEW op \in {"PlayNode", "AddSource"}, NEW n \in Nodes, NEW times,
             Perform(op, n, times)
      PROVE  Owned'
  <2>1. UNCHANGED <<pushing, topoRing, pending, procAt, garbage, fate>>
    BY <1>7 DEF Perform, RTUnchanged, nodeVars, procVars
  <2> QED
    BY <2>1, OfferedOwned
<1> QED
  BY <1>1, <1>2, <1>3, <1>4, <1>5, <1>6, <1>7 DEF Conductor

\* The mutation being pushed goes on the ring, and its processor with it.
LEMMA PushOwned ==
  ASSUME Inv, Owned, Push PROVE Owned'
<1> SUFFICES ASSUME NEW p \in Procs PROVE OwnedBy(p)'
  BY DEF Owned
<1>1. /\ topoRing' = Append(topoRing, pushing) /\ pushing' = NoMutation
      /\ UNCHANGED <<pending, procAt, garbage, fate>>
  BY DEF Push, RTUnchanged, nodeVars, procVars
<1>2. topoRing \in Seq(Mutation) /\ pushing \in Mutation
  BY DEF Push, Inv, TypeOK, QueueType
<1>3. /\ InPend(p)' = InPend(p) /\ AtNode(p)' = AtNode(p) /\ Waste(p)' = Waste(p)
      /\ OwnedBy(p) /\ fate'[p] = fate[p]
  BY <1>1 DEF InPend, AtNode, Waste, Where, Owned
<1>4. Offered(p)' = {}
  BY <1>1, NoMutationAssumption DEF Offered, Carriers, Mutation
<1>5. CASE pushing \in Carriers(p)
  <2>1. Offered(p) # {}
    BY <1>5 DEF Offered
  <2>2. Somewhere(p) /\ InRing(p) = {} /\ fate[p] = "live"
    BY <1>3, <2>1 DEF OwnedBy, Somewhere, Nowhere
  <2>3. One(InRing(p)')
    BY <1>1, <1>2, <1>5, <2>2, WhereAppend DEF InRing
  <2> QED
    BY <1>3, <1>4, <2>1, <2>2, <2>3 DEF OwnedBy, Somewhere
<1>6. CASE pushing \notin Carriers(p)
  <2>1. Offered(p) = {}
    BY <1>6 DEF Offered
  <2>2. InRing(p)' = InRing(p)
    BY <1>1, <1>2, <1>6, WhereAppend DEF InRing
  <2> QED
    BY <1>3, <1>4, <2>1, <2>2, UnmovedOwned DEF Stored
<1> QED
  BY <1>5, <1>6

\* A mutation given up on takes its processor with it.
LEMMA GiveUpOwned ==
  ASSUME Inv, Owned, GiveUp PROVE Owned'
<1> SUFFICES ASSUME NEW p \in Procs PROVE OwnedBy(p)'
  BY DEF Owned
<1>1. /\ pushing' = NoMutation /\ UNCHANGED <<topoRing, pending, procAt, garbage>>
      /\ fate' = IF pushing \in AddMutation
                 THEN [fate EXCEPT ![pushing.proc] = "freed"] ELSE fate
  BY DEF GiveUp, RTUnchanged, nodeVars
<1>2. Stored(p) /\ OwnedBy(p)
  BY <1>1, StoredUnchanged DEF Owned
<1>3. Offered(p)' = {}
  BY <1>1, NoMutationAssumption DEF Offered, Carriers, Mutation
<1>4. CASE pushing \in Carriers(p)
  <2>1. fate'[p] = "freed"
    BY <1>1, <1>4 DEF Carriers, Inv, TypeOK, ProcType
  <2>2. Offered(p) # {}
    BY <1>4 DEF Offered
  <2>3. InRing(p) = {} /\ InPend(p) = {} /\ AtNode(p) = {} /\ Waste(p) = {}
    BY <1>2, <2>2 DEF OwnedBy, Somewhere, Nowhere
  <2> QED
    BY <1>2, <1>3, <2>1, <2>3 DEF Stored, OwnedBy, Nowhere
<1>5. CASE pushing \notin Carriers(p)
  <2>1. fate'[p] = fate[p]
    BY <1>1, <1>5 DEF Carriers, AddMutation, Inv, TypeOK, ProcType
  <2>2. Offered(p) = {}
    BY <1>5 DEF Offered
  <2> QED
    BY <1>2, <1>3, <2>1, <2>2, UnmovedOwned
<1> QED
  BY <1>4, <1>5

-----------------------------------------------------------------------------
\* Two places that hold a processor equally: not at all, or once.
Alike(S, T) == (S = {} => T = {}) /\ (One(S) => One(T))

LEMMA AlikeOwned ==
  ASSUME NEW p, OwnedBy(p), fate'[p] = fate[p],
         Alike(Offered(p), Offered(p)'), Alike(InRing(p), InRing(p)'),
         Alike(InPend(p), InPend(p)'), Alike(AtNode(p), AtNode(p)'),
         Alike(Waste(p), Waste(p)')
  PROVE  OwnedBy(p)'
  BY DEF Alike, OwnedBy, Somewhere, Nowhere

LEMMA EqualIsAlike == \A S : Alike(S, S)
BY DEF Alike

\* The front of a queue moves on; what carries p moved, or it did not.
LEMMA FrontMoves ==
  ASSUME NEW q \in Seq(Mutation), q # <<>>, NEW p
  PROVE  /\ Head(q) \in Carriers(p) => Where(q, Carriers(p)) # {}
         /\ Head(q) \in Carriers(p) /\ One(Where(q, Carriers(p)))
              => Where(Tail(q), Carriers(p)) = {}
         /\ Head(q) \notin Carriers(p)
              => Alike(Where(q, Carriers(p)), Where(Tail(q), Carriers(p)))
  BY WhereTail DEF Alike

\* p has gone to the garbage ring, or nobody holds it any more.
Disposed(p) ==
    \/ One(Waste(p)') /\ fate'[p] = fate[p]
    \/ Waste(p)' = {} /\ fate'[p] # "live"

\* What retiring q does to p.
LEMMA RetireOwned ==
  ASSUME Inv, NEW q \in Procs \cup {Dummy}, Retire(q), NEW p \in Procs
  PROVE  /\ p # q => Waste(p)' = Waste(p) /\ fate'[p] = fate[p]
         /\ p = q /\ Waste(p) = {} => Disposed(p)
<1>1. /\ garbage \in Seq(Procs \cup {Dummy})
      /\ fate \in [Procs -> {"unborn", "live", "leaked", "freed", "freedOnRT"}]
  BY DEF Inv, TypeOK, ProcType
<1>2. CASE Len(garbage) < GarbageCap
  <2>1. garbage' = Append(garbage, q) /\ fate' = fate
    BY <1>2 DEF Retire
  <2>2. p # q => Waste(p)' = Waste(p)
    BY <1>1, <2>1, WhereAppend DEF Waste
  <2>3. p = q /\ Waste(p) = {} => One(Waste(p)')
    BY <1>1, <2>1, WhereAppend DEF Waste
  <2> QED
    BY <2>1, <2>2, <2>3 DEF Disposed
<1>3. CASE ~ (Len(garbage) < GarbageCap)
  <2>1. /\ fate' = IF q = Dummy THEN fate ELSE [fate EXCEPT ![q] = "leaked"]
        /\ garbage' = garbage
    BY <1>3 DEF Retire, Lose
  <2>2. Waste(p)' = Waste(p)
    BY <2>1 DEF Waste, Where
  <2>3. p # Dummy
    BY PipelineAssumption
  <2>4. (p # q => fate'[p] = fate[p]) /\ (p = q => fate'[p] = "leaked")
    BY <1>1, <2>1, <2>3
  <2> QED
    BY <2>2, <2>4 DEF Disposed
<1> QED
  BY <1>2, <1>3

\* What taking m into the pending buffer does to p.
LEMMA EnqueueOwned ==
  ASSUME Inv, NEW m \in Mutation, Enqueue(m), NEW p \in Procs
  PROVE  /\ m \notin Carriers(p) =>
              /\ InPend(p)' = InPend(p) /\ Waste(p)' = Waste(p)
              /\ fate'[p] = fate[p]
         /\ m \in Carriers(p) /\ InPend(p) = {} /\ Waste(p) = {} =>
              \/ One(InPend(p)') /\ Waste(p)' = {} /\ fate'[p] = fate[p]
              \/ InPend(p)' = {} /\ Disposed(p)
<1>1. /\ garbage \in Seq(Procs \cup {Dummy}) /\ pending \in Seq(Mutation)
      /\ fate \in [Procs -> {"unborn", "live", "leaked", "freed", "freedOnRT"}]
  BY DEF Inv, TypeOK, ProcType, QueueType
<1>2. CASE Len(pending) < PendingCap
  <2>1. pending' = Append(pending, m) /\ garbage' = garbage /\ fate' = fate
    BY <1>2 DEF Enqueue
  <2>2. Waste(p)' = Waste(p)
    BY <2>1 DEF Waste, Where
  <2>3. /\ m \notin Carriers(p) => InPend(p)' = InPend(p)
        /\ m \in Carriers(p) /\ InPend(p) = {} => One(InPend(p)')
    BY <1>1, <2>1, WhereAppend DEF InPend
  <2> QED
    BY <2>1, <2>2, <2>3
<1>3. CASE ~ (Len(pending) < PendingCap)
  <2>1. InPend(p)' = InPend(p)
    BY <1>3 DEF Enqueue, InPend, Where
  <2>2. CASE m \notin AddMutation
    <3>1. garbage' = garbage /\ fate' = fate /\ m \notin Carriers(p)
      BY <1>3, <2>2 DEF Enqueue, Carriers
    <3> QED
      BY <2>1, <3>1 DEF Waste, Where
  <2>3. CASE m \in AddMutation /\ Len(garbage) < GarbageCap
    <3>1. garbage' = Append(garbage, m.proc) /\ fate' = fate /\ m.proc \in Procs
      BY <1>3, <2>3 DEF Enqueue, AddMutation
    <3>2. m \in Carriers(p) <=> m.proc \in {p}
      BY <2>3 DEF Carriers
    <3>3. /\ m.proc \notin {p} =>
               Where(Append(garbage, m.proc), {p}) = Where(garbage, {p})
          /\ m.proc \in {p} /\ Where(garbage, {p}) = {} =>
               One(Where(Append(garbage, m.proc), {p}))
      <4>1. m.proc \in Procs \cup {Dummy}
        BY <3>1
      <4> QED
        BY <1>1, <4>1, WhereAppend
    <3>4. /\ m \notin Carriers(p) => Waste(p)' = Waste(p)
          /\ m \in Carriers(p) /\ Waste(p) = {} => One(Waste(p)')
      BY <3>1, <3>2, <3>3 DEF Waste
    <3> QED
      BY <2>1, <3>1, <3>4 DEF Disposed
  <2>4. CASE m \in AddMutation /\ ~ (Len(garbage) < GarbageCap)
    <3>1. fate' = [fate EXCEPT ![m.proc] = "freedOnRT"] /\ garbage' = garbage
      BY <1>3, <2>4 DEF Enqueue
    <3>2. Waste(p)' = Waste(p)
      BY <3>1 DEF Waste, Where
    <3>3. /\ m \notin Carriers(p) => fate'[p] = fate[p]
          /\ m \in Carriers(p) => fate'[p] = "freedOnRT"
      BY <1>1, <2>4, <3>1 DEF Carriers
    <3> QED
      BY <2>1, <3>2, <3>3 DEF Disposed
  <2> QED
    BY <2>2, <2>3, <2>4
<1> QED
  BY <1>2, <1>3

\* Draining the ring.
LEMMA PopTopologyOwned ==
  ASSUME Inv, Owned, PopTopology PROVE Owned'
<1> SUFFICES ASSUME NEW p \in Procs PROVE OwnedBy(p)'
  BY DEF Owned
<1> DEFINE m == Head(topoRing)
<1>1. /\ topoRing # <<>> /\ topoRing' = Tail(topoRing) /\ Enqueue(m)
      /\ UNCHANGED <<pushing, procAt>>
  BY DEF PopTopology, TakesOne, nodeVars
<1>2. topoRing \in Seq(Mutation) /\ m \in Mutation
  BY <1>1, TailFacts DEF Inv, TypeOK, QueueType
<1>3. Offered(p)' = Offered(p) /\ AtNode(p)' = AtNode(p) /\ OwnedBy(p)
  BY <1>1 DEF Offered, AtNode, Owned
<1>4. CASE m \in Carriers(p)
  <2>1. InRing(p) # {}
    BY <1>1, <1>2, <1>4, FrontMoves DEF InRing
  <2>2. /\ fate[p] = "live" /\ Offered(p) = {} /\ One(InRing(p)) /\ InPend(p) = {}
        /\ AtNode(p) = {} /\ Waste(p) = {}
    BY <1>3, <2>1 DEF OwnedBy, Somewhere, Nowhere
  <2>3. InRing(p)' = {}
    BY <1>1, <1>2, <1>4, <2>2, FrontMoves DEF InRing
  <2>4. \/ One(InPend(p)') /\ Waste(p)' = {} /\ fate'[p] = fate[p]
        \/ InPend(p)' = {} /\ Disposed(p)
    BY <1>1, <1>2, <1>4, <2>2, EnqueueOwned
  <2> QED
    BY <1>3, <2>2, <2>3, <2>4 DEF Disposed, OwnedBy, Somewhere, Nowhere
<1>5. CASE m \notin Carriers(p)
  <2>1. Alike(InRing(p), InRing(p)')
    BY <1>1, <1>2, <1>5, FrontMoves DEF InRing
  <2>2. InPend(p)' = InPend(p) /\ Waste(p)' = Waste(p) /\ fate'[p] = fate[p]
    BY <1>1, <1>2, <1>5, EnqueueOwned
  <2> QED
    BY <1>3, <2>1, <2>2, AlikeOwned, EqualIsAlike
<1> QED
  BY <1>4, <1>5

\* Bundles carry no processor.
LEMMA PopBundleOwned ==
  ASSUME Inv, Owned, PopBundle PROVE Owned'
<1> SUFFICES ASSUME NEW p \in Procs PROVE OwnedBy(p)'
  BY DEF Owned
<1> DEFINE cmd == CommandAtHand
<1>1. /\ UNCHANGED <<pushing, topoRing, procAt>>
      /\ IF cmd.op = "PlayNode" THEN UNCHANGED <<pending, garbage, fate>> ELSE Enqueue(cmd)
  BY DEF PopBundle, CommandAtHand, nodeVars
<1>2. /\ Offered(p)' = Offered(p) /\ InRing(p)' = InRing(p) /\ AtNode(p)' = AtNode(p)
      /\ OwnedBy(p)
  BY <1>1 DEF Offered, InRing, Where, AtNode, Owned
<1>3. InPend(p)' = InPend(p) /\ Waste(p)' = Waste(p) /\ fate'[p] = fate[p]
  <2>1. CASE cmd.op = "PlayNode"
    BY <1>1, <2>1 DEF InPend, Waste, Where
  <2>2. CASE cmd.op # "PlayNode"
    <3>1. cmd \in BundleCommand
      BY CommandTaken DEF Inv, TypeOK
    <3>2. cmd \in Mutation /\ cmd \notin Carriers(p)
      BY <2>2, <3>1 DEF BundleCommand, Mutation, NodeMutation, EdgeMutation, AddMutation, Carriers
    <3> QED
      BY <1>1, <2>2, <3>2, EnqueueOwned
  <2> QED
    BY <2>1, <2>2
<1> QED
  BY <1>2, <1>3, UnmovedOwned DEF Stored

\* Installing v at node n takes p in, puts it out, or neither.
LEMMA InstallOwned ==
  ASSUME Inv, NEW n \in Nodes, NEW v, procAt' = [procAt EXCEPT ![n] = v], NEW p
  PROVE  /\ procAt[n] = p => AtNode(p) # {}
         /\ v = p /\ AtNode(p) = {} => One(AtNode(p)')
         /\ v # p /\ procAt[n] = p /\ One(AtNode(p)) => AtNode(p)' = {}
         /\ v # p /\ procAt[n] # p => AtNode(p)' = AtNode(p)
<1>1. procAt'[n] = v /\ \A k \in Nodes : k # n => procAt'[k] = procAt[k]
  BY DEF Inv, TypeOK, NodeType
<1>2. procAt[n] = p => n \in AtNode(p)
  BY DEF AtNode
<1>3. ASSUME v = p, AtNode(p) = {} PROVE One(AtNode(p)')
  <2>1. AtNode(p)' = {n}
    BY <1>1, <1>3 DEF AtNode
  <2> QED
    BY <2>1 DEF One
<1>4. ASSUME v # p, procAt[n] = p, One(AtNode(p)) PROVE AtNode(p)' = {}
  <2>1. AtNode(p) = {n}
    BY <1>2, <1>4 DEF One
  <2>2. \A k \in Nodes : k # n => procAt[k] # p
    BY <2>1 DEF AtNode
  <2> QED
    BY <1>1, <1>4, <2>2 DEF AtNode
<1>5. ASSUME v # p, procAt[n] # p PROVE AtNode(p)' = AtNode(p)
  BY <1>1, <1>5 DEF AtNode
<1> QED
  BY <1>2, <1>3, <1>4, <1>5

\* What applying m does to the processors: it moves none, rejects the one m
\* brings, or installs that one or a dummy in place of another.
Rejects(m)     == m \in AddMutation /\ UNCHANGED procAt /\ Retire(m.proc)
Installs(m, v) ==
    \E n \in Nodes : procAt' = [procAt EXCEPT ![n] = v] /\ Retire(procAt[n])

LEMMA ApplyMoves ==
  ASSUME Inv, ApplyOne, NEW m, m = Head(pending), m \in Mutation
  PROVE  \/ m \notin AddMutation /\ UNCHANGED <<procAt, garbage, fate>>
         \/ Rejects(m)
         \/ m \in AddMutation /\ Installs(m, m.proc)
         \/ m \notin AddMutation /\ Installs(m, Dummy)
<1>1. \/ ApplyAddNode(m) \/ ApplySwapProcessor(m) \/ ApplyRemoveNode(m)
      \/ ApplyUpdateEdge(m) \/ ApplyUpdateOutputEdge(m) \/ ApplyDisconnect(m)
      \/ ApplySetBypass(m) \/ ApplySetTopology(m) \/ ApplyAddSource(m)
  BY DEF ApplyOne
<1>2. m.op \in {"AddNode", "SwapProcessor"} <=> m \in AddMutation
  BY DEF Mutation, AddMutation, NodeMutation, EdgeMutation, DropMutation, BypassMutation,
    SetMutation
<1>3. m.op = "RemoveNode" => m.node \in Nodes
  BY DEF Mutation, AddMutation, NodeMutation, EdgeMutation, DropMutation, BypassMutation,
    SetMutation
<1>4. CASE ApplyAddNode(m) \/ ApplySwapProcessor(m)
  <2>1. m \in AddMutation
    BY <1>2, <1>4 DEF ApplyAddNode, ApplySwapProcessor
  <2>2. CASE m.node \notin Nodes
    BY <1>4, <2>1, <2>2 DEF ApplyAddNode, ApplySwapProcessor, Rejects, nodeVars
  <2>3. CASE m.node \in Nodes
    BY <1>4, <2>1, <2>3 DEF ApplyAddNode, ApplySwapProcessor, Installs
  <2> QED
    BY <2>2, <2>3
<1>5. CASE ApplyRemoveNode(m)
  BY <1>2, <1>3, <1>5 DEF ApplyRemoveNode, Installs
<1>6. CASE \/ ApplyUpdateEdge(m) \/ ApplyUpdateOutputEdge(m) \/ ApplyDisconnect(m)
           \/ ApplySetBypass(m) \/ ApplySetTopology(m) \/ ApplyAddSource(m)
  <2>1. UNCHANGED <<nodeVars, procVars>>
    BY <1>6 DEF ApplyUpdateEdge, ApplyUpdateOutputEdge, ApplyEdge, ApplyDisconnect,
      ApplySetBypass, ApplySetTopology, ApplyAddSource
  <2>2. m.op \notin {"AddNode", "SwapProcessor"}
    BY <1>6 DEF ApplyUpdateEdge, ApplyUpdateOutputEdge, ApplyEdge, ApplyDisconnect,
      ApplySetBypass, ApplySetTopology, ApplyAddSource
  <2> QED
    BY <1>2, <2>1, <2>2 DEF nodeVars, procVars
<1> QED
  BY <1>1, <1>4, <1>5, <1>6

\* Applying a mutation: what it brings goes to a node and what was there to
\* the garbage ring.
LEMMA ApplyOneOwned ==
  ASSUME Inv, Owned, ApplyOne PROVE Owned'
<1> SUFFICES ASSUME NEW p \in Procs PROVE OwnedBy(p)'
  BY DEF Owned
<1>1. PICK m : m = Head(pending)
  OBVIOUS
<1>2. pending # <<>> /\ pending' = Tail(pending) /\ UNCHANGED <<pushing, topoRing>>
  BY DEF ApplyOne, queueVars
<1>3. pending \in Seq(Mutation) /\ m \in Mutation
  BY <1>1, <1>2, TailFacts DEF Inv, TypeOK, QueueType
<1>4. Offered(p)' = Offered(p) /\ InRing(p)' = InRing(p) /\ OwnedBy(p)
  BY <1>2 DEF Offered, InRing, Where, Owned
<1>5. m \in Carriers(p) =>
        /\ fate[p] = "live" /\ Offered(p) = {} /\ InRing(p) = {} /\ AtNode(p) = {}
        /\ Waste(p) = {} /\ InPend(p)' = {}
  <2> SUFFICES ASSUME m \in Carriers(p)
               PROVE  /\ fate[p] = "live" /\ Offered(p) = {} /\ InRing(p) = {}
                      /\ AtNode(p) = {} /\ Waste(p) = {} /\ InPend(p)' = {}
    OBVIOUS
  <2>1. InPend(p) # {}
    BY <1>1, <1>2, <1>3, FrontMoves DEF InPend
  <2>2. /\ fate[p] = "live" /\ Offered(p) = {} /\ InRing(p) = {} /\ One(InPend(p))
        /\ AtNode(p) = {} /\ Waste(p) = {}
    BY <1>4, <2>1 DEF OwnedBy, Somewhere, Nowhere
  <2>3. InPend(p)' = {}
    BY <1>1, <1>2, <1>3, <2>2, FrontMoves DEF InPend
  <2> QED
    BY <2>2, <2>3
<1>6. m \notin Carriers(p) => Alike(InPend(p), InPend(p)')
  BY <1>1, <1>2, <1>3, FrontMoves DEF InPend
<1>7. CASE m \notin AddMutation /\ UNCHANGED <<procAt, garbage, fate>>
  <2>1. m \notin Carriers(p) /\ AtNode(p)' = AtNode(p) /\ Waste(p)' = Waste(p)
    BY <1>7 DEF Carriers, AtNode, Waste, Where
  <2> QED
    BY <1>4, <1>6, <1>7, <2>1, AlikeOwned, EqualIsAlike
<1>8. CASE Rejects(m)
  <2>1. AtNode(p)' = AtNode(p) /\ m.proc \in Procs /\ (m \in Carriers(p) <=> p = m.proc)
    BY <1>8 DEF Rejects, AtNode, AddMutation, Carriers
  <2>2. /\ p # m.proc => Waste(p)' = Waste(p) /\ fate'[p] = fate[p]
        /\ p = m.proc /\ Waste(p) = {} => Disposed(p)
    BY <1>8, <2>1, RetireOwned DEF Rejects
  <2>3. CASE m \in Carriers(p)
    BY <1>4, <1>5, <2>1, <2>2, <2>3 DEF Disposed, OwnedBy, Somewhere, Nowhere
  <2>4. CASE m \notin Carriers(p)
    BY <1>4, <1>6, <2>1, <2>2, <2>4, AlikeOwned, EqualIsAlike
  <2> QED
    BY <2>3, <2>4
<1>9. ASSUME NEW v, Installs(m, v), v = p <=> m \in Carriers(p) PROVE OwnedBy(p)'
  <2>1. PICK n \in Nodes : procAt' = [procAt EXCEPT ![n] = v] /\ Retire(procAt[n])
    BY <1>9 DEF Installs
  <2>2. procAt[n] \in Procs \cup {Dummy}
    BY DEF Inv, TypeOK, NodeType
  <2>3. /\ p # procAt[n] => Waste(p)' = Waste(p) /\ fate'[p] = fate[p]
        /\ p = procAt[n] /\ Waste(p) = {} => Disposed(p)
    BY <2>1, <2>2, RetireOwned
  <2>4. /\ procAt[n] = p => AtNode(p) # {}
        /\ v = p /\ AtNode(p) = {} => One(AtNode(p)')
        /\ v # p /\ procAt[n] = p /\ One(AtNode(p)) => AtNode(p)' = {}
        /\ v # p /\ procAt[n] # p => AtNode(p)' = AtNode(p)
    BY <2>1, InstallOwned
  <2>5. CASE m \in Carriers(p)
    <3>1. procAt[n] # p /\ One(AtNode(p)') /\ v = p
      BY <1>5, <1>9, <2>4, <2>5
    <3> QED
      BY <1>4, <1>5, <2>3, <2>5, <3>1 DEF OwnedBy, Somewhere
  <2>6. CASE m \notin Carriers(p) /\ procAt[n] = p
    <3>1. /\ fate[p] = "live" /\ Offered(p) = {} /\ InRing(p) = {} /\ InPend(p) = {}
          /\ One(AtNode(p)) /\ Waste(p) = {}
      BY <1>4, <2>4, <2>6 DEF OwnedBy, Somewhere, Nowhere
    <3>2. InPend(p)' = {} /\ AtNode(p)' = {} /\ Disposed(p)
      BY <1>6, <1>9, <2>3, <2>4, <2>6, <3>1 DEF Alike
    <3> QED
      BY <1>4, <3>1, <3>2 DEF Disposed, OwnedBy, Somewhere, Nowhere
  <2>7. CASE m \notin Carriers(p) /\ procAt[n] # p
    BY <1>4, <1>6, <1>9, <2>3, <2>4, <2>7, AlikeOwned, EqualIsAlike
  <2> QED
    BY <2>5, <2>6, <2>7
<1>10. m \in AddMutation => (m.proc = p <=> m \in Carriers(p))
  BY DEF Carriers
<1>11. m \notin AddMutation => (Dummy = p <=> m \in Carriers(p))
  BY PipelineAssumption DEF Carriers
<1>12. CASE m \in AddMutation /\ Installs(m, m.proc)
  BY <1>9, <1>10, <1>12
<1>13. CASE m \notin AddMutation /\ Installs(m, Dummy)
  BY <1>9, <1>11, <1>13
<1> QED
  BY <1>1, <1>3, <1>7, <1>8, <1>12, <1>13, ApplyMoves

\* The orchestration thread frees what it takes off the garbage ring.
LEMMA DrainGarbageOwned ==
  ASSUME Inv, Owned, DrainGarbage PROVE Owned'
<1> SUFFICES ASSUME NEW p \in Procs PROVE OwnedBy(p)'
  BY DEF Owned
<1>1. /\ garbage # <<>> /\ garbage' = Tail(garbage)
      /\ fate' = IF Head(garbage) = Dummy THEN fate
                 ELSE [fate EXCEPT ![Head(garbage)] = "freed"]
      /\ UNCHANGED <<pushing, topoRing, pending, procAt>>
  BY DEF DrainGarbage, queueVars, nodeVars
<1>2. /\ garbage \in Seq(Procs \cup {Dummy}) /\ p # Dummy
      /\ fate \in [Procs -> {"unborn", "live", "leaked", "freed", "freedOnRT"}]
  BY PipelineAssumption DEF Inv, TypeOK, ProcType
<1>3. /\ Offered(p)' = Offered(p) /\ InRing(p)' = InRing(p) /\ InPend(p)' = InPend(p)
      /\ AtNode(p)' = AtNode(p) /\ OwnedBy(p)
  BY <1>1 DEF Offered, InRing, InPend, AtNode, Where, Owned
<1>4. /\ Head(garbage) = p => Waste(p) # {}
      /\ Head(garbage) = p /\ One(Waste(p)) => Waste(p)' = {}
      /\ Head(garbage) # p => Alike(Waste(p), Waste(p)')
  <2>1. Head(garbage) \in {p} <=> Head(garbage) = p
    OBVIOUS
  <2> QED
    BY <1>1, <1>2, <2>1, WhereTail DEF Waste, Alike
<1>5. CASE Head(garbage) = p
  <2>1. /\ Offered(p) = {} /\ InRing(p) = {} /\ InPend(p) = {} /\ AtNode(p) = {}
        /\ One(Waste(p))
    BY <1>3, <1>4, <1>5 DEF OwnedBy, Somewhere, Nowhere
  <2>2. fate'[p] = "freed"
    BY <1>1, <1>2, <1>5
  <2> QED
    BY <1>3, <1>4, <1>5, <2>1, <2>2 DEF OwnedBy, Nowhere
<1>6. CASE Head(garbage) # p
  <2>1. fate'[p] = fate[p]
    BY <1>1, <1>2, <1>6
  <2> QED
    BY <1>3, <1>4, <1>6, <2>1, AlikeOwned, EqualIsAlike
<1> QED
  BY <1>5, <1>6

\* Every step keeps one owner per live processor, one case per action.
LEMMA NextOwned ==
  ASSUME Inv, Owned, [Next]_vars PROVE Owned'
<1>1. CASE Conductor
  BY <1>1, ConductorOwned
<1>2. CASE Push \/ GiveUp
  BY <1>2, PushOwned, GiveUpOwned
<1>3. CASE PopTopology \/ PopBundle
  BY <1>3, PopTopologyOwned, PopBundleOwned
<1>4. CASE ApplyOne
  BY <1>4, ApplyOneOwned
<1>5. CASE DrainGarbage
  BY <1>5, DrainGarbageOwned
<1>6. CASE \/ EndDrain \/ NothingToCommit \/ RefuseCommit \/ SwapSides
           \/ EndApply \/ EndAsync \/ Render \/ UNCHANGED vars
  <2>1. UNCHANGED <<pushing, topoRing, pending, procAt, garbage, fate>>
    BY <1>6 DEF EndDrain, NothingToCommit, RefuseCommit, SwapSides, CommitUnchanged,
      EndApply, EndAsync, Render, vars, queueVars, nodeVars, procVars
  <2> QED
    BY <2>1, OfferedOwned
<1> QED
  BY <1>1, <1>2, <1>3, <1>4, <1>5, <1>6 DEF Next, AudioThread

\* A boxed processor has exactly one owner from its creation until it is
\* freed or leaked, and none after: no push, drop, swap or retirement copies
\* it or loses it.
THEOREM ProcessorsOwnedOnce == Spec => []OwnedOnce
<1>1. Init => Inv /\ Owned
  BY InitInv, InitOwned
<1>2. Inv /\ Owned /\ [Next]_vars => (Inv /\ Owned)'
  BY NextInv, NextOwned
<1>3. Inv /\ Owned => OwnedOnce
  BY OwnersAreHolders DEF Owned, OwnedBy, OwnedOnce
<1> QED
  BY <1>1, <1>2, <1>3, PTL DEF Spec

-----------------------------------------------------------------------------
(***************************************************************************)
(* Where processors are freed.                                             *)
(***************************************************************************)

\* A step that frees p on the audio thread is one that has no room for it, neither
\* among the pending mutations nor in the garbage ring, and p was at no node.
FreesOnOverflow(p) ==
    fate'[p] = "freedOnRT" /\ fate[p] # "freedOnRT" =>
      /\ Len(pending) = PendingCap /\ Len(garbage) = GarbageCap /\ dropped'
      /\ \A n \in Nodes : procAt[n] # p

\* The pending buffer frees the processor of a mutation it drops, and only that.
LEMMA EnqueueFrees ==
  ASSUME Inv, NEW m, Enqueue(m), NEW p \in Procs, m \in Carriers(p) => AtNode(p) = {}
  PROVE  FreesOnOverflow(p)
<1> SUFFICES ASSUME fate'[p] = "freedOnRT", fate[p] # "freedOnRT"
             PROVE  /\ Len(pending) = PendingCap /\ Len(garbage) = GarbageCap /\ dropped'
                    /\ AtNode(p) = {}
  BY DEF FreesOnOverflow, AtNode
<1>1. fate \in [Procs -> {"unborn", "live", "leaked", "freed", "freedOnRT"}]
  BY DEF Inv, TypeOK, ProcType
<1>2. /\ Len(pending) \in Nat /\ Len(pending) <= PendingCap
      /\ Len(garbage) \in Nat /\ Len(garbage) <= GarbageCap
  BY LenProperties DEF Inv, TypeOK, QueueType, ProcType
<1>3. /\ ~ (Len(pending) < PendingCap) /\ m \in AddMutation
      /\ ~ (Len(garbage) < GarbageCap) /\ dropped'
      /\ fate' = [fate EXCEPT ![m.proc] = "freedOnRT"]
  BY DEF Enqueue
<1>4. m \in Carriers(p)
  BY <1>1, <1>3 DEF Carriers
<1> QED
  BY <1>2, <1>3, <1>4, PipelineAssumption

\* Retiring leaks a processor, if need be, and frees none.
LEMMA RetireFrees ==
  ASSUME Inv, NEW q, Retire(q), NEW p \in Procs PROVE FreesOnOverflow(p)
<1>1. fate \in [Procs -> {"unborn", "live", "leaked", "freed", "freedOnRT"}]
  BY DEF Inv, TypeOK, ProcType
<1>2. fate' = fate \/ fate' = [fate EXCEPT ![q] = "leaked"]
  BY DEF Retire, Lose
<1> QED
  BY <1>1, <1>2 DEF FreesOnOverflow

\* Every step, one case per kind of action.
LEMMA StepFrees ==
  ASSUME Inv, Owned, [Next]_vars, NEW p \in Procs PROVE FreesOnOverflow(p)
<1>1. fate \in [Procs -> {"unborn", "live", "leaked", "freed", "freedOnRT"}]
  BY DEF Inv, TypeOK, ProcType
<1>2. CASE Conductor
  <2>1. fate' = fate \/ \E q \in Procs : fate' = [fate EXCEPT ![q] = "live"]
    BY <1>2 DEF Conductor, AddNode, SwapProcessor, RemoveNode, UpdateEdge, UpdateOutputEdge,
      Edge, Disconnect, SetBypass, CommitTopology, Perform, procVars
  <2> QED
    BY <1>1, <2>1 DEF FreesOnOverflow
<1>3. CASE Push \/ GiveUp \/ DrainGarbage
  <2>1. fate' = fate \/ \E q : fate' = [fate EXCEPT ![q] = "freed"]
    BY <1>3 DEF Push, GiveUp, DrainGarbage, procVars
  <2> QED
    BY <1>1, <2>1 DEF FreesOnOverflow
<1>4. CASE PopTopology
  <2>1. PICK m : m = Head(topoRing)
    OBVIOUS
  <2>2. topoRing # <<>> /\ topoRing \in Seq(Mutation) /\ Enqueue(m)
    BY <1>4, <2>1 DEF PopTopology, TakesOne, Inv, TypeOK, QueueType
  <2>3. m \in Carriers(p) => InRing(p) # {}
    BY <2>1, <2>2, FrontMoves DEF InRing
  <2>4. m \in Carriers(p) => AtNode(p) = {}
    BY <2>3 DEF Owned, OwnedBy, Somewhere, Nowhere
  <2> QED
    BY <2>2, <2>4, EnqueueFrees
<1>5. CASE PopBundle
  <2>1. UNCHANGED fate \/ Enqueue(CommandAtHand)
    BY <1>5 DEF PopBundle, CommandAtHand
  <2>2. CommandAtHand \notin Carriers(p)
    <3>1. CommandAtHand \in BundleCommand
      BY <1>5, CommandTaken DEF Inv, TypeOK
    <3> QED
      BY <3>1 DEF BundleCommand, EdgeMutation, AddMutation, Carriers
  <2> QED
    BY <2>1, <2>2, EnqueueFrees DEF FreesOnOverflow
<1>6. CASE ApplyOne
  <2>1. PICK m : m = Head(pending)
    OBVIOUS
  <2>2. m \in Mutation
    BY <1>6, <2>1, TailFacts DEF ApplyOne, Inv, TypeOK, QueueType
  <2>3. UNCHANGED fate \/ \E q : Retire(q)
    BY <1>6, <2>1, <2>2, ApplyMoves DEF Rejects, Installs
  <2>4. CASE UNCHANGED fate
    BY <2>4 DEF FreesOnOverflow
  <2>5. CASE \E q : Retire(q)
    BY <2>5, RetireFrees
  <2> QED
    BY <2>3, <2>4, <2>5
<1>7. CASE \/ EndDrain \/ NothingToCommit \/ RefuseCommit \/ SwapSides
           \/ EndApply \/ EndAsync \/ Render \/ UNCHANGED vars
  BY <1>7 DEF EndDrain, NothingToCommit, RefuseCommit, SwapSides, CommitUnchanged,
    EndApply, EndAsync, Render, vars, procVars, FreesOnOverflow
<1> QED
  BY <1>2, <1>3, <1>4, <1>5, <1>6, <1>7 DEF Next, AudioThread

\* The audio thread frees a processor only when the mutation that brings it
\* finds the pending buffer and the garbage ring full at once, and never one
\* that a node holds, however often nodes are added, swapped and removed and
\* whatever the rings can hold.
THEOREM FreedOnRTOnlyOnOverflow == Spec => FreedOnlyOnOverflow
<1>1. Init => Inv /\ Owned
  BY InitInv, InitOwned
<1>2. Inv /\ Owned /\ [Next]_vars => (Inv /\ Owned)'
  BY NextInv, NextOwned
<1>3. Inv /\ Owned /\ [Next]_vars
        => [\A p \in Procs :
              fate'[p] = "freedOnRT" /\ fate[p] # "freedOnRT" =>
                /\ Len(pending) = PendingCap /\ Len(garbage) = GarbageCap /\ dropped'
                /\ \A n \in Nodes : procAt[n] # p]_vars
  BY StepFrees DEF FreesOnOverflow
<1> QED
  BY <1>1, <1>2, <1>3, PTL DEF Spec, FreedOnlyOnOverflow

-----------------------------------------------------------------------------
(***************************************************************************)
(* The two replicas of the graph.  A replica is a graph and the nodes that *)
(* hold a processor.  The audio thread's replica becomes the conductor's   *)
(* when what is on its way between them is applied to it: first the        *)
(* pending buffer, then the ring, then the mutation being pushed.          *)
(***************************************************************************)
Replica(g, occupied) == [graph |-> g, occ |-> occupied]

\* What a mutation makes of the occupied nodes and of the graph; `log` holds
\* the published topologies.
OccBy(occupied, m) ==
    CASE m.op \in {"AddNode", "SwapProcessor"} -> occupied \cup ({m.node} \cap Nodes)
      [] m.op = "RemoveNode" -> occupied \ {m.node}
      [] OTHER -> occupied

GraphBy(g, occupied, m, log) ==
    CASE m.op = "AddNode" /\ m.node \in Nodes -> AddNodeTo(g, m.node)
      [] m.op = "RemoveNode" -> RemoveNodeFrom(g, m.node, OccBy(occupied, m))
      [] m.op = "UpdateEdge" /\ m.node \in Nodes /\ m.buffer \in Buffers ->
           SetInput(g, m.node, m.slot, m.buffer)
      [] m.op = "UpdateOutputEdge" /\ m.node \in Nodes /\ m.buffer \in Buffers ->
           SetOutput(g, m.node, m.slot, m.buffer)
      [] m.op = "Disconnect" /\ m.node \in Nodes -> DropInput(g, m.node, m.slot)
      [] m.op = "SetTopology" -> log[m.topo].graph
      [] OTHER -> g

Replayed(s, m, log) == Replica(GraphBy(s.graph, s.occ, m, log), OccBy(s.occ, m))

\* Applying the mutations of q in order leads from replica s to replica t:
\* h[i] is the replica before the i-th one.
Replays(s, q, t, log) ==
    \E h : /\ h[1] = s
           /\ h[Len(q) + 1] = t
           /\ \A i \in 1 .. Len(q) : h[i + 1] = Replayed(h[i], q[i], log)

InStep ==
    \E g, g1, o1, t :
      /\ ~refused => g = Staged.graph
      /\ Replays(Replica(g, Occupied(procAt)), pending, Replica(g1, o1), published)
      /\ Replays(Replica(g1, o1), topoRing, t, published)
      /\ Replica(mirror, typed \cap Nodes)
           = IF pushing = NoMutation THEN t ELSE Replayed(t, pushing, published)

\* A command that joins the pending buffer from a bundle edits no graph.
Harmless(cmd) == cmd.op \in {"PlayNode", "AddSource"} \/ cmd.buffer \notin Buffers

BundlesHarmless ==
    \A i \in 1 .. Len(bundleRing) : \A j \in 1 .. Len(bundleRing[i]) :
      Harmless(bundleRing[i][j])

Follows == BundlesHarmless /\ (~dropped => InStep)

\* Applying nothing leads from a replica to itself.
LEMMA ReplaysNothing ==
  ASSUME NEW s, NEW t, NEW log
  PROVE  Replays(s, <<>>, t, log) <=> s = t
<1>1. Len(<<>>) = 0
  BY EmptySeq
<1>2. ASSUME s = t PROVE Replays(s, <<>>, t, log)
  <2> DEFINE h == [i \in {1} |-> s]
  <2>1. h[1] = s
    OBVIOUS
  <2> HIDE DEF h
  <2> QED
    BY <1>1, <1>2, <2>1 DEF Replays
<1>3. ASSUME Replays(s, <<>>, t, log) PROVE s = t
  BY <1>1, <1>3 DEF Replays
<1> QED
  BY <1>2, <1>3

\* A mutation behind the others is applied last.
LEMMA ReplaysAppend ==
  ASSUME NEW S, NEW q \in Seq(S), NEW e \in S, NEW s, NEW t, NEW log,
         Replays(s, q, t, log)
  PROVE  Replays(s, Append(q, e), Replayed(t, e, log), log)
<1> DEFINE n == Len(q)
<1>1. /\ n \in Nat /\ Len(Append(q, e)) = n + 1 /\ Append(q, e)[n + 1] = e
      /\ \A i \in 1 .. n : Append(q, e)[i] = q[i]
  BY AppendFacts
<1>2. PICK h : /\ h[1] = s /\ h[n + 1] = t
               /\ \A i \in 1 .. n : h[i + 1] = Replayed(h[i], q[i], log)
  BY DEF Replays
<1> DEFINE k == [i \in 1 .. n + 2 |-> IF i <= n + 1 THEN h[i] ELSE Replayed(t, e, log)]
<1>3. k[n + 2] = Replayed(t, e, log) /\ \A i \in 1 .. n + 1 : k[i] = h[i]
  BY <1>1
<1> HIDE DEF k
<1>4. k[1] = s /\ k[n + 1] = t
  BY <1>1, <1>2, <1>3
<1>5. ASSUME NEW i \in 1 .. n + 1 PROVE k[i + 1] = Replayed(k[i], Append(q, e)[i], log)
  <2>1. CASE i \in 1 .. n
    <3>1. i + 1 \in 1 .. n + 1
      BY <1>1, <2>1
    <3> QED
      BY <1>1, <1>2, <1>3, <2>1, <3>1
  <2>2. CASE i = n + 1
    <3>1. i + 1 = n + 2
      BY <1>1, <2>2
    <3> QED
      BY <1>1, <1>3, <1>4, <2>2, <3>1
  <2> QED
    BY <1>1, <2>1, <2>2
<1>6. n + 1 + 1 = n + 2
  BY <1>1
<1> QED
  BY <1>1, <1>3, <1>4, <1>5, <1>6 DEF Replays

\* The first mutation is applied first.
LEMMA ReplaysTail ==
  ASSUME NEW S, NEW q \in Seq(S), q # <<>>, NEW s, NEW t, NEW log,
         Replays(s, q, t, log)
  PROVE  Replays(Replayed(s, Head(q), log), Tail(q), t, log)
<1> DEFINE n == Len(q)
<1>1. /\ Head(q) = q[1] /\ n \in Nat \ {0} /\ Len(Tail(q)) = n - 1
      /\ \A i \in 1 .. n - 1 : Tail(q)[i] = q[i + 1]
  BY TailFacts
<1>2. PICK h : /\ h[1] = s /\ h[n + 1] = t
               /\ \A i \in 1 .. n : h[i + 1] = Replayed(h[i], q[i], log)
  BY DEF Replays
<1> DEFINE k == [i \in 1 .. n |-> h[i + 1]]
<1>3. \A i \in 1 .. n : k[i] = h[i + 1]
  OBVIOUS
<1> HIDE DEF k
<1>4. k[1] = Replayed(s, Head(q), log)
  BY <1>1, <1>2, <1>3
<1>5. k[n - 1 + 1] = t
  BY <1>1, <1>2, <1>3
<1>6. ASSUME NEW i \in 1 .. n - 1 PROVE k[i + 1] = Replayed(k[i], Tail(q)[i], log)
  <2>1. i \in 1 .. n /\ i + 1 \in 1 .. n
    BY <1>1
  <2> QED
    BY <1>1, <1>2, <1>3, <2>1
<1> QED
  BY <1>1, <1>4, <1>5, <1>6 DEF Replays

\* Publishing a topology does not change what the queued mutations do: they
\* name topologies published before it.
LEMMA ReplayedGrows ==
  ASSUME NEW T, NEW log \in Seq(T), NEW e \in T, NEW m, Known(m, Len(log)), NEW s
  PROVE  Replayed(s, m, Append(log, e)) = Replayed(s, m, log)
<1>1. m.op = "SetTopology" => Append(log, e)[m.topo] = log[m.topo]
  BY AppendFacts DEF Known
<1> QED
  BY <1>1 DEF Replayed, GraphBy

LEMMA ReplaysGrows ==
  ASSUME NEW T, NEW log \in Seq(T), NEW e \in T, NEW q,
         \A i \in 1 .. Len(q) : Known(q[i], Len(log)),
         NEW s, NEW t, Replays(s, q, t, log)
  PROVE  Replays(s, q, t, Append(log, e))
  BY ReplayedGrows DEF Replays

-----------------------------------------------------------------------------
\* Only the occupied indices below the count matter to a removal.
LEMMA CountOfLocal ==
  ASSUME NEW occupied \in SUBSET (0 .. MaxNodes), NEW count \in 0 .. MaxNodes
  PROVE  CountOf(occupied \cap Nodes, count) = CountOf(occupied, count)
<1> DEFINE near == {i \in occupied \cap Nodes :
                      /\ i < count
                      /\ \A j \in occupied \cap Nodes : j < count => j <= i}
           last == {i \in occupied : /\ i < count
                                     /\ \A j \in occupied : j < count => j <= i}
<1>1. \A i \in occupied : i < count => i \in Nodes
  BY SizeAssumption DEF Nodes
<1>2. near = last
  BY <1>1
<1>3. CountOf(occupied, count) = IF last = {} THEN 0 ELSE (CHOOSE i \in last : TRUE) + 1
  BY DEF CountOf
<1>4. CountOf(occupied \cap Nodes, count)
        = IF near = {} THEN 0 ELSE (CHOOSE i \in near : TRUE) + 1
  BY DEF CountOf
<1> HIDE DEF near, last
<1> QED
  BY <1>2, <1>3, <1>4

\* So the conductor may remove a node given the indices it has a type for and
\* the audio thread given the nodes that hold a processor.
LEMMA RemovalLocal ==
  ASSUME NEW g \in Graph, NEW n \in Nodes, NEW occupied \in SUBSET Targets
  PROVE  RemoveNodeFrom(g, n, occupied \cap Nodes) = RemoveNodeFrom(g, n, occupied)
<1>1. g.count \in 0 .. MaxNodes
  BY DEF Graph
<1>2. CountOf(occupied \cap Nodes, g.count) = CountOf(occupied, g.count)
  BY <1>1, CountOfLocal DEF Targets
<1> QED
  BY <1>2 DEF RemoveNodeFrom

\* Nothing queued, nothing occupied, two empty graphs.
LEMMA InitFollows == Init => Follows
<1> SUFFICES ASSUME Init PROVE Follows
  OBVIOUS
<1>1. Staged.graph = EmptyGraph
  BY DEF Init, Staged, Inactive
<1>2. Occupied(procAt) = {} /\ typed \cap Nodes = {}
  BY DEF Init, Occupied
<1>3. /\ pending = <<>> /\ topoRing = <<>> /\ bundleRing = <<>>
      /\ pushing = NoMutation /\ mirror = EmptyGraph
  BY DEF Init
<1> DEFINE s == Replica(EmptyGraph, {})
<1>4. Replays(s, pending, s, published) /\ Replays(s, topoRing, s, published)
  BY <1>3, ReplaysNothing
<1>5. InStep
  BY <1>1, <1>2, <1>3, <1>4 DEF InStep
<1>6. BundlesHarmless
  BY <1>3, EmptySeq DEF BundlesHarmless
<1> QED
  BY <1>5, <1>6 DEF Follows

\* A step that leaves both replicas and the queues alone keeps them in step.
LEMMA InStepUnchanged ==
  ASSUME InStep, (Staged.graph)' = Staged.graph, refused => refused',
         UNCHANGED <<procAt, pending, topoRing, pushing, published, mirror, typed>>
  PROVE  InStep'
  BY Zenon DEF InStep

\* What the audio thread replays from stays what it was while it is idle.
LEMMA IdleStaged ==
  ASSUME RTUnchanged
  PROVE  (Staged.graph)' = Staged.graph /\ UNCHANGED <<refused, procAt, pending>>
  BY DEF RTUnchanged, sideVars, nodeVars, Staged, Inactive

\* A command edits the conductor's replica and sends the same edit on its way.
LEMMA CommandInStep ==
  ASSUME Inv, InStep, pushing = NoMutation, RTUnchanged, UNCHANGED <<topoRing, published>>,
         pushing' \in Mutation,
         Replica(mirror', typed' \cap Nodes)
           = Replayed(Replica(mirror, typed \cap Nodes), pushing', published)
  PROVE  InStep'
<1>1. pushing' # NoMutation
  BY NoMutationAssumption
<1>2. (Staged.graph)' = Staged.graph /\ UNCHANGED <<refused, procAt, pending>>
  BY IdleStaged
<1>3. PICK g, g1, o1, t :
        /\ ~refused => g = Staged.graph
        /\ Replays(Replica(g, Occupied(procAt)), pending, Replica(g1, o1), published)
        /\ Replays(Replica(g1, o1), topoRing, t, published)
        /\ Replica(mirror, typed \cap Nodes) = t
  BY DEF InStep
<1>4. /\ ~refused' => g = (Staged.graph)'
      /\ Replays(Replica(g, Occupied(procAt')), pending', Replica(g1, o1), published')
      /\ Replays(Replica(g1, o1), topoRing', t, published')
      /\ Replica(mirror', typed' \cap Nodes) = Replayed(t, pushing', published')
  BY <1>2, <1>3
<1> QED
  BY <1>1, <1>4 DEF InStep

\* Every command of the conductor but a compile, one case per command.
LEMMA CommandFollows ==
  ASSUME Inv, Follows, Conductor, ~ CommitTopology PROVE Follows'
<1> USE DEF Inv, TypeOK
<1>1. RTUnchanged /\ UNCHANGED <<published, topoRing, dropped>>
  BY DEF Conductor, AddNode, SwapProcessor, RemoveNode, UpdateEdge, UpdateOutputEdge, Edge,
    Disconnect, SetBypass, Perform
<1> DEFINE Edits(m) ==
             /\ pushing = NoMutation /\ pushing' = m /\ UNCHANGED bundleRing
             /\ Replica(mirror', typed' \cap Nodes)
                  = Replayed(Replica(mirror, typed \cap Nodes), m, published)
           Sends(bundle) == SendBundle(bundle) /\ UNCHANGED <<pushing, mirror, typed>>
<1>2. ASSUME NEW m \in Mutation, Edits(m) PROVE Follows'
  <2>1. ~dropped' => InStep'
    BY <1>1, <1>2, CommandInStep DEF Follows
  <2> QED
    BY <1>2, <2>1 DEF Follows, BundlesHarmless
<1> HIDE DEF Edits
<1>3. ASSUME NEW bundle \in Bundle, Sends(bundle),
             \A j \in 1 .. Len(bundle) : Harmless(bundle[j])
      PROVE  Follows'
  <2>1. BundlesHarmless'
    <3>1. CASE bundleRing' = bundleRing
      BY <3>1 DEF Follows, BundlesHarmless
    <3>2. CASE bundleRing' = Append(bundleRing, bundle)
      <4>1. /\ Len(bundleRing) \in Nat /\ Len(bundleRing') = Len(bundleRing) + 1
            /\ \A i \in 1 .. Len(bundleRing) : bundleRing'[i] = bundleRing[i]
            /\ bundleRing'[Len(bundleRing) + 1] = bundle
        BY <3>2, AppendFacts DEF QueueType
      <4>2. \A i \in 1 .. Len(bundleRing') : i \in 1 .. Len(bundleRing) \/ i = Len(bundleRing) + 1
        BY <4>1
      <4> QED
        BY <1>3, <4>1, <4>2 DEF Follows, BundlesHarmless
    <3> QED
      BY <1>3, <3>1, <3>2 DEF SendBundle
  <2>2. ~dropped' => InStep'
    BY <1>1, <1>3, IdleStaged, InStepUnchanged DEF Follows
  <2> QED
    BY <2>1, <2>2 DEF Follows
<1> HIDE DEF Sends
<1>4. ASSUME NEW n \in Targets, AddNode(n) \/ SwapProcessor(n) PROVE Follows'
  <2>1. PICK p \in Procs, op \in {"AddNode", "SwapProcessor"} :
          /\ pushing' = [op |-> op, node |-> n, proc |-> p]
          /\ mirror' = IF op = "AddNode" /\ n \in Nodes THEN AddNodeTo(mirror, n) ELSE mirror
    BY <1>4 DEF AddNode, SwapProcessor
  <2>2. typed' = typed \cup {n} /\ pushing = NoMutation /\ UNCHANGED bundleRing
    BY <1>4 DEF AddNode, SwapProcessor, Accept
  <2>3. typed' \cap Nodes = (typed \cap Nodes) \cup ({n} \cap Nodes)
    BY <2>2
  <2>4. Edits(pushing')
    BY <2>1, <2>2, <2>3 DEF Edits, Replayed, Replica, GraphBy, OccBy
  <2>5. pushing' \in Mutation
    BY <2>1 DEF Mutation, AddMutation
  <2> QED
    BY <1>2, <2>4, <2>5
<1>5. ASSUME NEW n \in Nodes, RemoveNode(n) PROVE Follows'
  <2>1. /\ typed' = typed \ {n} /\ mirror' = RemoveNodeFrom(mirror, n, typed')
        /\ pushing' = [op |-> "RemoveNode", node |-> n]
        /\ pushing = NoMutation /\ UNCHANGED bundleRing
    BY <1>5 DEF RemoveNode, Accept
  <2>2. typed' \cap Nodes = (typed \cap Nodes) \ {n}
    BY <2>1
  <2>3. mirror' = RemoveNodeFrom(mirror, n, typed' \cap Nodes)
    <3>1. mirror \in Graph /\ typed' \in SUBSET Targets
      BY <2>1 DEF MirrorType
    <3> QED
      BY <2>1, <3>1, RemovalLocal
  <2>4. Edits(pushing')
    BY <2>1, <2>2, <2>3 DEF Edits, Replayed, Replica, GraphBy, OccBy
  <2>5. pushing' \in Mutation
    BY <2>1 DEF Mutation, NodeMutation
  <2> QED
    BY <1>2, <2>4, <2>5
<1>6. ASSUME NEW n \in Targets, NEW c \in Channels, NEW b \in BufferArgs,
             UpdateEdge(n, c, b) \/ UpdateOutputEdge(n, c, b)
      PROVE  Follows'
  <2>1. PICK m \in EdgeMutation :
          /\ m = [op |-> "UpdateEdge", node |-> n, slot |-> c, buffer |-> b]
               \/ m = [op |-> "UpdateOutputEdge", node |-> n, slot |-> c, buffer |-> b]
          /\ m.op = "UpdateEdge" <=> UpdateEdge(n, c, b)
    <3>1. CASE UpdateEdge(n, c, b)
      <4>1. [op |-> "UpdateEdge", node |-> n, slot |-> c, buffer |-> b] \in EdgeMutation
        BY DEF EdgeMutation
      <4> QED
        BY <3>1, <4>1
    <3>2. CASE ~ UpdateEdge(n, c, b)
      <4>1. [op |-> "UpdateOutputEdge", node |-> n, slot |-> c, buffer |-> b] \in EdgeMutation
        BY DEF EdgeMutation
      <4> QED
        BY <3>2, <4>1
    <3> QED
      BY <3>1, <3>2
  <2>2. m \in Mutation /\ m \in BundleCommand /\ m.node = n /\ m.slot = c /\ m.buffer = b
    BY <2>1 DEF Mutation, BundleCommand
  <2>3. CASE b \notin Buffers
    <3>1. Sends(<<m>>)
      BY <1>6, <2>1, <2>3 DEF UpdateEdge, UpdateOutputEdge, Edge, Sends
    <3>2. <<m>> \in Bundle /\ \A j \in 1 .. Len(<<m>>) : <<m>>[j] = m
      BY <2>2, OneIsBundle
    <3> QED
      BY <1>3, <2>2, <2>3, <3>1, <3>2 DEF Harmless
  <2>4. CASE b \in Buffers
    <3>1. /\ pushing = NoMutation /\ pushing' = m /\ UNCHANGED <<bundleRing, typed>>
          /\ m.op = "UpdateEdge" =>
               mirror' = IF n \in Nodes THEN SetInput(mirror, n, c, b) ELSE mirror
          /\ m.op = "UpdateOutputEdge" =>
               mirror' = IF n \in Nodes THEN SetOutput(mirror, n, c, b) ELSE mirror
      BY <1>6, <2>1, <2>4 DEF UpdateEdge, UpdateOutputEdge, Edge, Accept
    <3>2. OccBy(typed \cap Nodes, m) = typed \cap Nodes
      BY <2>1 DEF OccBy
    <3>3. GraphBy(mirror, typed \cap Nodes, m, published) = mirror'
      <4>1. CASE m.op = "UpdateEdge"
        BY <2>2, <2>4, <3>1, <4>1 DEF GraphBy
      <4>2. CASE m.op = "UpdateOutputEdge"
        BY <2>2, <2>4, <3>1, <4>2 DEF GraphBy
      <4> QED
        BY <2>1, <4>1, <4>2
    <3>4. Edits(m)
      BY <3>1, <3>2, <3>3 DEF Edits, Replayed, Replica
    <3> QED
      BY <1>2, <2>2, <3>4
  <2> QED
    BY <2>3, <2>4
<1>7. ASSUME NEW n \in Targets, NEW c \in Channels, Disconnect(n, c) PROVE Follows'
  <2>1. /\ pushing' = [op |-> "Disconnect", node |-> n, slot |-> c]
        /\ pushing = NoMutation /\ UNCHANGED <<typed, bundleRing>>
        /\ mirror' = IF n \in Nodes THEN DropInput(mirror, n, c) ELSE mirror
    BY <1>7 DEF Disconnect, Accept
  <2>2. Edits(pushing')
    BY <2>1 DEF Edits, Replayed, Replica, GraphBy, OccBy
  <2>3. pushing' \in Mutation
    BY <2>1 DEF Mutation, DropMutation
  <2> QED
    BY <1>2, <2>2, <2>3
<1>8. ASSUME NEW n \in Targets, NEW flag \in BOOLEAN, SetBypass(n, flag) PROVE Follows'
  <2>1. /\ pushing' = [op |-> "SetBypass", node |-> n, enabled |-> flag]
        /\ pushing = NoMutation /\ UNCHANGED <<typed, mirror, bundleRing>>
    BY <1>8 DEF SetBypass, Accept
  <2>2. Edits(pushing')
    BY <2>1 DEF Edits, Replayed, Replica, GraphBy, OccBy
  <2>3. pushing' \in Mutation
    BY <2>1 DEF Mutation, BypassMutation
  <2> QED
    BY <1>2, <2>2, <2>3
<1>9. ASSUME NEW op \in {"PlayNode", "AddSource"}, NEW n \in Nodes,
             NEW times \in 1 .. MaxBundle, Perform(op, n, times)
      PROVE  Follows'
  <2> DEFINE cmd == [op |-> op, node |-> n]
             bundle == [i \in 1 .. times |-> cmd]
  <2>1. Sends(bundle)
    BY <1>9 DEF Perform, Sends
  <2>2. cmd \in BundleCommand /\ Harmless(cmd)
    BY DEF BundleCommand, Harmless
  <2> HIDE DEF cmd
  <2>3. bundle \in Bundle
    BY <2>2, ManyIsBundle
  <2>4. times \in Nat
    BY PipelineAssumption
  <2>5. \A j \in 1 .. Len(bundle) : bundle[j] = cmd
    BY <2>4, LenProperties
  <2> HIDE DEF bundle
  <2> QED
    BY <1>3, <2>1, <2>2, <2>3, <2>5
<1> QED
  BY <1>4, <1>5, <1>6, <1>7, <1>8, <1>9, WireTypes DEF Conductor

\* A compile publishes the mirror and sends it to the audio thread whole.
LEMMA CommitTopologyFollows ==
  ASSUME Inv, Follows, CommitTopology PROVE Follows'
<1> DEFINE e == [graph |-> mirror, bypass |-> mirrorBypass, stages |-> Stages, typed |-> typed]
           log == Append(published, e)
<1>1. /\ RTUnchanged /\ pushing = NoMutation /\ published' = log
      /\ UNCHANGED <<mirror, typed, topoRing, bundleRing, dropped>>
      /\ pushing' = [op |-> "SetTopology", topo |-> Len(published')]
  BY DEF CommitTopology, Accept
<1>2. published \in Seq(Topology) /\ e \in Topology
  BY DEF Inv, TypeOK, MirrorType, Topology, Stages
<1> HIDE DEF e
<1>3. Len(log) = Len(published) + 1 /\ log[Len(log)] = e /\ Len(log) \in Nat \ {0}
  BY <1>2, AppendFacts
<1> HIDE DEF log
<1>4. pushing' # NoMutation
  <2>1. pushing' \in Mutation
    BY <1>1, <1>3 DEF Mutation, SetMutation
  <2> QED
    BY <2>1, NoMutationAssumption
<1>5. (Staged.graph)' = Staged.graph /\ UNCHANGED <<refused, procAt, pending>>
  BY <1>1, IdleStaged
<1>6. ASSUME InStep PROVE InStep'
  <2>1. PICK g, g1, o1, t :
          /\ ~refused => g = Staged.graph
          /\ Replays(Replica(g, Occupied(procAt)), pending, Replica(g1, o1), published)
          /\ Replays(Replica(g1, o1), topoRing, t, published)
          /\ Replica(mirror, typed \cap Nodes) = t
    BY <1>1, <1>6 DEF InStep
  <2>2. /\ \A i \in 1 .. Len(pending) : Known(pending[i], Len(published))
        /\ \A i \in 1 .. Len(topoRing) : Known(topoRing[i], Len(published))
    BY DEF Inv, QueuedKnown
  <2>3. /\ Replays(Replica(g, Occupied(procAt)), pending, Replica(g1, o1), log)
        /\ Replays(Replica(g1, o1), topoRing, t, log)
    BY <1>2, <2>1, <2>2, ReplaysGrows DEF log
  <2>4. Replayed(t, pushing', log) = t
    <3>1. log[Len(log)].graph = mirror
      BY <1>3 DEF e
    <3> QED
      BY <1>1, <2>1, <3>1 DEF Replayed, Replica, GraphBy, OccBy
  <2>5. /\ ~refused' => g = (Staged.graph)'
        /\ Replays(Replica(g, Occupied(procAt')), pending', Replica(g1, o1), published')
        /\ Replays(Replica(g1, o1), topoRing', t, published')
        /\ Replica(mirror', typed' \cap Nodes) = Replayed(t, pushing', published')
    BY <1>1, <1>5, <2>1, <2>3, <2>4
  <2> QED
    BY <1>4, <2>5 DEF InStep
<1> QED
  BY <1>1, <1>6 DEF Follows, BundlesHarmless

\* Pushing moves the last edit behind the ones in the ring.
LEMMA PushFollows ==
  ASSUME Inv, Follows, Push PROVE Follows'
<1>1. /\ pushing # NoMutation /\ pushing' = NoMutation
      /\ topoRing' = Append(topoRing, pushing) /\ RTUnchanged
      /\ UNCHANGED <<mirror, typed, published, bundleRing, dropped>>
  BY DEF Push, conductorVars
<1>2. (Staged.graph)' = Staged.graph /\ UNCHANGED <<refused, procAt, pending>>
  BY <1>1, IdleStaged
<1>3. topoRing \in Seq(Mutation) /\ pushing \in Mutation
  BY <1>1 DEF Inv, TypeOK, QueueType
<1>4. ASSUME InStep PROVE InStep'
  <2>1. PICK g, g1, o1, t :
          /\ ~refused => g = Staged.graph
          /\ Replays(Replica(g, Occupied(procAt)), pending, Replica(g1, o1), published)
          /\ Replays(Replica(g1, o1), topoRing, t, published)
          /\ Replica(mirror, typed \cap Nodes) = Replayed(t, pushing, published)
    BY <1>1, <1>4 DEF InStep
  <2> DEFINE u == Replayed(t, pushing, published)
  <2>2. Replays(Replica(g1, o1), topoRing', u, published)
    BY <1>1, <1>3, <2>1, ReplaysAppend
  <2> HIDE DEF u
  <2>3. /\ ~refused' => g = (Staged.graph)'
        /\ Replays(Replica(g, Occupied(procAt')), pending', Replica(g1, o1), published')
        /\ Replays(Replica(g1, o1), topoRing', u, published')
        /\ Replica(mirror', typed' \cap Nodes) = u
    BY <1>1, <1>2, <2>1, <2>2 DEF u
  <2> QED
    BY <1>1, <2>3 DEF InStep
<1> QED
  BY <1>1, <1>4 DEF Follows, BundlesHarmless

\* Draining a mutation moves it behind the pending ones, or drops it.
LEMMA PopTopologyFollows ==
  ASSUME Inv, Follows, PopTopology PROVE Follows'
<1> DEFINE m == Head(topoRing)
<1>1. /\ topoRing # <<>> /\ topoRing' = Tail(topoRing) /\ Enqueue(m)
      /\ UNCHANGED <<sideVars, procAt, mirror, typed, published, pushing, bundleRing>>
  BY DEF PopTopology, TakesOne, conductorVars, nodeVars
<1>2. (Staged.graph)' = Staged.graph /\ UNCHANGED refused
  BY <1>1 DEF sideVars, Staged, Inactive
<1>3. topoRing \in Seq(Mutation) /\ pending \in Seq(Mutation) /\ m \in Mutation
  BY <1>1, TailFacts DEF Inv, TypeOK, QueueType
<1>4. dropped' \/ (~dropped' /\ ~dropped /\ pending' = Append(pending, m))
  BY <1>1 DEF Enqueue, Inv, TypeOK, QueueType
<1>5. ASSUME InStep, pending' = Append(pending, m) PROVE InStep'
  <2>1. PICK g, g1, o1, t :
          /\ ~refused => g = Staged.graph
          /\ Replays(Replica(g, Occupied(procAt)), pending, Replica(g1, o1), published)
          /\ Replays(Replica(g1, o1), topoRing, t, published)
          /\ Replica(mirror, typed \cap Nodes)
               = IF pushing = NoMutation THEN t ELSE Replayed(t, pushing, published)
    BY <1>5, Zenon DEF InStep
  <2> DEFINE s == Replica(g1, o1)
             g2 == GraphBy(g1, o1, m, published)
             o2 == OccBy(o1, m)
  <2>2. Replayed(s, m, published) = Replica(g2, o2)
    BY DEF Replayed, Replica
  <2> HIDE DEF m, s, g2, o2
  <2>3. Replays(Replica(g, Occupied(procAt)), pending', Replica(g2, o2), published)
    BY <1>3, <1>5, <2>1, <2>2, ReplaysAppend DEF s
  <2>4. Replays(Replica(g2, o2), topoRing', t, published)
    BY <1>1, <1>3, <2>1, <2>2, ReplaysTail DEF s, m
  <2>5. /\ ~refused' => g = (Staged.graph)'
        /\ Replays(Replica(g, Occupied(procAt')), pending', Replica(g2, o2), published')
        /\ Replays(Replica(g2, o2), topoRing', t, published')
        /\ Replica(mirror', typed' \cap Nodes)
             = IF pushing' = NoMutation THEN t ELSE Replayed(t, pushing', published')
    BY <1>1, <1>2, <2>1, <2>3, <2>4
  <2> QED
    BY <2>5, Zenon DEF InStep
<1> QED
  BY <1>1, <1>4, <1>5 DEF Follows, BundlesHarmless

\* A command of a bundle joins the pending ones and edits nothing.
LEMMA PopBundleFollows ==
  ASSUME Inv, Follows, PopBundle PROVE Follows'
<1> DEFINE m == CommandAtHand
<1>1. /\ UNCHANGED <<sideVars, procAt, mirror, typed, published, pushing, topoRing>>
      /\ UNCHANGED <<pending, dropped>> \/ (m.op # "PlayNode" /\ Enqueue(m))
  BY DEF PopBundle, CommandAtHand, conductorVars, nodeVars
<1>2. (Staged.graph)' = Staged.graph /\ UNCHANGED refused
  BY <1>1 DEF sideVars, Staged, Inactive
<1>3. pending \in Seq(Mutation) /\ m \in BundleCommand
  BY CommandTaken DEF Inv, TypeOK, QueueType
<1>4. Harmless(m)
  BY CommandTaken DEF Follows, BundlesHarmless, Inv, TypeOK
<1>5. BundlesHarmless'
  <2> SUFFICES ASSUME NEW i \in 1 .. Len(bundleRing'), NEW j \in 1 .. Len(bundleRing'[i])
               PROVE  Harmless(bundleRing'[i][j])
    BY DEF BundlesHarmless, Harmless
  <2>1. PICK k \in 1 .. Len(bundleRing) : \E l \in 1 .. Len(bundleRing[k]) :
          bundleRing'[i][j] = bundleRing[k][l]
    BY CommandTaken DEF Inv, TypeOK
  <2> QED
    BY <2>1 DEF Follows, BundlesHarmless
<1>6. CASE UNCHANGED <<pending, dropped>>
  <2>1. ~dropped' => InStep'
    BY <1>1, <1>2, <1>6, InStepUnchanged DEF Follows
  <2> QED
    BY <1>5, <2>1 DEF Follows
<1>7. CASE m.op # "PlayNode" /\ Enqueue(m)
  <2>1. dropped' \/ (~dropped' /\ ~dropped /\ pending' = Append(pending, m))
    BY <1>7 DEF Enqueue, Inv, TypeOK, QueueType
  <2>2. /\ m \in Mutation
        /\ m.op = "AddSource" \/ (m.op \in {"UpdateEdge", "UpdateOutputEdge"}
                                    /\ m.buffer \notin Buffers)
    BY <1>3, <1>4, <1>7 DEF BundleCommand, Mutation, NodeMutation, EdgeMutation, Harmless
  <2> HIDE DEF m
  <2>3. \A g, o : Replayed(Replica(g, o), m, published) = Replica(g, o)
    BY <2>2 DEF Replayed, Replica, GraphBy, OccBy
  <2>4. ASSUME InStep, pending' = Append(pending, m) PROVE InStep'
    <3>1. PICK g, g1, o1, t :
            /\ ~refused => g = Staged.graph
            /\ Replays(Replica(g, Occupied(procAt)), pending, Replica(g1, o1), published)
            /\ Replays(Replica(g1, o1), topoRing, t, published)
            /\ Replica(mirror, typed \cap Nodes)
                 = IF pushing = NoMutation THEN t ELSE Replayed(t, pushing, published)
      BY <2>4, Zenon DEF InStep
    <3>2. Replays(Replica(g, Occupied(procAt)), pending',
                  Replayed(Replica(g1, o1), m, published), published)
      BY <1>3, <2>2, <2>4, <3>1, ReplaysAppend
    <3>3. Replays(Replica(g, Occupied(procAt)), pending', Replica(g1, o1), published)
      BY <2>3, <3>2
    <3>4. /\ ~refused' => g = (Staged.graph)'
          /\ Replays(Replica(g, Occupied(procAt')), pending', Replica(g1, o1), published')
          /\ Replays(Replica(g1, o1), topoRing', t, published')
          /\ Replica(mirror', typed' \cap Nodes)
               = IF pushing' = NoMutation THEN t ELSE Replayed(t, pushing', published')
      BY <1>1, <1>2, <3>1, <3>3
    <3> QED
      BY <3>4, Zenon DEF InStep
  <2> QED
    BY <1>5, <2>1, <2>4 DEF Follows
<1> QED
  BY <1>1, <1>6, <1>7

-----------------------------------------------------------------------------
\* Staging a graph makes it the one the next edit starts from.
LEMMA StageGraph ==
  ASSUME SideType, NEW g \in Graph, Stage(g)
  PROVE  (Staged.graph)' = g /\ UNCHANGED refused
<1>1. Inactive \in {0, 1} /\ Staged \in Side
  BY StagedIsSide
<1>2. /\ sides' = [sides EXCEPT ![Inactive] = [Staged EXCEPT !.graph = g]]
      /\ needsCommit' = TRUE /\ UNCHANGED <<active, refused>>
  BY DEF Stage
<1>3. sides'[Inactive] = [Staged EXCEPT !.graph = g] /\ Inactive' = Inactive
  BY <1>1, <1>2 DEF SideType, Inactive
<1>4. [Staged EXCEPT !.graph = g] \in Side /\ [Staged EXCEPT !.graph = g].graph = g
  BY <1>1 DEF Side
<1>5. (Staged.graph)' = sides'[Inactive'].graph
  BY <1>2, <1>3, <1>4 DEF Staged, Side
<1> QED
  BY <1>2, <1>3, <1>4, <1>5

\* The audio thread's arms make of its replica what the conductor's made of
\* the mirror.
ReplicaFollows(m) ==
    /\ Occupied(procAt') = OccBy(Occupied(procAt), m)
    /\ (Staged.graph)' = GraphBy(Staged.graph, Occupied(procAt), m, published)
    /\ refused' <=> refused /\ m.op # "SetTopology"

\* A step of the audio thread that leaves the wiring of both sides alone.
LEMMA StagedKept ==
  ASSUME TypeOK, UNCHANGED <<active, needsCommit>>,
         \A s \in {0, 1} : sides'[s].graph = sides[s].graph,
         sides' \in [{0, 1} -> Side]
  PROVE  (Staged.graph)' = Staged.graph
<1>1. active \in {0, 1} /\ Inactive \in {0, 1} /\ Inactive' = Inactive
  BY DEF TypeOK, SideType, Inactive
<1>2. \A s \in {0, 1} : sides[s] \in Side /\ sides'[s] \in Side
  BY DEF TypeOK, SideType
<1>3. \A side \in Side : [side EXCEPT !.plan = 0].graph = side.graph
  BY DEF Side
<1>4. Staged.graph = IF needsCommit THEN sides[Inactive].graph ELSE sides[active].graph
  BY <1>1, <1>2, <1>3 DEF Staged
<1>5. (Staged.graph)' = IF needsCommit' THEN sides'[Inactive'].graph ELSE sides'[active'].graph
  BY <1>1, <1>2, <1>3 DEF Staged
<1> QED
  BY <1>1, <1>4, <1>5

\* Installing p at node n occupies n unless p is the dummy.
LEMMA InstallOccupies ==
  ASSUME NodeType, NEW n \in Nodes, NEW p, procAt' = [procAt EXCEPT ![n] = p]
  PROVE  /\ p \in Procs => Occupied(procAt') = Occupied(procAt) \cup {n}
         /\ p = Dummy   => Occupied(procAt') = Occupied(procAt) \ {n}
<1>1. procAt'[n] = p /\ \A k \in Nodes : k # n => procAt'[k] = procAt[k]
  BY DEF NodeType
<1>2. p \in Procs => p # Dummy
  BY PipelineAssumption
<1> QED
  BY <1>1, <1>2 DEF Occupied

\* One case per arm of the match over the pending mutations.
LEMMA ApplyReplica ==
  ASSUME Inv, ApplyOne PROVE ReplicaFollows(Head(pending))
<1> USE DEF Inv, TypeOK
<1> DEFINE m == Head(pending)
<1>1. m \in Mutation /\ m = pending[1] /\ Len(pending) \in Nat \ {0}
  BY TailFacts DEF ApplyOne, QueueType
<1>2. Known(m, Len(published))
  BY <1>1 DEF QueuedKnown
<1>3. \/ ApplyAddNode(m) \/ ApplySwapProcessor(m) \/ ApplyRemoveNode(m)
      \/ ApplyUpdateEdge(m) \/ ApplyUpdateOutputEdge(m) \/ ApplyDisconnect(m)
      \/ ApplySetBypass(m) \/ ApplySetTopology(m) \/ ApplyAddSource(m)
  BY DEF ApplyOne
<1>4. Staged.graph \in Graph /\ active \in {0, 1} /\ Inactive \in {0, 1} /\ Inactive # active
  BY StagedIsSide DEF Side, SideType, Inactive
<1>5. SideType'
  BY ApplyOneInv
<1> SUFFICES ReplicaFollows(m)
  OBVIOUS
<1> HIDE DEF m
<1>6. ASSUME UNCHANGED <<sideVars, procAt>>,
             GraphBy(Staged.graph, Occupied(procAt), m, published) = Staged.graph,
             OccBy(Occupied(procAt), m) = Occupied(procAt), m.op # "SetTopology"
      PROVE  ReplicaFollows(m)
  BY <1>6 DEF ReplicaFollows, sideVars, Staged, Inactive
<1>7. ASSUME NEW g \in Graph, Stage(g), m.op # "SetTopology",
             g = GraphBy(Staged.graph, Occupied(procAt), m, published),
             Occupied(procAt') = OccBy(Occupied(procAt), m)
      PROVE  ReplicaFollows(m)
  BY <1>7, StageGraph DEF ReplicaFollows
<1>8. CASE ApplyAddNode(m)
  <2>1. m \in AddMutation /\ m.op = "AddNode"
    BY <1>1, <1>8 DEF ApplyAddNode, Mutation, NodeMutation, EdgeMutation, DropMutation,
      BypassMutation, SetMutation
  <2>2. m.proc \in Procs
    BY <2>1 DEF AddMutation
  <2>3. CASE m.node \notin Nodes
    <3>1. UNCHANGED <<sideVars, procAt>>
      BY <1>8, <2>3 DEF ApplyAddNode, nodeVars
    <3>2. OccBy(Occupied(procAt), m) = Occupied(procAt)
      BY <2>1, <2>3 DEF OccBy
    <3>3. GraphBy(Staged.graph, Occupied(procAt), m, published) = Staged.graph
      BY <2>1, <2>3 DEF GraphBy
    <3> QED
      BY <1>6, <2>1, <3>1, <3>2, <3>3
  <2>4. CASE m.node \in Nodes
    <3>1. AddNodeTo(Staged.graph, m.node) \in Graph
      BY <1>4, <2>4, AddNodeToType
    <3>2. Stage(AddNodeTo(Staged.graph, m.node))
      BY <1>8, <2>4, StagesAddNode
    <3>3. Occupied(procAt') = Occupied(procAt) \cup {m.node}
      BY <1>8, <2>2, <2>4, InstallOccupies DEF ApplyAddNode
    <3>4. Occupied(procAt') = OccBy(Occupied(procAt), m)
      BY <2>1, <2>4, <3>3 DEF OccBy
    <3>5. GraphBy(Staged.graph, Occupied(procAt), m, published)
            = AddNodeTo(Staged.graph, m.node)
      BY <2>1, <2>4 DEF GraphBy
    <3> QED
      BY <1>7, <2>1, <3>1, <3>2, <3>4, <3>5
  <2> QED
    BY <2>3, <2>4
<1>9. CASE ApplySwapProcessor(m)
  <2>1. m \in AddMutation /\ m.op = "SwapProcessor" /\ UNCHANGED sideVars
    BY <1>1, <1>9 DEF ApplySwapProcessor, Mutation, NodeMutation, EdgeMutation, DropMutation,
      BypassMutation, SetMutation
  <2>2. m.proc \in Procs
    BY <2>1 DEF AddMutation
  <2>3. Occupied(procAt') = OccBy(Occupied(procAt), m)
    <3>1. CASE m.node \notin Nodes
      BY <1>9, <2>1, <3>1 DEF ApplySwapProcessor, OccBy
    <3>2. CASE m.node \in Nodes
      <4>1. Occupied(procAt') = Occupied(procAt) \cup {m.node}
        BY <1>9, <2>2, <3>2, InstallOccupies DEF ApplySwapProcessor
      <4> QED
        BY <2>1, <3>2, <4>1 DEF OccBy
    <3> QED
      BY <3>1, <3>2
  <2>4. (Staged.graph)' = Staged.graph /\ UNCHANGED refused
    BY <2>1 DEF sideVars, Staged, Inactive
  <2> QED
    BY <2>1, <2>3, <2>4 DEF ReplicaFollows, GraphBy
<1>10. CASE ApplyRemoveNode(m)
  <2>1. /\ m.op = "RemoveNode" /\ procAt' = [procAt EXCEPT ![m.node] = Dummy]
        /\ UNCHANGED <<active, refused>> /\ needsCommit' = TRUE
    BY <1>10 DEF ApplyRemoveNode
  <2>2. /\ m.node \in Nodes
        /\ sides'[Inactive].graph = RemoveNodeFrom(Staged.graph, m.node, Occupied(procAt'))
    BY <1>1, <1>10, ApplyRemoveNodeSides
  <2>3. Occupied(procAt') = OccBy(Occupied(procAt), m)
    <3>1. Occupied(procAt') = Occupied(procAt) \ {m.node}
      BY <2>1, <2>2, InstallOccupies
    <3> QED
      BY <2>1, <3>1 DEF OccBy
  <2>4. (Staged.graph)' = sides'[Inactive].graph
    <3>1. sides'[Inactive] \in Side /\ Inactive' = Inactive
      BY <1>4, <1>5, <2>1 DEF SideType, Inactive
    <3> QED
      BY <2>1, <3>1 DEF Staged, Side
  <2>5. GraphBy(Staged.graph, Occupied(procAt), m, published)
          = RemoveNodeFrom(Staged.graph, m.node, Occupied(procAt'))
    BY <2>1, <2>3 DEF GraphBy
  <2> QED
    BY <2>1, <2>2, <2>3, <2>4, <2>5 DEF ReplicaFollows
<1>11. CASE ApplyUpdateEdge(m) \/ ApplyUpdateOutputEdge(m) \/ ApplyDisconnect(m)
  <2>1. /\ m.op \in {"UpdateEdge", "UpdateOutputEdge", "Disconnect"} /\ UNCHANGED procAt
        /\ OccBy(Occupied(procAt), m) = Occupied(procAt)
    BY <1>11 DEF ApplyUpdateEdge, ApplyUpdateOutputEdge, ApplyEdge, ApplyDisconnect, nodeVars,
      OccBy
  <2>2. m \in EdgeMutation \cup DropMutation
    BY <1>1, <2>1 DEF Mutation, AddMutation, NodeMutation, BypassMutation, SetMutation
  <2>3. m.slot \in Channels
    BY <2>2 DEF EdgeMutation, DropMutation
  <2> DEFINE g == GraphBy(Staged.graph, Occupied(procAt), m, published)
  <2>4. g \in Graph /\ ((UNCHANGED sideVars /\ g = Staged.graph) \/ Stage(g))
    <3>1. CASE ApplyUpdateEdge(m)
      BY <1>1, <1>4, <2>3, <3>1, StagesEdge, SetInputType DEF GraphBy
    <3>2. CASE ApplyUpdateOutputEdge(m)
      BY <1>1, <1>4, <2>3, <3>2, StagesOutputEdge, SetOutputType DEF GraphBy
    <3>3. CASE ApplyDisconnect(m)
      BY <1>1, <1>4, <2>3, <3>3, StagesDisconnect, DropInputType DEF GraphBy
    <3> QED
      BY <1>11, <3>1, <3>2, <3>3
  <2> HIDE DEF g
  <2>5. CASE UNCHANGED sideVars /\ g = Staged.graph
    BY <1>6, <2>1, <2>5 DEF g
  <2>6. CASE Stage(g)
    BY <1>7, <2>1, <2>4, <2>6 DEF g
  <2> QED
    BY <2>4, <2>5, <2>6
<1>12. CASE ApplySetBypass(m)
  <2>1. m.op = "SetBypass" /\ UNCHANGED <<procAt, refused, active, needsCommit>>
    BY <1>12 DEF ApplySetBypass, nodeVars
  <2>2. (Staged.graph)' = Staged.graph
    BY <1>1, <1>5, <1>12, <2>1, ApplySetBypassType, StagedKept DEF SideType
  <2> QED
    BY <2>1, <2>2 DEF ReplicaFollows, GraphBy, OccBy
<1>13. CASE ApplySetTopology(m)
  <2>1. /\ m.op = "SetTopology" /\ UNCHANGED <<procAt, active>>
        /\ needsCommit' = TRUE /\ refused' = FALSE
    BY <1>13 DEF ApplySetTopology, nodeVars
  <2>2. sides'[Inactive].graph = published[m.topo].graph
    BY <1>1, <1>2, <1>13, ApplySetTopologyType
  <2>3. (Staged.graph)' = sides'[Inactive].graph
    <3>1. sides'[Inactive] \in Side /\ Inactive' = Inactive
      BY <1>4, <1>5, <2>1 DEF SideType, Inactive
    <3> QED
      BY <2>1, <3>1 DEF Staged, Side
  <2> QED
    BY <2>1, <2>2, <2>3 DEF ReplicaFollows, GraphBy, OccBy
<1>14. CASE ApplyAddSource(m)
  <2>1. m.op = "AddSource" /\ UNCHANGED <<sideVars, procAt>>
    BY <1>14 DEF ApplyAddSource, nodeVars
  <2>2. OccBy(Occupied(procAt), m) = Occupied(procAt)
    BY <2>1 DEF OccBy
  <2>3. GraphBy(Staged.graph, Occupied(procAt), m, published) = Staged.graph
    BY <2>1 DEF GraphBy
  <2> QED
    BY <1>6, <2>1, <2>2, <2>3
<1> QED
  BY <1>3, <1>8, <1>9, <1>10, <1>11, <1>12, <1>13, <1>14

\* Applying the first pending mutation takes one step along the way.
LEMMA ApplyOneFollows ==
  ASSUME Inv, Follows, ApplyOne PROVE Follows'
<1> DEFINE m == Head(pending)
<1>1. /\ pending # <<>> /\ pending' = Tail(pending)
      /\ UNCHANGED <<mirror, typed, published, pushing, topoRing, bundleRing, dropped>>
  BY DEF ApplyOne, conductorVars, queueVars
<1>2. pending \in Seq(Mutation)
  BY DEF Inv, TypeOK, QueueType
<1>3. ReplicaFollows(m) /\ refused \in BOOLEAN
  BY ApplyReplica DEF Inv, TypeOK, SideType
<1>4. m.op = "SetTopology" =>
        \A g, o : GraphBy(g, o, m, published) = published[m.topo].graph
  BY DEF GraphBy
<1> HIDE DEF m
<1>5. ASSUME InStep PROVE InStep'
  <2>1. PICK g, g1, o1, t :
          /\ ~refused => g = Staged.graph
          /\ Replays(Replica(g, Occupied(procAt)), pending, Replica(g1, o1), published)
          /\ Replays(Replica(g1, o1), topoRing, t, published)
          /\ Replica(mirror, typed \cap Nodes)
               = IF pushing = NoMutation THEN t ELSE Replayed(t, pushing, published)
    BY <1>5, Zenon DEF InStep
  <2> DEFINE f == GraphBy(g, Occupied(procAt), m, published)
  <2>2. Replayed(Replica(g, Occupied(procAt)), m, published)
          = Replica(f, Occupied(procAt'))
    BY <1>3 DEF Replayed, Replica, ReplicaFollows
  <2>3. ~refused' => f = (Staged.graph)'
    <3>1. CASE m.op = "SetTopology"
      BY <1>3, <1>4, <3>1 DEF ReplicaFollows
    <3>2. CASE m.op # "SetTopology"
      <4>1. ~refused' => g = Staged.graph
        BY <1>3, <2>1, <3>2 DEF ReplicaFollows
      <4> QED
        BY <1>3, <4>1 DEF ReplicaFollows
    <3> QED
      BY <3>1, <3>2
  <2> HIDE DEF f
  <2>4. Replays(Replica(f, Occupied(procAt')), pending', Replica(g1, o1), published)
    BY <1>1, <1>2, <2>1, <2>2, ReplaysTail DEF m
  <2>5. /\ Replays(Replica(f, Occupied(procAt')), pending', Replica(g1, o1), published')
        /\ Replays(Replica(g1, o1), topoRing', t, published')
        /\ Replica(mirror', typed' \cap Nodes)
             = IF pushing' = NoMutation THEN t ELSE Replayed(t, pushing', published')
    BY <1>1, <2>1, <2>4
  <2> QED
    BY <2>3, <2>5, Zenon DEF InStep
<1> QED
  BY <1>1, <1>5 DEF Follows, BundlesHarmless

\* The commit plays what was staged, or gives up on it and says so.
LEMMA CommitFollows ==
  ASSUME Inv, Follows, NothingToCommit \/ RefuseCommit \/ SwapSides PROVE Follows'
<1>1. UNCHANGED <<sides, procAt, pending, topoRing, pushing, published, mirror, typed,
                  bundleRing, dropped>>
  BY DEF NothingToCommit, RefuseCommit, SwapSides, CommitUnchanged, conductorVars, queueVars,
    nodeVars
<1>2. CASE NothingToCommit
  <2>1. (Staged.graph)' = Staged.graph /\ UNCHANGED refused
    BY <1>1, <1>2 DEF NothingToCommit, Staged, Inactive
  <2>2. ~dropped' => InStep'
    BY <1>1, <2>1, InStepUnchanged DEF Follows
  <2> QED
    BY <1>1, <2>2 DEF Follows, BundlesHarmless
<1>3. CASE SwapSides
  <2>1. /\ needsCommit /\ active' = Inactive /\ needsCommit' = FALSE /\ UNCHANGED refused
    BY <1>3 DEF SwapSides
  <2>2. (Staged.graph)' = Staged.graph
    BY <1>1, <2>1 DEF Staged
  <2>3. ~dropped' => InStep'
    BY <1>1, <2>1, <2>2, InStepUnchanged DEF Follows
  <2> QED
    BY <1>1, <2>3 DEF Follows, BundlesHarmless
<1>4. CASE RefuseCommit
  <2>1. refused' = TRUE
    BY <1>4 DEF RefuseCommit
  <2>2. ASSUME InStep PROVE InStep'
    <3>1. PICK g, g1, o1, t :
            /\ Replays(Replica(g, Occupied(procAt)), pending, Replica(g1, o1), published)
            /\ Replays(Replica(g1, o1), topoRing, t, published)
            /\ Replica(mirror, typed \cap Nodes)
                 = IF pushing = NoMutation THEN t ELSE Replayed(t, pushing, published)
      BY <2>2, Zenon DEF InStep
    <3>2. /\ Replays(Replica(g, Occupied(procAt')), pending', Replica(g1, o1), published')
          /\ Replays(Replica(g1, o1), topoRing', t, published')
          /\ Replica(mirror', typed' \cap Nodes)
               = IF pushing' = NoMutation THEN t ELSE Replayed(t, pushing', published')
      BY <1>1, <3>1
    <3> QED
      BY <2>1, <3>2, Zenon DEF InStep
  <2> QED
    BY <1>1, <2>2 DEF Follows, BundlesHarmless
<1> QED
  BY <1>2, <1>3, <1>4

\* Every step keeps the replicas in step, one case per action.
LEMMA NextFollows ==
  ASSUME Inv, Follows, [Next]_vars PROVE Follows'
<1>1. CASE Conductor
  BY <1>1, CommandFollows, CommitTopologyFollows
<1>2. CASE Push
  BY <1>2, PushFollows
<1>3. CASE GiveUp
  BY <1>3 DEF GiveUp, Follows, BundlesHarmless
<1>4. CASE PopTopology \/ PopBundle
  BY <1>4, PopTopologyFollows, PopBundleFollows
<1>5. CASE NothingToCommit \/ RefuseCommit \/ SwapSides
  BY <1>5, CommitFollows
<1>6. CASE ApplyOne
  BY <1>6, ApplyOneFollows
<1>7. CASE EndDrain \/ EndApply \/ EndAsync \/ Render \/ DrainGarbage \/ UNCHANGED vars
  <2>1. UNCHANGED <<sideVars, procAt, pending, topoRing, pushing, published, mirror, typed,
                    bundleRing, dropped>>
    BY <1>7 DEF EndDrain, EndApply, EndAsync, Render, DrainGarbage, vars, conductorVars,
      queueVars, nodeVars
  <2>2. (Staged.graph)' = Staged.graph /\ UNCHANGED refused
    BY <2>1 DEF sideVars, Staged, Inactive
  <2>3. ~dropped' => InStep'
    BY <2>1, <2>2, InStepUnchanged DEF Follows
  <2> QED
    BY <2>1, <2>3 DEF Follows, BundlesHarmless
<1> QED
  BY <1>1, <1>2, <1>3, <1>4, <1>5, <1>6, <1>7 DEF Next, AudioThread

LEMMA FollowsHolds == Spec => [](Inv /\ Follows)
<1>1. Init => Inv /\ Follows
  BY InitInv, InitFollows
<1>2. Inv /\ Follows /\ [Next]_vars => (Inv /\ Follows)'
  BY NextInv, NextFollows
<1> QED
  BY <1>1, <1>2, PTL DEF Spec

\* Nothing is on its way from the conductor to the audio thread, and nothing
\* was lost on the way.
Delivered == pushing = NoMutation /\ topoRing = <<>> /\ pending = <<>> /\ ~dropped

\* Once everything is applied, the replicas are the same.
LEMMA DeliveredAgrees ==
  ASSUME Inv, Follows, Delivered
  PROVE  Occupied(procAt) = typed \cap Nodes /\ (~refused => Staged.graph = mirror)
<1>1. PICK g, g1, o1, t :
        /\ ~refused => g = Staged.graph
        /\ Replays(Replica(g, Occupied(procAt)), <<>>, Replica(g1, o1), published)
        /\ Replays(Replica(g1, o1), <<>>, t, published)
        /\ Replica(mirror, typed \cap Nodes) = t
  BY DEF Delivered, Follows, InStep
<1>2. Replica(g, Occupied(procAt)) = Replica(mirror, typed \cap Nodes)
  BY <1>1, ReplaysNothing
<1> QED
  BY <1>1, <1>2 DEF Replica

\* The two hand-written copies of the mutation arms, the conductor's and the
\* audio thread's, build the same graph: when everything pushed was applied
\* and is staged, the staged side is the conductor's mirror, unless a commit
\* was refused in between, which discards what was staged.
THEOREM ReplicasStayInStep == Spec => []ReplicasAgree
<1>1. Inv /\ Follows => ReplicasAgree
  <2> SUFFICES ASSUME Inv, Follows, Delivered, needsCommit, ~refused
               PROVE  sides[Inactive].graph = mirror
    BY DEF ReplicasAgree, Delivered
  <2>1. Staged.graph = mirror
    BY DeliveredAgrees
  <2>2. sides[Inactive] \in Side
    BY DEF Inv, TypeOK, SideType, Inactive
  <2> QED
    BY <2>1, <2>2 DEF Staged, Side
<1> QED
  BY <1>1, FollowsHolds, PTL

\* Once everything pushed was applied and nothing was dropped, a processor is
\* installed at exactly the nodes the conductor holds a type for, refused
\* commits or not: the node array takes part in no commit.
THEOREM NodesMatchTypes == Spec => [](Delivered => Occupied(procAt) = typed \cap Nodes)
<1>1. Inv /\ Follows => (Delivered => Occupied(procAt) = typed \cap Nodes)
  BY DeliveredAgrees
<1> QED
  BY <1>1, FollowsHolds, PTL

=============================================================================
