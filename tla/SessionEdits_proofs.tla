-------------------------- MODULE SessionEdits_proofs --------------------------
(***************************************************************************)
(* A session stays whole through any sequence of edits, for any number of  *)
(* node slots, buffers and channels: no strip is silent, nothing leaks, no *)
(* buffer has two writers, the master chain holds, and the commands of an  *)
(* edit lead to the graph they were computed for.                          *)
(*                                                                         *)
(* The argument has four parts.                                            *)
(*                                                                         *)
(* A reconciliation is a loop over the slots, each slot a loop over its    *)
(* edges.  It leaves every slot wired as wanted, but for the buffers of    *)
(* the nodes it removed, which RemoveNode takes from the nodes that stay   *)
(* ("Near" below).  Where no node that stays uses a buffer of one that     *)
(* goes, the graph is exactly the target.                                  *)
(*                                                                         *)
(* The invariant has two halves.  NodesApart and StripsApart hold whatever *)
(* the limiter switch has removed; Whole holds as long as it removed       *)
(* nothing but the limiter.  The first half is what makes fresh slots and  *)
(* buffers fresh; the second counts what a session uses.                   *)
(*                                                                         *)
(* Each edit is first described by what it asks for (StripPlaced,          *)
(* StripWithout, LimiterPlaced, LimiterRemoved), then by what it leaves    *)
(* (the same, or StripGone and LimiterGone), and then shown to keep both   *)
(* halves.                                                                 *)
(*                                                                         *)
(* The theorems at the end read the properties off the invariant.          *)
(***************************************************************************)
EXTENDS SessionEdits, FiniteSetTheorems, SequenceTheorems, WellFoundedInduction, TLAPS

-----------------------------------------------------------------------------
(***************************************************************************)
(* Every edit of a graph yields a graph: the wiring stays within the node, *)
(* channel and buffer ranges, and the node count within the node array.    *)
(***************************************************************************)

\* A graph without nodes is a graph.
LEMMA EmptyGraphType == EmptyGraph \in Graph
<1>1. Unrouted \in Routing
  BY SizeAssumption DEF Unrouted, Routing, NoBuffer, Channels, Buffers
<1> QED
  BY <1>1, SizeAssumption DEF EmptyGraph, Graph, Nodes

\* The new count of a removal never exceeds the old one.
LEMMA CountOfBound ==
  ASSUME NEW occupied, NEW count \in Nat, occupied \subseteq Nat
  PROVE  CountOf(occupied, count) \in 0 .. count
<1> DEFINE last == {i \in occupied : /\ i < count
                                     /\ \A j \in occupied : j < count => j <= i}
           top == CHOOSE i \in last : TRUE
<1>1. CASE last = {}
  BY <1>1 DEF CountOf
<1>2. CASE last # {}
  <2>1. top \in last
    BY <1>2
  <2>2. CountOf(occupied, count) = top + 1
    BY <1>2, Zenon DEF CountOf
  <2>3. top \in Nat /\ top < count
    BY <2>1
  <2> HIDE DEF top
  <2> QED
    BY <2>2, <2>3
<1> QED
  BY <1>1, <1>2

\* Rewiring one node well keeps the graph well formed.
LEMMA RewiredType ==
  ASSUME NEW g \in Graph, NEW n \in Nodes, NEW r \in Routing
  PROVE  Rewired(g, n, r) \in Graph
  BY DEF Rewired, Graph

\* AddNode keeps the graph well formed.
LEMMA AddNodeToType ==
  ASSUME NEW g \in Graph, NEW n \in Nodes
  PROVE  AddNodeTo(g, n) \in Graph
<1> DEFINE r == g.routing[n]
           q == [in |-> r.in, nin |-> 0, out |-> r.out, nout |-> 0]
<1>1. q \in Routing
  BY SizeAssumption DEF Graph, Routing
<1>2. AtLeast(g.count, n + 1) \in 0 .. MaxNodes
  BY SizeAssumption DEF Graph, Nodes, AtLeast
<1>3. [g.routing EXCEPT ![n] = q] \in [Nodes -> Routing]
  BY <1>1 DEF Graph
<1> QED
  BY <1>2, <1>3 DEF AddNodeTo, Graph

\* UpdateEdge keeps the graph well formed.
LEMMA SetInputType ==
  ASSUME NEW g \in Graph, NEW n \in Nodes, NEW c \in Channels, NEW b \in Buffers
  PROVE  SetInput(g, n, c, b) \in Graph
<1> DEFINE r == g.routing[n]
<1>1. r \in Routing
  BY DEF Graph
<1>2. AtLeast(r.nin, c + 1) \in 0 .. MaxChannels
  BY <1>1, SizeAssumption DEF Routing, Channels, AtLeast
<1>3. [in |-> [r.in EXCEPT ![c] = b], nin |-> AtLeast(r.nin, c + 1),
       out |-> r.out, nout |-> r.nout] \in Routing
  BY <1>1, <1>2 DEF Routing
<1> QED
  BY <1>3, RewiredType DEF SetInput

\* UpdateOutputEdge keeps the graph well formed.
LEMMA SetOutputType ==
  ASSUME NEW g \in Graph, NEW n \in Nodes, NEW c \in Channels, NEW b \in Buffers
  PROVE  SetOutput(g, n, c, b) \in Graph
<1> DEFINE r == g.routing[n]
<1>1. r \in Routing
  BY DEF Graph
<1>2. AtLeast(r.nout, c + 1) \in 0 .. MaxChannels
  BY <1>1, SizeAssumption DEF Routing, Channels, AtLeast
<1>3. [in |-> r.in, nin |-> r.nin,
       out |-> [r.out EXCEPT ![c] = b], nout |-> AtLeast(r.nout, c + 1)] \in Routing
  BY <1>1, <1>2 DEF Routing
<1> QED
  BY <1>3, RewiredType DEF SetOutput

\* Moving the inputs above a slot down reads only slots below the old count.
LEMMA MovedType ==
  ASSUME NEW r \in Routing, NEW c \in Channels
  PROVE  Moved(r, c) \in [Channels -> Buffers]
<1>1. r.in \in [Channels -> Buffers] /\ r.nin \in 0 .. MaxChannels
  BY DEF Routing
<1>2. NoBuffer \in Buffers
  BY SizeAssumption DEF NoBuffer, Buffers
<1>3. ASSUME NEW d \in Channels, d < r.nin - 1 PROVE d + 1 \in Channels
  BY <1>1, <1>3, SizeAssumption DEF Channels
<1> QED
  BY <1>1, <1>2, <1>3 DEF Moved

\* Disconnect keeps the graph well formed.
LEMMA DropInputType ==
  ASSUME NEW g \in Graph, NEW n \in Nodes, NEW c \in Channels
  PROVE  DropInput(g, n, c) \in Graph
<1> DEFINE r == g.routing[n]
<1>1. r \in Routing
  BY DEF Graph
<1>2. CASE c >= r.nin
  BY <1>2 DEF DropInput
<1>3. CASE ~ (c >= r.nin)
  <2>1. r.nin - 1 \in 0 .. MaxChannels
    BY <1>1, <1>3, SizeAssumption DEF Routing, Channels
  <2>2. Moved(r, c) \in [Channels -> Buffers]
    BY <1>1, MovedType
  <2>3. [in |-> Moved(r, c), nin |-> r.nin - 1, out |-> r.out, nout |-> r.nout]
          \in Routing
    BY <1>1, <2>1, <2>2 DEF Routing
  <2> QED
    BY <1>3, <2>3, RewiredType DEF DropInput
<1> QED
  BY <1>2, <1>3

\* RemoveNode keeps the graph well formed, whatever set of indices counts as
\* occupied.
LEMMA RemoveNodeFromType ==
  ASSUME NEW g \in Graph, NEW n \in Nodes, NEW occupied \in SUBSET (0 .. MaxNodes)
  PROVE  RemoveNodeFrom(g, n, occupied) \in Graph
<1> DEFINE cleared == (Reads(g.routing[n]) \cup Writes(g.routing[n])) \ {NoBuffer}
<1>1. NoBuffer \in Buffers
  BY SizeAssumption DEF NoBuffer, Buffers
<1>2. ASSUME NEW m \in Nodes PROVE Detach(g.routing[m], cleared) \in Routing
  <2>1. g.routing[m] \in Routing
    BY DEF Graph
  <2> QED
    BY <1>1, <2>1 DEF Detach, Routing
<1>3. Unrouted \in Routing
  BY SizeAssumption DEF Unrouted, Routing, NoBuffer, Channels, Buffers
<1>4. g.count \in 0 .. MaxNodes /\ MaxNodes \in Nat
  BY SizeAssumption DEF Graph
<1>5. CountOf(occupied, g.count) \in 0 .. g.count
  <2>1. g.count \in Nat /\ occupied \subseteq Nat
    BY <1>4
  <2> QED
    BY <2>1, CountOfBound
<1>6. CountOf(occupied, g.count) \in 0 .. MaxNodes
  BY <1>4, <1>5
<1> QED
  BY <1>2, <1>3, <1>6 DEF RemoveNodeFrom, Graph

-----------------------------------------------------------------------------
(***************************************************************************)
(* Induction, by way of sets: a set of naturals that is not empty has a    *)
(* least element.                                                          *)
(***************************************************************************)
LEMMA LeastNat ==
  ASSUME NEW T, T \subseteq Nat, T # {}
  PROVE  \E x \in T : \A y \in T : x <= y
<1>1. PICK R : IsWellFoundedOn(R, Nat) /\ \A x, y \in Nat : y < x => <<y, x>> \in R
  <2>1. \A x, y \in Nat : y < x => <<y, x>> \in OpToRel(<, Nat)
    BY DEF OpToRel
  <2> QED
    BY <2>1, NatLessThanWellFounded, Zenon
<1>2. PICK x \in T : \A y \in T : ~ (<<y, x>> \in R)
  BY <1>1, WFMin
<1>3. \A y \in T : ~ (y < x)
  BY <1>1, <1>2
<1> QED
  BY <1>3

\* A set that holds 0 and, with a number, the next one holds them all.
LEMMA SetInduction ==
  ASSUME NEW S, 0 \in S, \A n \in Nat : n \in S => n + 1 \in S
  PROVE  Nat \subseteq S
<1> SUFFICES ASSUME ~ (Nat \subseteq S) PROVE FALSE
  OBVIOUS
<1>1. Nat \ S # {}
  OBVIOUS
<1>2. PICK x \in Nat \ S : \A y \in Nat \ S : x <= y
  BY <1>1, LeastNat
<1>3. x - 1 \in Nat /\ ~ (x <= x - 1)
  OBVIOUS
<1>4. x - 1 \in S
  BY <1>2, <1>3
<1> QED
  BY <1>2, <1>3, <1>4

\* h[j] is what the first j steps of a loop make of s.
Loop(h, s, k, Step) == \A j \in 0 .. k : h[j] = IF j = 0 THEN s ELSE Step[j][h[j - 1]]

\* A loop over 1 .. k that changes something of S has a result.
LEMMA LoopResult ==
  ASSUME NEW S, NEW k \in Nat, NEW s \in S, NEW Step \in [1 .. k -> [S -> S]]
  PROVE  \E h \in [0 .. k -> S] : Loop(h, s, k, Step)
<1> USE DEF Loop
<1> DEFINE Runs(h, i) == Loop(h, s, i, Step)
           T == {i \in Nat : i <= k => \E h \in [0 .. i -> S] : Runs(h, i)}
<1>1. 0 \in T
  <2> DEFINE h == [j \in {0} |-> s]
  <2>1. 0 .. 0 = {0}
    OBVIOUS
  <2>2. \A j \in {0} : h[j] = IF j = 0 THEN s ELSE Step[j][h[j - 1]]
    OBVIOUS
  <2>3. h \in [{0} -> S]
    OBVIOUS
  <2> HIDE DEF h
  <2> QED
    BY <2>1, <2>2, <2>3
<1>2. ASSUME NEW i \in Nat, i \in T PROVE i + 1 \in T
  <2> SUFFICES ASSUME i + 1 <= k PROVE \E h \in [0 .. i + 1 -> S] : Runs(h, i + 1)
    OBVIOUS
  <2>1. PICK h \in [0 .. i -> S] : Runs(h, i)
    BY <1>2
  <2> DEFINE e == [j \in 0 .. i + 1 |-> IF j = i + 1 THEN Step[i + 1][h[i]] ELSE h[j]]
  <2>2. e \in [0 .. i + 1 -> S]
    OBVIOUS
  <2>3. ASSUME NEW j \in 0 .. i + 1
        PROVE  e[j] = IF j = 0 THEN s ELSE Step[j][e[j - 1]]
    <3>1. CASE j = i + 1
      <4>1. j # 0 /\ j - 1 = i /\ i \in 0 .. i + 1 /\ i # i + 1
        BY <3>1
      <4>2. e[i] = h[i]
        BY <4>1
      <4> QED
        BY <3>1, <4>1, <4>2
    <3>2. CASE j # i + 1
      <4>1. j \in 0 .. i /\ e[j] = h[j]
        BY <3>2
      <4>2. j # 0 => j - 1 \in 0 .. i + 1 /\ j - 1 # i + 1
        BY <4>1
      <4>3. j # 0 => e[j - 1] = h[j - 1]
        BY <4>2
      <4>4. h[j] = IF j = 0 THEN s ELSE Step[j][h[j - 1]]
        BY <2>1, <4>1
      <4> QED
        BY <4>1, <4>3, <4>4
    <3> QED
      BY <3>1, <3>2
  <2> HIDE DEF e
  <2>5. Runs(e, i + 1)
    BY <2>3
  <2> QED
    BY <2>2, <2>5
<1> HIDE DEF T
<1>3. k \in T
  BY <1>1, <1>2, SetInduction
<1> QED
  BY <1>3 DEF T

\* What runs like a loop over S stays in S.
LEMMA LoopTyped ==
  ASSUME NEW S, NEW k \in Nat, NEW Step \in [1 .. k -> [S -> S]], NEW h, h[0] \in S,
         \A j \in 1 .. k : h[j - 1] \in S => h[j] = Step[j][h[j - 1]]
  PROVE  \A j \in 0 .. k : h[j] \in S
<1> DEFINE T == {j \in Nat : j <= k => h[j] \in S}
<1>1. 0 \in T
  OBVIOUS
<1>2. ASSUME NEW i \in Nat, i \in T PROVE i + 1 \in T
  <2> SUFFICES ASSUME i + 1 <= k PROVE h[i + 1] \in S
    OBVIOUS
  <2>1. h[i] \in S /\ i + 1 \in 1 .. k /\ i + 1 - 1 = i
    BY <1>2
  <2>2. h[i + 1] = Step[i + 1][h[i]]
    BY <2>1
  <2> QED
    BY <2>1, <2>2
<1> HIDE DEF T
<1>3. Nat \subseteq T
  BY <1>1, <1>2, SetInduction
<1> QED
  BY <1>3 DEF T

-----------------------------------------------------------------------------
\* s with some of the buffers in lost replaced by none.
Holds(f, count, s, lost) ==
    /\ count = Len(s)
    /\ \A j \in 1 .. Len(s) : f[j - 1] = s[j] \/ (f[j - 1] = NoBuffer /\ s[j] \in lost)

\* h is g but for node n.
SameBut(g, h, n) == \A m \in Nodes \ {n} : g.routing[m] = h.routing[m]

\* UpdateEdge changes one input of one node.
LEMMA SetInputFacts ==
  ASSUME NEW g \in Graph, NEW n \in Nodes, NEW c \in Channels, NEW b \in Buffers
  PROVE  LET h == SetInput(g, n, c, b) IN
         /\ h \in Graph /\ SameBut(g, h, n)
         /\ h.routing[n].out = g.routing[n].out /\ h.routing[n].nout = g.routing[n].nout
         /\ h.routing[n].nin = AtLeast(g.routing[n].nin, c + 1)
         /\ \A d \in Channels : h.routing[n].in[d] = IF d = c THEN b ELSE g.routing[n].in[d]
<1>1. SetInput(g, n, c, b) \in Graph
  BY SetInputType
<1>2. g.routing \in [Nodes -> Routing]
  BY DEF Graph
<1> QED
  BY <1>1, <1>2 DEF SetInput, Rewired, SameBut, Routing

\* Wiring the inputs of a node is a loop over the places the target has.
LEMMA InputsWiredLoop ==
  ASSUME NEW g \in Graph, NEW n \in Nodes, NEW have \in Seq(Buffers), NEW want \in Seq(Buffers),
         Len(want) <= MaxChannels
  PROVE  \E w \in [0 .. Len(want) -> Graph] :
           /\ InputsWired(g, n, have, want) = w[Len(want)]
           /\ \A j \in 0 .. Len(want) : w[j] = IF j = 0 THEN g
                            ELSE IF Differs(have, want, j)
                                 THEN SetInput(w[j - 1], n, j - 1, want[j])
                            ELSE w[j - 1]
<1> DEFINE k == Len(want)
           Step == [j \in 1 .. k |-> [x \in Graph |->
                      IF Differs(have, want, j) THEN SetInput(x, n, j - 1, want[j]) ELSE x]]
           Runs(f) == f = [j \in 0 .. k |->
                            IF j = 0 THEN g
                            ELSE IF Differs(have, want, j)
                                 THEN SetInput(f[j - 1], n, j - 1, want[j])
                            ELSE f[j - 1]]
           wired == CHOOSE f : Runs(f)
<1>1. k \in Nat /\ Len(have) \in Nat /\ MaxChannels \in Nat
  BY LenProperties, SizeAssumption
<1>2. \A j \in 1 .. k : j - 1 \in Channels /\ want[j] \in Buffers
  BY <1>1, ElementOfSeq DEF Channels
<1>3. Step \in [1 .. k -> [Graph -> Graph]]
  BY <1>2, SetInputType
<1>4. \E f \in [0 .. k -> Graph] : Runs(f)
  <2>1. PICK f \in [0 .. k -> Graph] : Loop(f, g, k, Step)
    <3> HIDE DEF Step
    <3> QED
      BY <1>1, <1>3, LoopResult
  <2>2. ASSUME NEW j \in 0 .. k
        PROVE  f[j] = IF j = 0 THEN g
                      ELSE IF Differs(have, want, j) THEN SetInput(f[j - 1], n, j - 1, want[j])
                      ELSE f[j - 1]
    <3>1. CASE j = 0
      BY <2>1, <3>1 DEF Loop
    <3>2. CASE j # 0
      <4>1. j \in 1 .. k /\ f[j - 1] \in Graph
        BY <1>1, <3>2
      <4> QED
        BY <2>1, <3>2, <4>1 DEF Loop
    <3> QED
      BY <3>1, <3>2
  <2> QED
    BY <2>2
<1>5. Runs(wired)
  <2> HIDE DEF Runs
  <2> QED
    BY <1>4
<1>6. InputsWired(g, n, have, want) = wired[k]
  BY DEF InputsWired
<1>7. DOMAIN wired = 0 .. k /\ \A j \in 0 .. k : wired[j] = IF j = 0 THEN g
                            ELSE IF Differs(have, want, j)
                                 THEN SetInput(wired[j - 1], n, j - 1, want[j])
                            ELSE wired[j - 1]
  <2> HIDE DEF wired
  <2> QED
    BY <1>1, <1>5
<1>8. \A j \in 1 .. k : wired[j - 1] \in Graph => wired[j] = Step[j][wired[j - 1]]
  <2> HIDE DEF wired
  <2> QED
    BY <1>1, <1>7
<1>9. \A j \in 0 .. k : wired[j] \in Graph
  <2> HIDE DEF wired, Step
  <2>1. wired[0] \in Graph
    BY <1>1, <1>7
  <2> HIDE DEF k
  <2> QED
    BY <1>1, <1>3, <1>8, <2>1, LoopTyped
<1>10. wired = [j \in 0 .. k |-> wired[j]]
  BY <1>5
<1> QED
  BY <1>6, <1>7, <1>9, <1>10, Zenon

\* h is g with the inputs (outputs) of node n wired as want says, but for buffers in lost.
InputsDone(g, h, n, have, want, lost) ==
    /\ h \in Graph /\ SameBut(g, h, n)
    /\ h.routing[n].out = g.routing[n].out /\ h.routing[n].nout = g.routing[n].nout
    /\ h.routing[n].nin = AtLeast(Len(have), Len(want))
    /\ \A j \in 1 .. Len(want) : \/ h.routing[n].in[j - 1] = want[j]
                                 \/ h.routing[n].in[j - 1] = NoBuffer /\ want[j] \in lost

OutputsDone(g, h, n, have, want, lost) ==
    /\ h \in Graph /\ SameBut(g, h, n)
    /\ h.routing[n].in = g.routing[n].in /\ h.routing[n].nin = g.routing[n].nin
    /\ h.routing[n].nout = AtLeast(Len(have), Len(want))
    /\ \A j \in 1 .. Len(want) : \/ h.routing[n].out[j - 1] = want[j]
                                 \/ h.routing[n].out[j - 1] = NoBuffer /\ want[j] \in lost

\* Once the inputs are wired each place holds what was wanted, but for lost buffers; no
\* other node and no output has changed.
LEMMA InputsWiredFacts ==
  ASSUME NEW g \in Graph, NEW n \in Nodes, NEW have \in Seq(Buffers), NEW want \in Seq(Buffers),
         Len(want) <= MaxChannels, NEW lost,
         Holds(g.routing[n].in, g.routing[n].nin, have, lost)
  PROVE  LET h == InputsWired(g, n, have, want) IN
         /\ h \in Graph /\ SameBut(g, h, n)
         /\ h.routing[n].out = g.routing[n].out /\ h.routing[n].nout = g.routing[n].nout
         /\ h.routing[n].nin = AtLeast(Len(have), Len(want))
         /\ \A j \in 1 .. Len(want) : \/ h.routing[n].in[j - 1] = want[j]
                                      \/ h.routing[n].in[j - 1] = NoBuffer /\ want[j] \in lost
<1> DEFINE k == Len(want)
<1>1. k \in Nat /\ Len(have) \in Nat /\ Len(want) \in Nat /\ MaxChannels \in Nat
  BY LenProperties, SizeAssumption DEF AtLeast
<1>2. \A j \in 1 .. k : j - 1 \in Channels /\ want[j] \in Buffers
  BY <1>1, ElementOfSeq DEF Channels
<1>5. PICK w :
        /\ w \in [0 .. k -> Graph]
        /\ InputsWired(g, n, have, want) = w[k]
        /\ \A j \in 0 .. k : w[j] = IF j = 0 THEN g
                            ELSE IF Differs(have, want, j)
                                 THEN SetInput(w[j - 1], n, j - 1, want[j])
                            ELSE w[j - 1]
  BY InputsWiredLoop
<1>6. InputsWired(g, n, have, want) = w[k]
  BY <1>5
<1> DEFINE P(j) ==
             LET h == w[j] IN
             /\ h \in Graph /\ SameBut(g, h, n)
             /\ h.routing[n].out = g.routing[n].out /\ h.routing[n].nout = g.routing[n].nout
             /\ h.routing[n].nin = AtLeast(Len(have), j)
             /\ \A i \in 1 .. k : i <= j =>
                  \/ h.routing[n].in[i - 1] = want[i]
                  \/ h.routing[n].in[i - 1] = NoBuffer /\ want[i] \in lost
             /\ \A i \in 1 .. k : j < i /\ i <= Len(have) =>
                  \/ h.routing[n].in[i - 1] = have[i]
                  \/ h.routing[n].in[i - 1] = NoBuffer /\ have[i] \in lost
           T == {j \in Nat : j <= k => P(j)}
<1>7. 0 \in T
  <2>1. w[0] = g
    BY <1>1, <1>5
  <2>2. AtLeast(Len(have), 0) = Len(have)
    BY <1>1 DEF AtLeast
  <2>3. P(0)
    BY <1>1, <2>1, <2>2 DEF Holds, SameBut
  <2> QED
    BY <2>3
<1>8. ASSUME NEW i \in Nat, i \in T PROVE i + 1 \in T
  <2> SUFFICES ASSUME i + 1 <= k PROVE P(i + 1)
    OBVIOUS
  <2> DEFINE x == w[i]  y == w[i + 1]  j == i + 1
  <2>1. P(i) /\ j \in 1 .. k /\ i \in 0 .. k
    BY <1>1, <1>8
  <2>2. y = IF Differs(have, want, j) THEN SetInput(x, n, j - 1, want[j]) ELSE x
    <3>1. j \in 0 .. k /\ j # 0 /\ j - 1 = i
      BY <1>1, <2>1
    <3> QED
      BY <1>5, <3>1
  <2> HIDE DEF x, y
  <2>3. x \in Graph /\ SameBut(g, x, n)
        /\ x.routing[n].out = g.routing[n].out /\ x.routing[n].nout = g.routing[n].nout
        /\ x.routing[n].nin = AtLeast(Len(have), i)
    BY <2>1 DEF x
  <2>4. \A d \in 1 .. k : d <= i =>
                  \/ x.routing[n].in[d - 1] = want[d]
                  \/ x.routing[n].in[d - 1] = NoBuffer /\ want[d] \in lost
    BY <2>1 DEF x
  <2>5. \A d \in 1 .. k : i < d /\ d <= Len(have) =>
                  \/ x.routing[n].in[d - 1] = have[d]
                  \/ x.routing[n].in[d - 1] = NoBuffer /\ have[d] \in lost
    BY <2>1 DEF x
  <2>6. CASE Differs(have, want, j)
    <3>1. j - 1 \in Channels /\ want[j] \in Buffers
      BY <1>2, <2>1
    <3>2. /\ y \in Graph /\ SameBut(x, y, n)
          /\ y.routing[n].out = x.routing[n].out /\ y.routing[n].nout = x.routing[n].nout
          /\ y.routing[n].nin = AtLeast(x.routing[n].nin, j - 1 + 1)
          /\ \A d \in Channels :
               y.routing[n].in[d] = IF d = j - 1 THEN want[j] ELSE x.routing[n].in[d]
      BY <2>2, <2>3, <2>6, <3>1, SetInputFacts
    <3>3. AtLeast(x.routing[n].nin, j - 1 + 1) = AtLeast(Len(have), j)
      BY <1>1, <2>1, <2>3 DEF AtLeast
    <3>4. SameBut(g, y, n)
      BY <2>3, <3>2 DEF SameBut
    <3>5. ASSUME NEW d \in 1 .. k
          PROVE  y.routing[n].in[d - 1] = IF d = j THEN want[j] ELSE x.routing[n].in[d - 1]
      <4>1. d - 1 \in Channels /\ (d - 1 = j - 1 <=> d = j)
        BY <1>2, <2>1
      <4> QED
        BY <3>2, <4>1
    <3>6. \A d \in 1 .. k : d <= j <=> d <= i \/ d = j
      OBVIOUS
    <3>7. \A d \in 1 .. k : d <= j =>
                  \/ y.routing[n].in[d - 1] = want[d]
                  \/ y.routing[n].in[d - 1] = NoBuffer /\ want[d] \in lost
      BY <2>4, <3>5, <3>6
    <3>8. \A d \in 1 .. k : j < d /\ d <= Len(have) =>
                  \/ y.routing[n].in[d - 1] = have[d]
                  \/ y.routing[n].in[d - 1] = NoBuffer /\ have[d] \in lost
      <4>1. \A d \in 1 .. k : j < d => d # j /\ i < d
        BY <1>1, <2>1
      <4> QED
        BY <2>5, <3>5, <4>1
    <3>9. /\ y \in Graph /\ SameBut(g, y, n)
          /\ y.routing[n].out = g.routing[n].out /\ y.routing[n].nout = g.routing[n].nout
          /\ y.routing[n].nin = AtLeast(Len(have), j)
      BY <2>3, <3>2, <3>3, <3>4
    <3> QED
      BY <3>7, <3>8, <3>9 DEF y
  <2>7. CASE ~Differs(have, want, j)
    <3>1. y = x
      BY <2>2, <2>7
    <3>2. j <= Len(have) /\ have[j] = want[j]
      BY <1>1, <2>1, <2>7 DEF Differs
    <3>3. AtLeast(Len(have), i) = AtLeast(Len(have), j)
      BY <1>1, <3>2 DEF AtLeast
    <3>4. \/ x.routing[n].in[j - 1] = want[j]
          \/ x.routing[n].in[j - 1] = NoBuffer /\ want[j] \in lost
      BY <2>1, <2>5, <3>2
    <3>5. \A d \in 1 .. k : d <= j <=> d <= i \/ d = j
      OBVIOUS
    <3>6. \A d \in 1 .. k : d <= j =>
                  \/ x.routing[n].in[d - 1] = want[d]
                  \/ x.routing[n].in[d - 1] = NoBuffer /\ want[d] \in lost
      <4> SUFFICES ASSUME NEW d \in 1 .. k, d <= j
                   PROVE  \/ x.routing[n].in[d - 1] = want[d]
                          \/ x.routing[n].in[d - 1] = NoBuffer /\ want[d] \in lost
        OBVIOUS
      <4>1. CASE d = j
        BY <3>4, <4>1
      <4>2. CASE d <= i
        BY <2>4, <4>2
      <4> QED
        BY <3>5, <4>1, <4>2
    <3>7. \A d \in 1 .. k : j < d => i < d
      OBVIOUS
    <3>8. \A d \in 1 .. k : j < d /\ d <= Len(have) =>
                  \/ x.routing[n].in[d - 1] = have[d]
                  \/ x.routing[n].in[d - 1] = NoBuffer /\ have[d] \in lost
      BY <2>5, <3>7
    <3> QED
      BY <2>3, <3>1, <3>3, <3>6, <3>8 DEF y
  <2> QED
    BY <2>6, <2>7
<1> HIDE DEF T, P
<1>9. P(k)
  <2>1. Nat \subseteq T
    BY <1>7, <1>8, SetInduction
  <2> QED
    BY <1>1, <2>1 DEF T
<1> QED
  BY <1>1, <1>6, <1>9 DEF P

\* UpdateOutputEdge changes one output of one node.
LEMMA SetOutputFacts ==
  ASSUME NEW g \in Graph, NEW n \in Nodes, NEW c \in Channels, NEW b \in Buffers
  PROVE  LET h == SetOutput(g, n, c, b) IN
         /\ h \in Graph /\ SameBut(g, h, n)
         /\ h.routing[n].in = g.routing[n].in /\ h.routing[n].nin = g.routing[n].nin
         /\ h.routing[n].nout = AtLeast(g.routing[n].nout, c + 1)
         /\ \A d \in Channels : h.routing[n].out[d] = IF d = c THEN b ELSE g.routing[n].out[d]
<1>1. SetOutput(g, n, c, b) \in Graph
  BY SetOutputType
<1>2. g.routing \in [Nodes -> Routing]
  BY DEF Graph
<1> QED
  BY <1>1, <1>2 DEF SetOutput, Rewired, SameBut, Routing

\* Wiring the outputs of a node is a loop as well.
LEMMA OutputsWiredLoop ==
  ASSUME NEW g \in Graph, NEW n \in Nodes, NEW have \in Seq(Buffers), NEW want \in Seq(Buffers),
         Len(want) <= MaxChannels
  PROVE  \E w \in [0 .. Len(want) -> Graph] :
           /\ OutputsWired(g, n, have, want) = w[Len(want)]
           /\ \A j \in 0 .. Len(want) : w[j] = IF j = 0 THEN g
                            ELSE IF Differs(have, want, j)
                                 THEN SetOutput(w[j - 1], n, j - 1, want[j])
                            ELSE w[j - 1]
<1> DEFINE k == Len(want)
           Step == [j \in 1 .. k |-> [x \in Graph |->
                      IF Differs(have, want, j) THEN SetOutput(x, n, j - 1, want[j]) ELSE x]]
           Runs(f) == f = [j \in 0 .. k |->
                            IF j = 0 THEN g
                            ELSE IF Differs(have, want, j)
                                 THEN SetOutput(f[j - 1], n, j - 1, want[j])
                            ELSE f[j - 1]]
           wired == CHOOSE f : Runs(f)
<1>1. k \in Nat /\ Len(have) \in Nat /\ MaxChannels \in Nat
  BY LenProperties, SizeAssumption
<1>2. \A j \in 1 .. k : j - 1 \in Channels /\ want[j] \in Buffers
  BY <1>1, ElementOfSeq DEF Channels
<1>3. Step \in [1 .. k -> [Graph -> Graph]]
  BY <1>2, SetOutputType
<1>4. \E f \in [0 .. k -> Graph] : Runs(f)
  <2>1. PICK f \in [0 .. k -> Graph] : Loop(f, g, k, Step)
    <3> HIDE DEF Step
    <3> QED
      BY <1>1, <1>3, LoopResult
  <2>2. ASSUME NEW j \in 0 .. k
        PROVE  f[j] = IF j = 0 THEN g
                      ELSE IF Differs(have, want, j) THEN SetOutput(f[j - 1], n, j - 1, want[j])
                      ELSE f[j - 1]
    <3>1. CASE j = 0
      BY <2>1, <3>1 DEF Loop
    <3>2. CASE j # 0
      <4>1. j \in 1 .. k /\ f[j - 1] \in Graph
        BY <1>1, <3>2
      <4> QED
        BY <2>1, <3>2, <4>1 DEF Loop
    <3> QED
      BY <3>1, <3>2
  <2> QED
    BY <2>2
<1>5. Runs(wired)
  <2> HIDE DEF Runs
  <2> QED
    BY <1>4
<1>6. OutputsWired(g, n, have, want) = wired[k]
  BY DEF OutputsWired
<1>7. DOMAIN wired = 0 .. k /\ \A j \in 0 .. k : wired[j] = IF j = 0 THEN g
                            ELSE IF Differs(have, want, j)
                                 THEN SetOutput(wired[j - 1], n, j - 1, want[j])
                            ELSE wired[j - 1]
  <2> HIDE DEF wired
  <2> QED
    BY <1>1, <1>5
<1>8. \A j \in 1 .. k : wired[j - 1] \in Graph => wired[j] = Step[j][wired[j - 1]]
  <2> HIDE DEF wired
  <2> QED
    BY <1>1, <1>7
<1>9. \A j \in 0 .. k : wired[j] \in Graph
  <2> HIDE DEF wired, Step
  <2>1. wired[0] \in Graph
    BY <1>1, <1>7
  <2> HIDE DEF k
  <2> QED
    BY <1>1, <1>3, <1>8, <2>1, LoopTyped
<1>10. wired = [j \in 0 .. k |-> wired[j]]
  BY <1>5
<1> QED
  BY <1>6, <1>7, <1>9, <1>10, Zenon

\* Once the outputs are wired each place holds what was wanted, but for lost buffers.
LEMMA OutputsWiredFacts ==
  ASSUME NEW g \in Graph, NEW n \in Nodes, NEW have \in Seq(Buffers), NEW want \in Seq(Buffers),
         Len(want) <= MaxChannels, NEW lost,
         Holds(g.routing[n].out, g.routing[n].nout, have, lost)
  PROVE  LET h == OutputsWired(g, n, have, want) IN
         /\ h \in Graph /\ SameBut(g, h, n)
         /\ h.routing[n].in = g.routing[n].in /\ h.routing[n].nin = g.routing[n].nin
         /\ h.routing[n].nout = AtLeast(Len(have), Len(want))
         /\ \A j \in 1 .. Len(want) : \/ h.routing[n].out[j - 1] = want[j]
                                      \/ h.routing[n].out[j - 1] = NoBuffer /\ want[j] \in lost
<1> DEFINE k == Len(want)
<1>1. k \in Nat /\ Len(have) \in Nat /\ Len(want) \in Nat /\ MaxChannels \in Nat
  BY LenProperties, SizeAssumption DEF AtLeast
<1>2. \A j \in 1 .. k : j - 1 \in Channels /\ want[j] \in Buffers
  BY <1>1, ElementOfSeq DEF Channels
<1>5. PICK w :
        /\ w \in [0 .. k -> Graph]
        /\ OutputsWired(g, n, have, want) = w[k]
        /\ \A j \in 0 .. k : w[j] = IF j = 0 THEN g
                            ELSE IF Differs(have, want, j)
                                 THEN SetOutput(w[j - 1], n, j - 1, want[j])
                            ELSE w[j - 1]
  BY OutputsWiredLoop
<1>6. OutputsWired(g, n, have, want) = w[k]
  BY <1>5
<1> DEFINE P(j) ==
             LET h == w[j] IN
             /\ h \in Graph /\ SameBut(g, h, n)
             /\ h.routing[n].in = g.routing[n].in /\ h.routing[n].nin = g.routing[n].nin
             /\ h.routing[n].nout = AtLeast(Len(have), j)
             /\ \A i \in 1 .. k : i <= j =>
                  \/ h.routing[n].out[i - 1] = want[i]
                  \/ h.routing[n].out[i - 1] = NoBuffer /\ want[i] \in lost
             /\ \A i \in 1 .. k : j < i /\ i <= Len(have) =>
                  \/ h.routing[n].out[i - 1] = have[i]
                  \/ h.routing[n].out[i - 1] = NoBuffer /\ have[i] \in lost
           T == {j \in Nat : j <= k => P(j)}
<1>7. 0 \in T
  <2>1. w[0] = g
    BY <1>1, <1>5
  <2>2. AtLeast(Len(have), 0) = Len(have)
    BY <1>1 DEF AtLeast
  <2>3. P(0)
    BY <1>1, <2>1, <2>2 DEF Holds, SameBut
  <2> QED
    BY <2>3
<1>8. ASSUME NEW i \in Nat, i \in T PROVE i + 1 \in T
  <2> SUFFICES ASSUME i + 1 <= k PROVE P(i + 1)
    OBVIOUS
  <2> DEFINE x == w[i]  y == w[i + 1]  j == i + 1
  <2>1. P(i) /\ j \in 1 .. k /\ i \in 0 .. k
    BY <1>1, <1>8
  <2>2. y = IF Differs(have, want, j) THEN SetOutput(x, n, j - 1, want[j]) ELSE x
    <3>1. j \in 0 .. k /\ j # 0 /\ j - 1 = i
      BY <1>1, <2>1
    <3> QED
      BY <1>5, <3>1
  <2> HIDE DEF x, y
  <2>3. x \in Graph /\ SameBut(g, x, n)
        /\ x.routing[n].in = g.routing[n].in /\ x.routing[n].nin = g.routing[n].nin
        /\ x.routing[n].nout = AtLeast(Len(have), i)
    BY <2>1 DEF x
  <2>4. \A d \in 1 .. k : d <= i =>
                  \/ x.routing[n].out[d - 1] = want[d]
                  \/ x.routing[n].out[d - 1] = NoBuffer /\ want[d] \in lost
    BY <2>1 DEF x
  <2>5. \A d \in 1 .. k : i < d /\ d <= Len(have) =>
                  \/ x.routing[n].out[d - 1] = have[d]
                  \/ x.routing[n].out[d - 1] = NoBuffer /\ have[d] \in lost
    BY <2>1 DEF x
  <2>6. CASE Differs(have, want, j)
    <3>1. j - 1 \in Channels /\ want[j] \in Buffers
      BY <1>2, <2>1
    <3>2. /\ y \in Graph /\ SameBut(x, y, n)
          /\ y.routing[n].in = x.routing[n].in /\ y.routing[n].nin = x.routing[n].nin
          /\ y.routing[n].nout = AtLeast(x.routing[n].nout, j - 1 + 1)
          /\ \A d \in Channels :
               y.routing[n].out[d] = IF d = j - 1 THEN want[j] ELSE x.routing[n].out[d]
      BY <2>2, <2>3, <2>6, <3>1, SetOutputFacts
    <3>3. AtLeast(x.routing[n].nout, j - 1 + 1) = AtLeast(Len(have), j)
      BY <1>1, <2>1, <2>3 DEF AtLeast
    <3>4. SameBut(g, y, n)
      BY <2>3, <3>2 DEF SameBut
    <3>5. ASSUME NEW d \in 1 .. k
          PROVE  y.routing[n].out[d - 1] = IF d = j THEN want[j] ELSE x.routing[n].out[d - 1]
      <4>1. d - 1 \in Channels /\ (d - 1 = j - 1 <=> d = j)
        BY <1>2, <2>1
      <4> QED
        BY <3>2, <4>1
    <3>6. \A d \in 1 .. k : d <= j <=> d <= i \/ d = j
      OBVIOUS
    <3>7. \A d \in 1 .. k : d <= j =>
                  \/ y.routing[n].out[d - 1] = want[d]
                  \/ y.routing[n].out[d - 1] = NoBuffer /\ want[d] \in lost
      BY <2>4, <3>5, <3>6
    <3>8. \A d \in 1 .. k : j < d /\ d <= Len(have) =>
                  \/ y.routing[n].out[d - 1] = have[d]
                  \/ y.routing[n].out[d - 1] = NoBuffer /\ have[d] \in lost
      <4>1. \A d \in 1 .. k : j < d => d # j /\ i < d
        BY <1>1, <2>1
      <4> QED
        BY <2>5, <3>5, <4>1
    <3>9. /\ y \in Graph /\ SameBut(g, y, n)
          /\ y.routing[n].in = g.routing[n].in /\ y.routing[n].nin = g.routing[n].nin
          /\ y.routing[n].nout = AtLeast(Len(have), j)
      BY <2>3, <3>2, <3>3, <3>4
    <3> QED
      BY <3>7, <3>8, <3>9 DEF y
  <2>7. CASE ~Differs(have, want, j)
    <3>1. y = x
      BY <2>2, <2>7
    <3>2. j <= Len(have) /\ have[j] = want[j]
      BY <1>1, <2>1, <2>7 DEF Differs
    <3>3. AtLeast(Len(have), i) = AtLeast(Len(have), j)
      BY <1>1, <3>2 DEF AtLeast
    <3>4. \/ x.routing[n].out[j - 1] = want[j]
          \/ x.routing[n].out[j - 1] = NoBuffer /\ want[j] \in lost
      BY <2>1, <2>5, <3>2
    <3>5. \A d \in 1 .. k : d <= j <=> d <= i \/ d = j
      OBVIOUS
    <3>6. \A d \in 1 .. k : d <= j =>
                  \/ x.routing[n].out[d - 1] = want[d]
                  \/ x.routing[n].out[d - 1] = NoBuffer /\ want[d] \in lost
      <4> SUFFICES ASSUME NEW d \in 1 .. k, d <= j
                   PROVE  \/ x.routing[n].out[d - 1] = want[d]
                          \/ x.routing[n].out[d - 1] = NoBuffer /\ want[d] \in lost
        OBVIOUS
      <4>1. CASE d = j
        BY <3>4, <4>1
      <4>2. CASE d <= i
        BY <2>4, <4>2
      <4> QED
        BY <3>5, <4>1, <4>2
    <3>7. \A d \in 1 .. k : j < d => i < d
      OBVIOUS
    <3>8. \A d \in 1 .. k : j < d /\ d <= Len(have) =>
                  \/ x.routing[n].out[d - 1] = have[d]
                  \/ x.routing[n].out[d - 1] = NoBuffer /\ have[d] \in lost
      BY <2>5, <3>7
    <3> QED
      BY <2>3, <3>1, <3>3, <3>6, <3>8 DEF y
  <2> QED
    BY <2>6, <2>7
<1> HIDE DEF T, P
<1>9. P(k)
  <2>1. Nat \subseteq T
    BY <1>7, <1>8, SetInduction
  <2> QED
    BY <1>1, <2>1 DEF T
<1> QED
  BY <1>1, <1>6, <1>9 DEF P

\* Disconnecting the highest input leaves the others where they are.
LEMMA DropLastInput ==
  ASSUME NEW g \in Graph, NEW n \in Nodes, NEW c \in Channels, g.routing[n].nin = c + 1
  PROVE  LET h == DropInput(g, n, c) IN
         /\ h \in Graph /\ SameBut(g, h, n)
         /\ h.routing[n].out = g.routing[n].out /\ h.routing[n].nout = g.routing[n].nout
         /\ h.routing[n].nin = c
         /\ \A d \in Channels : d < c => h.routing[n].in[d] = g.routing[n].in[d]
<1>1. DropInput(g, n, c) \in Graph
  BY DropInputType
<1>2. g.routing \in [Nodes -> Routing] /\ c \in Nat
  BY DEF Graph, Channels
<1>3. ~(c >= c + 1) /\ c + 1 - 1 = c
  BY <1>2
<1>4. \A d \in Channels : d < c => Moved(g.routing[n], c)[d] = g.routing[n].in[d]
  BY <1>2, <1>3 DEF Moved, Channels
<1>5. DropInput(g, n, c)
        = Rewired(g, n, [in  |-> Moved(g.routing[n], c), nin  |-> g.routing[n].nin - 1,
                         out |-> g.routing[n].out,       nout |-> g.routing[n].nout])
  BY <1>3 DEF DropInput
<1>6. g.routing[n].nin - 1 = c
  BY <1>2
<1> QED
  BY <1>1, <1>2, <1>4, <1>5, <1>6 DEF Rewired, SameBut

\* Dropping the excess inputs is a loop from the highest down.
LEMMA ExcessDroppedLoop ==
  ASSUME NEW g \in Graph, NEW n \in Nodes, NEW have \in Seq(Buffers), NEW want \in Seq(Buffers),
         Len(have) <= MaxChannels
  PROVE  \E w \in [0 .. AtLeast(Len(have) - Len(want), 0) -> Graph] :
           /\ ExcessDropped(g, n, have, want) = w[AtLeast(Len(have) - Len(want), 0)]
           /\ \A j \in 0 .. AtLeast(Len(have) - Len(want), 0) : w[j] =
                   IF j = 0 THEN g
                   ELSE DropInput(w[j - 1], n, Len(have) - j)
<1> DEFINE k == AtLeast(Len(have) - Len(want), 0)
           Step == [j \in 1 .. k |-> [x \in Graph |-> DropInput(x, n, Len(have) - j)]]
           Runs(f) == f = [j \in 0 .. k |->
                            IF j = 0 THEN g ELSE DropInput(f[j - 1], n, Len(have) - j)]
           dropped == CHOOSE f : Runs(f)
<1>1. k \in Nat /\ Len(have) \in Nat /\ Len(want) \in Nat /\ MaxChannels \in Nat
  BY LenProperties, SizeAssumption DEF AtLeast
<1>2. \A j \in 1 .. k : Len(have) - j \in Channels /\ Len(have) - j >= Len(want)
  BY <1>1 DEF Channels, AtLeast
<1>3. Step \in [1 .. k -> [Graph -> Graph]]
  BY <1>2, DropInputType
<1>4. \E f \in [0 .. k -> Graph] : Runs(f)
  <2>1. PICK f \in [0 .. k -> Graph] : Loop(f, g, k, Step)
    <3> HIDE DEF Step, k
    <3> QED
      BY <1>1, <1>3, LoopResult
  <2>2. ASSUME NEW j \in 0 .. k
        PROVE  f[j] = IF j = 0 THEN g ELSE DropInput(f[j - 1], n, Len(have) - j)
    <3> HIDE DEF k
    <3>1. CASE j = 0
      BY <2>1, <3>1 DEF Loop
    <3>2. CASE j # 0
      <4>1. j \in 1 .. k /\ f[j - 1] \in Graph
        BY <1>1, <3>2
      <4> QED
        BY <2>1, <3>2, <4>1 DEF Loop
    <3> QED
      BY <3>1, <3>2
  <2> QED
    BY <2>2
<1>5. Runs(dropped)
  <2> HIDE DEF Runs
  <2> QED
    BY <1>4
<1>6. ExcessDropped(g, n, have, want) = dropped[k]
  BY DEF ExcessDropped
<1>7. DOMAIN dropped = 0 .. k /\ \A j \in 0 .. k : dropped[j] =
                                      IF j = 0 THEN g
                                      ELSE DropInput(dropped[j - 1], n, Len(have) - j)
  <2> HIDE DEF dropped
  <2> QED
    BY <1>1, <1>5
<1>8. \A j \in 1 .. k : dropped[j - 1] \in Graph => dropped[j] = Step[j][dropped[j - 1]]
  <2> HIDE DEF dropped
  <2> QED
    BY <1>1, <1>7
<1>9. \A j \in 0 .. k : dropped[j] \in Graph
  <2>1. dropped[0] \in Graph
    <3> HIDE DEF dropped, k
    <3> QED
      BY <1>1, <1>7
  <2> HIDE DEF dropped, Step, k
  <2> QED
    BY <1>1, <1>3, <1>8, <2>1, LoopTyped
<1>10. dropped = [j \in 0 .. k |-> dropped[j]]
  BY <1>5
<1> QED
  BY <1>6, <1>7, <1>9, <1>10, Zenon

\* Dropping the excess leaves exactly the inputs the target has.
LEMMA ExcessDroppedFacts ==
  ASSUME NEW g \in Graph, NEW n \in Nodes, NEW have \in Seq(Buffers), NEW want \in Seq(Buffers),
         Len(have) <= MaxChannels, g.routing[n].nin = AtLeast(Len(have), Len(want))
  PROVE  LET h == ExcessDropped(g, n, have, want) IN
         /\ h \in Graph /\ SameBut(g, h, n)
         /\ h.routing[n].out = g.routing[n].out /\ h.routing[n].nout = g.routing[n].nout
         /\ h.routing[n].nin = Len(want)
         /\ \A j \in 1 .. Len(want) : j <= MaxChannels =>
              h.routing[n].in[j - 1] = g.routing[n].in[j - 1]
<1> DEFINE k == AtLeast(Len(have) - Len(want), 0)
<1>1. k \in Nat /\ Len(have) \in Nat /\ Len(want) \in Nat /\ MaxChannels \in Nat
  BY LenProperties, SizeAssumption DEF AtLeast
<1>2. \A j \in 1 .. k : Len(have) - j \in Channels /\ Len(have) - j >= Len(want)
  BY <1>1 DEF Channels, AtLeast
<1>5. PICK w :
        /\ w \in [0 .. k -> Graph]
        /\ ExcessDropped(g, n, have, want) = w[k]
        /\ \A j \in 0 .. k : w[j] = IF j = 0 THEN g ELSE DropInput(w[j - 1], n, Len(have) - j)
  BY ExcessDroppedLoop
<1>6. ExcessDropped(g, n, have, want) = w[k]
  BY <1>5
<1>7. k = IF Len(have) >= Len(want) THEN Len(have) - Len(want) ELSE 0
  BY <1>1 DEF AtLeast
<1> HIDE DEF k
<1> DEFINE P(j) ==
             LET h == w[j] IN
             /\ h \in Graph /\ SameBut(g, h, n)
             /\ h.routing[n].out = g.routing[n].out /\ h.routing[n].nout = g.routing[n].nout
             /\ h.routing[n].nin = AtLeast(Len(have), Len(want)) - j
             /\ \A i \in 1 .. Len(want) : i <= MaxChannels =>
                  h.routing[n].in[i - 1] = g.routing[n].in[i - 1]
           T == {j \in Nat : j <= k => P(j)}
<1>8. 0 \in T
  <2>1. w[0] = g
    BY <1>1, <1>5
  <2>2. AtLeast(Len(have), Len(want)) - 0 = AtLeast(Len(have), Len(want))
    BY <1>1 DEF AtLeast
  <2> QED
    BY <2>1, <2>2 DEF SameBut
<1>9. ASSUME NEW i \in Nat, i \in T PROVE i + 1 \in T
  <2> SUFFICES ASSUME i + 1 <= k PROVE P(i + 1)
    OBVIOUS
  <2> DEFINE x == w[i]  y == w[i + 1]  j == i + 1
  <2>1. P(i) /\ j \in 1 .. k /\ i \in 0 .. k /\ i < k
    BY <1>1, <1>9
  <2>2. y = DropInput(x, n, Len(have) - j)
    <3>1. j \in 0 .. k /\ j # 0 /\ j - 1 = i
      BY <1>1, <2>1
    <3> QED
      BY <1>5, <3>1
  <2> HIDE DEF x, y
  <2>3. x \in Graph /\ SameBut(g, x, n)
        /\ x.routing[n].out = g.routing[n].out /\ x.routing[n].nout = g.routing[n].nout
        /\ x.routing[n].nin = AtLeast(Len(have), Len(want)) - i
    BY <2>1 DEF x
  <2>4. \A d \in 1 .. Len(want) : d <= MaxChannels =>
          x.routing[n].in[d - 1] = g.routing[n].in[d - 1]
    BY <2>1 DEF x
  <2>5. AtLeast(Len(have), Len(want)) = Len(have)
    BY <1>1, <1>7, <2>1 DEF AtLeast
  <2>6. Len(have) - j \in Channels /\ Len(have) - j >= Len(want)
        /\ x.routing[n].nin = Len(have) - j + 1
    <3>1. Len(have) - j \in Channels /\ Len(have) - j >= Len(want)
      BY <1>2, <2>1
    <3>2. Len(have) - i = Len(have) - j + 1
      BY <1>1
    <3> QED
      BY <2>3, <2>5, <3>1, <3>2
  <2>7. /\ y \in Graph /\ SameBut(x, y, n)
        /\ y.routing[n].out = x.routing[n].out /\ y.routing[n].nout = x.routing[n].nout
        /\ y.routing[n].nin = Len(have) - j
        /\ \A d \in Channels : d < Len(have) - j => y.routing[n].in[d] = x.routing[n].in[d]
    BY <2>2, <2>3, <2>6, DropLastInput
  <2>8. SameBut(g, y, n)
    BY <2>3, <2>7 DEF SameBut
  <2>9. \A d \in 1 .. Len(want) : d <= MaxChannels =>
          y.routing[n].in[d - 1] = g.routing[n].in[d - 1]
    <3>1. \A d \in 1 .. Len(want) : d <= MaxChannels =>
            d - 1 \in Channels /\ d - 1 < Len(have) - j
      BY <1>1, <2>6 DEF Channels
    <3> QED
      BY <2>4, <2>7, <3>1
  <2> QED
    BY <2>3, <2>5, <2>7, <2>8, <2>9 DEF y
<1> HIDE DEF T, P
<1>10. P(k)
  <2>1. Nat \subseteq T
    BY <1>8, <1>9, SetInduction
  <2> QED
    BY <1>1, <2>1 DEF T
<1>11. AtLeast(Len(have), Len(want)) - k = Len(want)
  BY <1>1, <1>7 DEF AtLeast
<1> QED
  BY <1>6, <1>10, <1>11 DEF P

-----------------------------------------------------------------------------
\* What a slot of a desired state can hold.
Slot == {Empty} \cup
        {d \in DesiredNode : Len(d.in) <= MaxChannels /\ Len(d.out) <= MaxChannels}

\* What the type of a slot can be.
Kinds == Types \cup {"EMPTY"}

\* A node that is wired as d says, but for buffers in lost.
Holding(r, d, lost) == Holds(r.in, r.nin, d.in, lost) /\ Holds(r.out, r.nout, d.out, lost)

\* The buffers a node reads or writes.
Uses(d) == Members(d.in) \cup Members(d.out)

\* A slot without a node has no edges.
LEMMA EmptyFacts ==
  /\ Empty.in = <<>> /\ Empty.out = <<>> /\ Empty.type = "EMPTY"
  /\ <<>> \in Seq(Buffers) /\ Len(<<>>) = 0 /\ MaxChannels \in Nat
  BY SizeAssumption, EmptySeq DEF Empty

\* What a slot of a desired state consists of; only the empty slot is of type EMPTY.
LEMMA SlotFacts ==
  ASSUME NEW d \in Slot
  PROVE  /\ d.in \in Seq(Buffers) /\ d.out \in Seq(Buffers) /\ d.type \in Kinds
         /\ Len(d.in) \in Nat /\ Len(d.out) \in Nat
         /\ Len(d.in) <= MaxChannels /\ Len(d.out) <= MaxChannels
         /\ d # Empty <=> d.type # "EMPTY"
<1>1. CASE d = Empty
  BY <1>1, EmptyFacts DEF Kinds
<1>2. CASE d # Empty
  <2>1. d \in DesiredNode /\ Len(d.in) <= MaxChannels /\ Len(d.out) <= MaxChannels
    BY <1>2 DEF Slot
  <2>2. d.in \in Seq(Buffers) /\ d.out \in Seq(Buffers) /\ d.type \in Types
    BY <2>1 DEF DesiredNode
  <2>3. d.type # "EMPTY"
    BY <2>2 DEF Types
  <2> QED
    BY <1>2, <2>1, <2>2, <2>3, LenProperties DEF Kinds
<1> QED
  BY <1>1, <1>2

\* Removing a node takes nothing from the others that they do not share with it.
LEMMA RemoveKeeps ==
  ASSUME NEW g \in Graph, NEW n \in Nodes, NEW occupied \in SUBSET (0 .. MaxNodes),
         NEW have \in Slot, NEW lost, Holding(g.routing[n], have, lost),
         Uses(have) \ {NoBuffer} \subseteq lost,
         NEW m \in Nodes, m # n, NEW d \in Slot, Holding(g.routing[m], d, lost)
  PROVE  Holding(RemoveNodeFrom(g, n, occupied).routing[m], d, lost)
<1> DEFINE r == g.routing[n]
           cleared == (Reads(r) \cup Writes(r)) \ {NoBuffer}
           q == g.routing[m]
<1>1. r \in Routing /\ q \in Routing
  BY DEF Graph
<1>2. cleared \subseteq lost
  <2>1. ASSUME NEW c \in Channels, c < r.nin, r.in[c] # NoBuffer PROVE r.in[c] \in lost
    <3>1. c + 1 \in 1 .. Len(have.in) /\ c + 1 - 1 = c
      BY <2>1, SlotFacts DEF Holding, Holds, Channels
    <3>2. r.in[c] = have.in[c + 1]
      <4>1. PICK j \in 1 .. Len(have.in) : j = c + 1
        BY <3>1
      <4>2. r.in[j - 1] = have.in[j] \/ r.in[j - 1] = NoBuffer
        BY DEF Holding, Holds
      <4>3. j - 1 = c
        BY <4>1 DEF Channels
      <4> QED
        BY <2>1, <4>1, <4>2, <4>3
    <3>3. have.in[c + 1] \in Members(have.in)
      BY <3>1, SlotFacts, LenProperties DEF Members
    <3> QED
      BY <2>1, <3>2, <3>3 DEF Uses
  <2>2. ASSUME NEW c \in Channels, c < r.nout, r.out[c] # NoBuffer PROVE r.out[c] \in lost
    <3>1. c + 1 \in 1 .. Len(have.out) /\ c + 1 - 1 = c
      BY <2>2, SlotFacts DEF Holding, Holds, Channels
    <3>2. r.out[c] = have.out[c + 1]
      <4>1. PICK j \in 1 .. Len(have.out) : j = c + 1
        BY <3>1
      <4>2. r.out[j - 1] = have.out[j] \/ r.out[j - 1] = NoBuffer
        BY DEF Holding, Holds
      <4>3. j - 1 = c
        BY <4>1 DEF Channels
      <4> QED
        BY <2>2, <4>1, <4>2, <4>3
    <3>3. have.out[c + 1] \in Members(have.out)
      BY <3>1, SlotFacts, LenProperties DEF Members
    <3> QED
      BY <2>2, <3>2, <3>3 DEF Uses
  <2> QED
    BY <2>1, <2>2 DEF Reads, Writes
<1>3. RemoveNodeFrom(g, n, occupied).routing[m] = Detach(q, cleared)
  BY DEF RemoveNodeFrom
<1> HIDE DEF cleared, q
<1>4. Holds(Detach(q, cleared).in, Detach(q, cleared).nin, d.in, lost)
  <2>1. q.nin = Len(d.in) /\ q.nin <= MaxChannels /\ Len(d.in) \in Nat
    BY SlotFacts DEF Holding, Holds, q
  <2>2. ASSUME NEW j \in 1 .. Len(d.in)
        PROVE  \/ Detach(q, cleared).in[j - 1] = d.in[j]
               \/ Detach(q, cleared).in[j - 1] = NoBuffer /\ d.in[j] \in lost
    <3>1. j - 1 \in Channels
      BY <2>1, SizeAssumption DEF Channels
    <3>2. \/ Detach(q, cleared).in[j - 1] = q.in[j - 1]
          \/ Detach(q, cleared).in[j - 1] = NoBuffer /\ q.in[j - 1] \in cleared
      <4>1. Detach(q, cleared).in
              = [c \in Channels |->
                   IF c < q.nin /\ q.in[c] \in cleared THEN NoBuffer ELSE q.in[c]]
        BY DEF Detach
      <4>2. PICK c \in Channels : c = j - 1
        BY <3>1
      <4> QED
        BY <4>1, <4>2
    <3>3. q.in[j - 1] = d.in[j] \/ (q.in[j - 1] = NoBuffer /\ d.in[j] \in lost)
      BY DEF Holding, Holds, q
    <3> QED
      BY <1>2, <3>2, <3>3
  <2>3. Detach(q, cleared).nin = q.nin
    BY DEF Detach
  <2> QED
    BY <2>1, <2>2, <2>3 DEF Holds
<1>5. Holds(Detach(q, cleared).out, Detach(q, cleared).nout, d.out, lost)
  <2>1. q.nout = Len(d.out) /\ q.nout <= MaxChannels /\ Len(d.out) \in Nat
    BY SlotFacts DEF Holding, Holds, q
  <2>2. ASSUME NEW j \in 1 .. Len(d.out)
        PROVE  \/ Detach(q, cleared).out[j - 1] = d.out[j]
               \/ Detach(q, cleared).out[j - 1] = NoBuffer /\ d.out[j] \in lost
    <3>1. j - 1 \in Channels
      BY <2>1, SizeAssumption DEF Channels
    <3>2. \/ Detach(q, cleared).out[j - 1] = q.out[j - 1]
          \/ Detach(q, cleared).out[j - 1] = NoBuffer /\ q.out[j - 1] \in cleared
      <4>1. Detach(q, cleared).out
              = [c \in Channels |->
                   IF c < q.nout /\ q.out[c] \in cleared THEN NoBuffer ELSE q.out[c]]
        BY DEF Detach
      <4>2. PICK c \in Channels : c = j - 1
        BY <3>1
      <4> QED
        BY <4>1, <4>2
    <3>3. q.out[j - 1] = d.out[j] \/ (q.out[j - 1] = NoBuffer /\ d.out[j] \in lost)
      BY DEF Holding, Holds, q
    <3> QED
      BY <1>2, <3>2, <3>3
  <2>3. Detach(q, cleared).nout = q.nout
    BY DEF Detach
  <2> QED
    BY <2>1, <2>2, <2>3 DEF Holds
<1> QED
  BY <1>3, <1>4, <1>5 DEF Holding, q

\* AddNode leaves a node without edges.
LEMMA AddNodeFacts ==
  ASSUME NEW g \in Graph, NEW n \in Nodes, NEW lost
  PROVE  LET h == AddNodeTo(g, n) IN
         /\ h \in Graph /\ SameBut(g, h, n)
         /\ Holds(h.routing[n].in, h.routing[n].nin, <<>>, lost)
         /\ Holds(h.routing[n].out, h.routing[n].nout, <<>>, lost)
<1>1. AddNodeTo(g, n) \in Graph
  BY AddNodeToType
<1>2. g.routing \in [Nodes -> Routing]
  BY DEF Graph
<1>3. SameBut(g, AddNodeTo(g, n), n)
  BY <1>2 DEF AddNodeTo, SameBut
<1>4. AddNodeTo(g, n).routing[n].nin = 0 /\ AddNodeTo(g, n).routing[n].nout = 0
  BY <1>2 DEF AddNodeTo
<1> QED
  BY <1>1, <1>3, <1>4, EmptyFacts DEF Holds

\* InputsWiredFacts and OutputsWiredFacts under a name.
LEMMA InputsWiredDone ==
  ASSUME NEW g \in Graph, NEW n \in Nodes, NEW have \in Seq(Buffers), NEW want \in Seq(Buffers),
         Len(want) <= MaxChannels, NEW lost,
         Holds(g.routing[n].in, g.routing[n].nin, have, lost)
  PROVE  InputsDone(g, InputsWired(g, n, have, want), n, have, want, lost)
  BY InputsWiredFacts DEF InputsDone

\* The outputs, likewise.
LEMMA OutputsWiredDone ==
  ASSUME NEW g \in Graph, NEW n \in Nodes, NEW have \in Seq(Buffers), NEW want \in Seq(Buffers),
         Len(want) <= MaxChannels, NEW lost,
         Holds(g.routing[n].out, g.routing[n].nout, have, lost)
  PROVE  OutputsDone(g, OutputsWired(g, n, have, want), n, have, want, lost)
  BY OutputsWiredFacts DEF OutputsDone

\* The edges of a slot, put where they are to be; only inputs can be too many then.
LEMMA WiredFacts ==
  ASSUME NEW g \in Graph, NEW n \in Nodes, NEW have \in Slot, NEW want \in Slot, NEW lost,
         Holding(g.routing[n], have, lost), Len(want.out) >= Len(have.out)
  PROVE  LET h == Wired(g, n, have, want)  r == h.routing[n] IN
         /\ h \in Graph /\ SameBut(g, h, n)
         /\ r.nin = AtLeast(Len(have.in), Len(want.in))
         /\ \A j \in 1 .. Len(want.in) : \/ r.in[j - 1] = want.in[j]
                                         \/ r.in[j - 1] = NoBuffer /\ want.in[j] \in lost
         /\ Holds(r.out, r.nout, want.out, lost)
<1>0. /\ have.in \in Seq(Buffers) /\ want.in \in Seq(Buffers) /\ Len(want.in) <= MaxChannels
      /\ have.out \in Seq(Buffers) /\ want.out \in Seq(Buffers)
      /\ Len(want.out) <= MaxChannels
      /\ Holds(g.routing[n].in, g.routing[n].nin, have.in, lost)
      /\ Holds(g.routing[n].out, g.routing[n].nout, have.out, lost)
  BY SlotFacts DEF Holding
<1> DEFINE x == InputsWired(g, n, have.in, want.in)
           h == OutputsWired(x, n, have.out, want.out)
<1>1. InputsDone(g, x, n, have.in, want.in, lost)
  BY <1>0, InputsWiredDone
<1>2. Wired(g, n, have, want) = h
  BY DEF Wired
<1> HIDE DEF x
<1>3. Holds(x.routing[n].out, x.routing[n].nout, have.out, lost) /\ x \in Graph
  BY <1>0, <1>1 DEF InputsDone
<1> QED
  <2>3. OutputsDone(x, h, n, have.out, want.out, lost)
    BY <1>0, <1>3, OutputsWiredDone
  <2> HIDE DEF h
  <2>4. AtLeast(Len(have.out), Len(want.out)) = Len(want.out)
    BY SlotFacts DEF AtLeast
  <2>6. SameBut(g, h, n)
    BY <1>1, <2>3 DEF InputsDone, OutputsDone, SameBut
  <2>7. Holds(h.routing[n].out, h.routing[n].nout, want.out, lost)
    BY <2>3, <2>4 DEF Holds, OutputsDone
  <2> QED
    BY <1>1, <1>2, <2>3, <2>6, <2>7 DEF InputsDone, OutputsDone

-----------------------------------------------------------------------------
\* A graph and the types of its slots.
Lives == [graph : Graph, types : [Nodes -> Kinds]]

\* Wiring inputs yields a graph, whatever the node held before.
LEMMA InputsWiredType ==
  ASSUME NEW g \in Graph, NEW n \in Nodes, NEW have \in Slot, NEW want \in Slot
  PROVE  InputsWired(g, n, have.in, want.in) \in Graph
<1>1. /\ have.in \in Seq(Buffers) /\ want.in \in Seq(Buffers)
      /\ Len(want.in) <= MaxChannels /\ Len(want.in) \in Nat
  BY SlotFacts
<1>2. PICK w \in [0 .. Len(want.in) -> Graph] :
        InputsWired(g, n, have.in, want.in) = w[Len(want.in)]
  BY <1>1, InputsWiredLoop, SMTT(30)
<1> QED
  BY <1>1, <1>2

\* Wiring outputs yields a graph, whatever the node held before.
LEMMA OutputsWiredType ==
  ASSUME NEW g \in Graph, NEW n \in Nodes, NEW have \in Slot, NEW want \in Slot
  PROVE  OutputsWired(g, n, have.out, want.out) \in Graph
<1>1. /\ have.out \in Seq(Buffers) /\ want.out \in Seq(Buffers)
      /\ Len(want.out) <= MaxChannels /\ Len(want.out) \in Nat
  BY SlotFacts
<1>2. PICK w \in [0 .. Len(want.out) -> Graph] :
        OutputsWired(g, n, have.out, want.out) = w[Len(want.out)]
  BY <1>1, OutputsWiredLoop, SMTT(30)
<1> QED
  BY <1>1, <1>2

\* Wiring a node yields a graph.
LEMMA WiredType ==
  ASSUME NEW g \in Graph, NEW n \in Nodes, NEW have \in Slot, NEW want \in Slot
  PROVE  Wired(g, n, have, want) \in Graph
  BY InputsWiredType, OutputsWiredType DEF Wired

\* Dropping inputs yields a graph.
LEMMA ExcessDroppedType ==
  ASSUME NEW g \in Graph, NEW n \in Nodes, NEW have \in Seq(Buffers), NEW want \in Seq(Buffers),
         Len(have) <= MaxChannels
  PROVE  ExcessDropped(g, n, have, want) \in Graph
<1>1. PICK w \in [0 .. AtLeast(Len(have) - Len(want), 0) -> Graph] :
        ExcessDropped(g, n, have, want) = w[AtLeast(Len(have) - Len(want), 0)]
  BY ExcessDroppedLoop
<1>2. AtLeast(Len(have) - Len(want), 0) \in 0 .. AtLeast(Len(have) - Len(want), 0)
  BY LenProperties DEF AtLeast
<1> QED
  BY <1>1, <1>2

\* An empty slot is a slot.
LEMMA EmptySlot == Empty \in Slot
  BY DEF Slot

\* The commands of one slot.
LEMMA SlotReconciledType ==
  ASSUME NEW live \in Lives, NEW n \in Nodes, NEW have \in Slot, NEW want \in Slot
  PROVE  /\ SlotReconciled(live, n, have, want) \in Lives
         /\ SlotReconciled(live, n, have, want).types = [live.types EXCEPT ![n] = want.type]
<1> DEFINE g == live.graph
           dropped == ExcessDropped(Wired(g, n, have, want), n, have.in, want.in)
           removed == RemoveNodeFrom(g, n, {m \in Nodes \ {n} : live.types[m] # "EMPTY"})
           h == SlotReconciled(live, n, have, want)
<1>1. g \in Graph /\ live.types \in [Nodes -> Kinds] /\ want.type \in Kinds
  BY SlotFacts DEF Lives
<1>2. Wired(g, n, have, want) \in Graph /\ dropped \in Graph
  BY <1>1, WiredType, ExcessDroppedType, SlotFacts
<1>3. Wired(AddNodeTo(g, n), n, have, want) \in Graph
  BY <1>1, AddNodeToType, WiredType
<1>4. removed \in Graph
  <2>1. {m \in Nodes \ {n} : live.types[m] # "EMPTY"} \in SUBSET (0 .. MaxNodes)
    BY SizeAssumption DEF Nodes
  <2> QED
    BY <1>1, <2>1, RemoveNodeFromType
<1>5. [live.types EXCEPT ![n] = want.type] \in [Nodes -> Kinds]
  BY <1>1
<1> HIDE DEF dropped, removed
<1>6. /\ have = Empty /\ want # Empty => h.graph = Wired(AddNodeTo(g, n), n, have, want)
      /\ have # Empty /\ want # Empty => h.graph = dropped
      /\ have # Empty /\ want = Empty => h.graph = removed
      /\ have = Empty /\ want = Empty => h.graph = g
  BY DEF SlotReconciled, dropped, removed
<1>7. h.graph \in Graph
  BY <1>1, <1>2, <1>3, <1>4, <1>6
<1>8. h = [graph |-> h.graph, types |-> [live.types EXCEPT ![n] = want.type]]
  BY DEF SlotReconciled
<1> HIDE DEF h
<1> QED
  BY <1>5, <1>7, <1>8 DEF Lives, h

-----------------------------------------------------------------------------
\* What WiredFacts says, and what is left to say once the excess inputs are gone.
WiringDone(g, h, n, have, want, lost) ==
    /\ h \in Graph /\ SameBut(g, h, n)
    /\ h.routing[n].nin = AtLeast(Len(have.in), Len(want.in))
    /\ \A j \in 1 .. Len(want.in) : \/ h.routing[n].in[j - 1] = want.in[j]
                                    \/ h.routing[n].in[j - 1] = NoBuffer /\ want.in[j] \in lost
    /\ Holds(h.routing[n].out, h.routing[n].nout, want.out, lost)

SlotDone(g, h, n, want, lost) == SameBut(g, h, n) /\ Holding(h.routing[n], want, lost)

\* WiredFacts under a name.
LEMMA WiringIsDone ==
  ASSUME NEW g \in Graph, NEW n \in Nodes, NEW have \in Slot, NEW want \in Slot, NEW lost,
         Holding(g.routing[n], have, lost), Len(want.out) >= Len(have.out)
  PROVE  WiringDone(g, Wired(g, n, have, want), n, have, want, lost)
  BY WiredFacts DEF WiringDone

\* A slot that is taken.
LEMMA SlotAdded ==
  ASSUME NEW g \in Graph, NEW n \in Nodes, NEW want \in Slot, NEW lost
  PROVE  SlotDone(g, Wired(AddNodeTo(g, n), n, Empty, want), n, want, lost)
<1> DEFINE a == AddNodeTo(g, n)
           h == Wired(a, n, Empty, want)
<1>1. a \in Graph /\ SameBut(g, a, n) /\ Holding(a.routing[n], Empty, lost)
  BY AddNodeFacts, EmptyFacts DEF Holding
<1>2. Len(want.out) >= Len(Empty.out) /\ AtLeast(Len(Empty.in), Len(want.in)) = Len(want.in)
  BY SlotFacts, EmptyFacts DEF AtLeast
<1> HIDE DEF a
<1>3. WiringDone(a, h, n, Empty, want, lost)
  BY <1>1, <1>2, WiringIsDone, EmptySlot
<1> HIDE DEF h
<1>4. SameBut(g, h, n)
  BY <1>1, <1>3 DEF WiringDone, SameBut
<1>5. Holds(h.routing[n].in, h.routing[n].nin, want.in, lost)
  BY <1>2, <1>3 DEF WiringDone, Holds
<1>6. SlotDone(g, h, n, want, lost)
  BY <1>3, <1>4, <1>5 DEF WiringDone, SlotDone, Holding
<1> QED
  BY <1>6 DEF h, a

\* A slot whose node changes.
LEMMA SlotChanged ==
  ASSUME NEW g \in Graph, NEW n \in Nodes, NEW have \in Slot, NEW want \in Slot, NEW lost,
         Holding(g.routing[n], have, lost), Len(want.out) >= Len(have.out)
  PROVE  SlotDone(g, ExcessDropped(Wired(g, n, have, want), n, have.in, want.in), n, want, lost)
<1> DEFINE a == Wired(g, n, have, want)
           h == ExcessDropped(a, n, have.in, want.in)
<1>1. WiringDone(g, a, n, have, want, lost)
  BY WiringIsDone
<1> HIDE DEF a
<1>2. /\ have.in \in Seq(Buffers) /\ want.in \in Seq(Buffers) /\ Len(have.in) <= MaxChannels
      /\ Len(want.in) \in Nat /\ Len(want.in) <= MaxChannels
  BY SlotFacts
<1>3. a \in Graph /\ a.routing[n].nin = AtLeast(Len(have.in), Len(want.in))
  BY <1>1 DEF WiringDone
<1>4. /\ h \in Graph /\ SameBut(a, h, n)
      /\ h.routing[n].out = a.routing[n].out /\ h.routing[n].nout = a.routing[n].nout
      /\ h.routing[n].nin = Len(want.in)
      /\ \A j \in 1 .. Len(want.in) : j <= MaxChannels =>
           h.routing[n].in[j - 1] = a.routing[n].in[j - 1]
  BY <1>2, <1>3, ExcessDroppedFacts
<1> HIDE DEF h
<1>5. SameBut(g, h, n)
  BY <1>1, <1>4 DEF WiringDone, SameBut
<1>6. Holds(h.routing[n].in, h.routing[n].nin, want.in, lost)
  <2>1. ASSUME NEW j \in 1 .. Len(want.in)
        PROVE  \/ h.routing[n].in[j - 1] = want.in[j]
               \/ h.routing[n].in[j - 1] = NoBuffer /\ want.in[j] \in lost
    <3>1. h.routing[n].in[j - 1] = a.routing[n].in[j - 1]
      <4>1. j <= MaxChannels
        BY <1>2, SizeAssumption
      <4> QED
        BY <1>4, <4>1
    <3>2. \/ a.routing[n].in[j - 1] = want.in[j]
          \/ a.routing[n].in[j - 1] = NoBuffer /\ want.in[j] \in lost
      BY <1>1 DEF WiringDone
    <3> QED
      BY <3>1, <3>2
  <2> QED
    BY <1>4, <2>1 DEF Holds
<1>7. SlotDone(g, h, n, want, lost)
  BY <1>1, <1>4, <1>5, <1>6 DEF WiringDone, SlotDone, Holding
<1> QED
  BY <1>7 DEF h, a

\* What the commands of one slot leave: its own node as wanted, but for the buffers in
\* lost, and every other node as it was, but for those.
LEMMA SlotReconciledFacts ==
  ASSUME NEW live \in Lives, NEW n \in Nodes, NEW have \in Slot, NEW want \in Slot, NEW lost,
         have # Empty => Holding(live.graph.routing[n], have, lost),
         have # Empty /\ want # Empty => Len(want.out) >= Len(have.out),
         have # Empty /\ want = Empty => Uses(have) \ {NoBuffer} \subseteq lost
  PROVE  LET r == SlotReconciled(live, n, have, want).graph.routing IN
         /\ want # Empty => Holding(r[n], want, lost)
         /\ \A m \in Nodes \ {n}, d \in Slot :
              Holding(live.graph.routing[m], d, lost) => Holding(r[m], d, lost)
<1> DEFINE g == live.graph
           h == SlotReconciled(live, n, have, want).graph
           Kept1 == \A m \in Nodes \ {n}, d \in Slot :
                      Holding(g.routing[m], d, lost) => Holding(h.routing[m], d, lost)
<1>1. g \in Graph
  BY DEF Lives
<1>2. SameBut(g, h, n) => Kept1
  BY DEF SameBut
<1>3. CASE have = Empty /\ want # Empty
  <2>1. h = Wired(AddNodeTo(g, n), n, Empty, want)
    BY <1>3 DEF SlotReconciled
  <2>2. SlotDone(g, h, n, want, lost)
    BY <1>1, <2>1, SlotAdded
  <2> QED
    BY <1>2, <2>2 DEF SlotDone
<1>4. CASE have # Empty /\ want # Empty
  <2>1. h = ExcessDropped(Wired(g, n, have, want), n, have.in, want.in)
    BY <1>4 DEF SlotReconciled
  <2>2. SlotDone(g, h, n, want, lost)
    BY <1>1, <1>4, <2>1, SlotChanged
  <2> QED
    BY <1>2, <2>2 DEF SlotDone
<1>5. CASE have # Empty /\ want = Empty
  <2> DEFINE occupied == {m \in Nodes \ {n} : live.types[m] # "EMPTY"}
  <2>1. h = RemoveNodeFrom(g, n, occupied)
    BY <1>5 DEF SlotReconciled
  <2>2. occupied \in SUBSET (0 .. MaxNodes)
    BY SizeAssumption DEF Nodes
  <2> HIDE DEF occupied
  <2>3. Kept1
    BY <1>1, <1>5, <2>1, <2>2, RemoveKeeps
  <2> QED
    BY <1>5, <2>3
<1>6. CASE have = Empty /\ want = Empty
  BY <1>6 DEF SlotReconciled
<1> QED
  BY <1>3, <1>4, <1>5, <1>6

-----------------------------------------------------------------------------
\* A function on 1 .. k is a sequence of length k.
LEMMA SequenceOf ==
  ASSUME NEW S, NEW k \in Nat, NEW f \in [1 .. k -> S]
  PROVE  f \in Seq(S) /\ Len(f) = k
<1>1. f \in Seq(S)
  OBVIOUS
<1>2. DOMAIN f = 1 .. Len(f) /\ Len(f) \in Nat /\ DOMAIN f = 1 .. k
  BY <1>1, LenProperties
<1> QED
  BY <1>1, <1>2

\* The desired-state view of a graph.
LEMMA ViewType ==
  ASSUME NEW live \in Lives
  PROVE  FromLive(live.graph, live.types) \in [Nodes -> Slot]
<1> DEFINE D == FromLive(live.graph, live.types)
<1>1. live.graph.routing \in [Nodes -> Routing] /\ live.types \in [Nodes -> Kinds]
  BY DEF Lives, Graph
<1>2. ASSUME NEW n \in Nodes PROVE D[n] \in Slot
  <2> DEFINE r == live.graph.routing[n]
             a == [j \in 1 .. r.nin |-> r.in[j - 1]]
             b == [j \in 1 .. r.nout |-> r.out[j - 1]]
  <2>1. /\ r.in \in [Channels -> Buffers] /\ r.nin \in 0 .. MaxChannels
        /\ r.out \in [Channels -> Buffers] /\ r.nout \in 0 .. MaxChannels
    BY <1>1 DEF Routing
  <2>2. D[n] = IF live.types[n] = "EMPTY" THEN Empty
               ELSE [type |-> live.types[n], in |-> a, out |-> b]
    BY DEF FromLive
  <2> HIDE DEF r
  <2>3. r.nin \in Nat /\ r.nout \in Nat
    BY <2>1, SizeAssumption
  <2>4. a \in Seq(Buffers) /\ Len(a) = r.nin
    <3>1. \A j \in 1 .. r.nin : j - 1 \in Channels
      BY <2>1, SizeAssumption DEF Channels
    <3>2. a \in [1 .. r.nin -> Buffers]
      BY <2>1, <3>1
    <3> QED
      BY <2>3, <3>2, SequenceOf
  <2>5. b \in Seq(Buffers) /\ Len(b) = r.nout
    <3>1. \A j \in 1 .. r.nout : j - 1 \in Channels
      BY <2>1, SizeAssumption DEF Channels
    <3>2. b \in [1 .. r.nout -> Buffers]
      BY <2>1, <3>1
    <3> QED
      BY <2>3, <3>2, SequenceOf
  <2> HIDE DEF a, b
  <2>6. CASE live.types[n] = "EMPTY"
    BY <2>2, <2>6, EmptySlot
  <2>7. CASE live.types[n] # "EMPTY"
    <3>1. D[n] = [type |-> live.types[n], in |-> a, out |-> b]
      BY <2>2, <2>7
    <3>2. live.types[n] \in Types
      BY <1>1, <2>7 DEF Kinds
    <3>3. D[n] \in DesiredNode
      BY <2>4, <2>5, <3>1, <3>2 DEF DesiredNode
    <3>4. Len(D[n].in) <= MaxChannels /\ Len(D[n].out) <= MaxChannels
      BY <2>1, <2>4, <2>5, <3>1, SizeAssumption
    <3> QED
      BY <3>3, <3>4 DEF Slot
  <2> QED
    BY <2>6, <2>7
<1>3. D = [n \in Nodes |-> D[n]]
  BY DEF FromLive
<1> HIDE DEF D
<1>4. D \in [Nodes -> Slot]
  BY <1>2, <1>3
<1> QED
  BY <1>4 DEF D

\* The view of a slot holds what the slot holds, and is empty if the slot is.
LEMMA ViewFacts ==
  ASSUME NEW live \in Lives, NEW n \in Nodes
  PROVE  LET d == FromLive(live.graph, live.types)[n]
             r == live.graph.routing[n] IN
         /\ d.type = live.types[n]
         /\ d # Empty => /\ \A lost : Holding(r, d, lost)
                         /\ \A j \in 1 .. Len(d.in)  : d.in[j]  = r.in[j - 1]
                         /\ \A j \in 1 .. Len(d.out) : d.out[j] = r.out[j - 1]
                         /\ Len(d.in) = r.nin /\ Len(d.out) = r.nout
<1> DEFINE d == FromLive(live.graph, live.types)[n]
           r == live.graph.routing[n]
           a == [j \in 1 .. r.nin |-> r.in[j - 1]]
           b == [j \in 1 .. r.nout |-> r.out[j - 1]]
<1>1. r.nin \in Nat /\ r.nout \in Nat
  BY SizeAssumption DEF Lives, Graph, Routing
<1>2. d = IF live.types[n] = "EMPTY" THEN Empty
          ELSE [type |-> live.types[n], in |-> a, out |-> b]
  BY DEF FromLive
<1> HIDE DEF d, r
<1>3. CASE live.types[n] = "EMPTY"
  BY <1>2, <1>3, EmptyFacts DEF d, r
<1>4. CASE live.types[n] # "EMPTY"
  <2>1. Len(a) = r.nin /\ Len(b) = r.nout
    BY <1>1
  <2>2. /\ \A j \in 1 .. r.nin : a[j] = r.in[j - 1]
        /\ \A j \in 1 .. r.nout : b[j] = r.out[j - 1]
    OBVIOUS
  <2> HIDE DEF a, b
  <2>3. d.type = live.types[n] /\ d.in = a /\ d.out = b
    BY <1>2, <1>4
  <2>4. \A lost : Holding(r, d, lost)
    BY <2>1, <2>2, <2>3 DEF Holding, Holds
  <2> QED
    BY <2>1, <2>2, <2>3, <2>4 DEF d, r
<1> QED
  BY <1>3, <1>4

-----------------------------------------------------------------------------
\* A reconciliation goes through the slots one after another.
LEMMA ReconciledLoop ==
  ASSUME NEW live \in Lives, NEW current \in [Nodes -> Slot], NEW wanted \in [Nodes -> Slot],
         current = FromLive(live.graph, live.types)
  PROVE  \E w \in [0 .. MaxNodes -> Lives] :
           /\ Reconciled(live, wanted) = w[MaxNodes]
           /\ \A j \in 0 .. MaxNodes : w[j] = IF j = 0 THEN live
                ELSE SlotReconciled(w[j - 1], j - 1, current[j - 1], wanted[j - 1])
<1> DEFINE k == MaxNodes
           Step == [j \in 1 .. k |-> [x \in Lives |->
                      SlotReconciled(x, j - 1, current[j - 1], wanted[j - 1])]]
           Runs(f) == f = [j \in 0 .. k |->
                            IF j = 0 THEN live
                            ELSE SlotReconciled(f[j - 1], j - 1, current[j - 1], wanted[j - 1])]
           upTo == CHOOSE f : Runs(f)
<1>1. k \in Nat
  BY SizeAssumption
<1>2. \A j \in 1 .. k : j - 1 \in Nodes /\ current[j - 1] \in Slot /\ wanted[j - 1] \in Slot
  <2>1. \A j \in 1 .. k : j - 1 \in Nodes
    BY <1>1 DEF Nodes
  <2> QED
    BY <2>1
<1>3. Step \in [1 .. k -> [Lives -> Lives]]
  BY <1>2, SlotReconciledType
<1>4. \E f \in [0 .. k -> Lives] : Runs(f)
  <2>1. PICK f \in [0 .. k -> Lives] : Loop(f, live, k, Step)
    <3> HIDE DEF Step
    <3> QED
      BY <1>1, <1>3, LoopResult
  <2>2. ASSUME NEW j \in 0 .. k
        PROVE  f[j] = IF j = 0 THEN live
                      ELSE SlotReconciled(f[j - 1], j - 1, current[j - 1], wanted[j - 1])
    <3>1. CASE j = 0
      BY <2>1, <3>1 DEF Loop
    <3>2. CASE j # 0
      <4>1. j \in 1 .. k /\ f[j - 1] \in Lives
        BY <1>1, <3>2
      <4> QED
        BY <2>1, <3>2, <4>1 DEF Loop
    <3> QED
      BY <3>1, <3>2
  <2> QED
    BY <2>2
<1>5. Runs(upTo)
  <2> HIDE DEF Runs
  <2> QED
    BY <1>4
<1>6. Reconciled(live, wanted) = upTo[k]
  BY DEF Reconciled
<1>7. DOMAIN upTo = 0 .. k /\ \A j \in 0 .. k : upTo[j] =
        IF j = 0 THEN live
        ELSE SlotReconciled(upTo[j - 1], j - 1, current[j - 1], wanted[j - 1])
  <2> HIDE DEF upTo
  <2> QED
    BY <1>1, <1>5
<1>8. \A j \in 1 .. k : upTo[j - 1] \in Lives => upTo[j] = Step[j][upTo[j - 1]]
  <2> HIDE DEF upTo
  <2> QED
    BY <1>1, <1>7
<1>9. \A j \in 0 .. k : upTo[j] \in Lives
  <2> HIDE DEF upTo
  <2>1. upTo[0] \in Lives
    BY <1>1, <1>7
  <2> HIDE DEF Step, k
  <2> QED
    BY <1>1, <1>3, <1>8, <2>1, LoopTyped
<1>10. upTo = [j \in 0 .. k |-> upTo[j]]
  BY <1>5
<1> QED
  BY <1>6, <1>7, <1>9, <1>10, Zenon

\* What a reconciliation may ask of each slot: no fewer outputs than a node has now, and
\* a node can only be removed if losing its buffers is accounted for.
Feasible(current, wanted, lost) ==
    \A n \in Nodes :
        /\ current[n] # Empty /\ wanted[n] # Empty => Len(wanted[n].out) >= Len(current[n].out)
        /\ current[n] # Empty /\ wanted[n] = Empty => Uses(current[n]) \ {NoBuffer} \subseteq lost

\* After the commands of the slots below i.
PartDone(live, i, current, wanted, lost) ==
    /\ \A n \in Nodes :
          n < i => /\ live.types[n] = wanted[n].type
                   /\ wanted[n] # Empty => Holding(live.graph.routing[n], wanted[n], lost)
    /\ \A n \in Nodes :
          n >= i /\ current[n] # Empty => Holding(live.graph.routing[n], current[n], lost)

\* The commands of one slot leave the slots before it done and those after it as they
\* were, but for lost buffers.
LEMMA PartDoneStep ==
  ASSUME NEW live \in Lives, NEW n \in Nodes, NEW lost,
         NEW current \in [Nodes -> Slot], NEW wanted \in [Nodes -> Slot],
         Feasible(current, wanted, lost), PartDone(live, n, current, wanted, lost)
  PROVE  PartDone(SlotReconciled(live, n, current[n], wanted[n]), n + 1, current, wanted, lost)
<1> DEFINE next == SlotReconciled(live, n, current[n], wanted[n])
<1>1. n \in Nat
  BY DEF Nodes
<1>2. next.types = [live.types EXCEPT ![n] = wanted[n].type]
  BY SlotReconciledType
<1>3. /\ current[n] # Empty => Holding(live.graph.routing[n], current[n], lost)
      /\ current[n] # Empty /\ wanted[n] # Empty => Len(wanted[n].out) >= Len(current[n].out)
      /\ current[n] # Empty /\ wanted[n] = Empty => Uses(current[n]) \ {NoBuffer} \subseteq lost
  BY <1>1 DEF PartDone, Feasible
<1>4. /\ wanted[n] # Empty => Holding(next.graph.routing[n], wanted[n], lost)
      /\ \A m \in Nodes \ {n}, d \in Slot :
           Holding(live.graph.routing[m], d, lost) => Holding(next.graph.routing[m], d, lost)
  BY <1>3, SlotReconciledFacts
<1> HIDE DEF next
<1>5. ASSUME NEW m \in Nodes, m < n + 1
      PROVE  /\ next.types[m] = wanted[m].type
             /\ wanted[m] # Empty => Holding(next.graph.routing[m], wanted[m], lost)
  <2>1. CASE m = n
    BY <1>2, <1>4, <2>1 DEF Lives
  <2>2. CASE m # n
    <3>1. m < n
      BY <1>1, <1>5, <2>2 DEF Nodes
    <3>2. /\ live.types[m] = wanted[m].type
          /\ wanted[m] # Empty => Holding(live.graph.routing[m], wanted[m], lost)
      BY <3>1 DEF PartDone
    <3> QED
      BY <1>2, <1>4, <2>2, <3>2 DEF Lives
  <2> QED
    BY <2>1, <2>2
<1>6. ASSUME NEW m \in Nodes, m >= n + 1, current[m] # Empty
      PROVE  Holding(next.graph.routing[m], current[m], lost)
  <2>1. m # n /\ m >= n
    BY <1>1, <1>6 DEF Nodes
  <2>2. Holding(live.graph.routing[m], current[m], lost)
    BY <1>6, <2>1 DEF PartDone
  <2> QED
    BY <1>4, <2>1, <2>2
<1>7. PartDone(next, n + 1, current, wanted, lost)
  BY <1>5, <1>6 DEF PartDone
<1> QED
  BY <1>7 DEF next

\* A reconciliation leaves every slot wired as wanted, but for the buffers of the nodes
\* it removed.
LEMMA ReconciledFacts ==
  ASSUME NEW live \in Lives, NEW wanted \in [Nodes -> Slot], NEW lost,
         Feasible(FromLive(live.graph, live.types), wanted, lost)
  PROVE  LET after == Reconciled(live, wanted) IN
         /\ after \in Lives
         /\ \A n \in Nodes : /\ after.types[n] = wanted[n].type
                             /\ wanted[n] # Empty =>
                                  Holding(after.graph.routing[n], wanted[n], lost)
<1> DEFINE current == FromLive(live.graph, live.types)
<1>1. current \in [Nodes -> Slot] /\ MaxNodes \in Nat
  BY ViewType, SizeAssumption
<1>2. PICK w \in [0 .. MaxNodes -> Lives] :
        /\ Reconciled(live, wanted) = w[MaxNodes]
        /\ \A j \in 0 .. MaxNodes : w[j] = IF j = 0 THEN live
             ELSE SlotReconciled(w[j - 1], j - 1, current[j - 1], wanted[j - 1])
  BY <1>1, ReconciledLoop
<1> DEFINE T == {i \in Nat : i <= MaxNodes => PartDone(w[i], i, current, wanted, lost)}
<1>3. 0 \in T
  <2>1. w[0] = live
    BY <1>1, <1>2
  <2>2. \A n \in Nodes : current[n] # Empty => Holding(live.graph.routing[n], current[n], lost)
    BY ViewFacts
  <2>3. \A n \in Nodes : ~(n < 0)
    BY DEF Nodes
  <2> QED
    BY <2>1, <2>2, <2>3 DEF PartDone
<1>4. ASSUME NEW i \in Nat, i \in T PROVE i + 1 \in T
  <2> SUFFICES ASSUME i + 1 <= MaxNodes
               PROVE  PartDone(w[i + 1], i + 1, current, wanted, lost)
    OBVIOUS
  <2>1. i \in Nodes /\ PartDone(w[i], i, current, wanted, lost) /\ w[i] \in Lives
    BY <1>1, <1>4 DEF Nodes
  <2>2. w[i + 1] = SlotReconciled(w[i], i, current[i], wanted[i])
    <3>1. i + 1 \in 0 .. MaxNodes /\ i + 1 # 0 /\ i + 1 - 1 = i
      BY <1>1
    <3> QED
      BY <1>2, <3>1
  <2> HIDE DEF current
  <2> QED
    BY <1>1, <2>1, <2>2, PartDoneStep DEF current
<1> HIDE DEF T
<1>5. MaxNodes \in T
  BY <1>1, <1>3, <1>4, SetInduction
<1>6. PartDone(w[MaxNodes], MaxNodes, current, wanted, lost)
  BY <1>1, <1>5 DEF T
<1>7. \A n \in Nodes : n < MaxNodes
  BY <1>1 DEF Nodes
<1> QED
  BY <1>1, <1>2, <1>6, <1>7 DEF PartDone

-----------------------------------------------------------------------------
\* s is w with some of the buffers in lost replaced by none.
Faded(s, w, lost) ==
    /\ Len(s) = Len(w)
    /\ \A j \in 1 .. Len(w) : s[j] = w[j] \/ (s[j] = NoBuffer /\ w[j] \in lost)

\* d is what was wanted, but for buffers in lost.
Near(d, w, lost) == d.type = w.type /\ Faded(d.in, w.in, lost) /\ Faded(d.out, w.out, lost)

\* What fading can do to the buffers a sequence names.
LEMMA FadedFacts ==
  ASSUME NEW s \in Seq(Buffers), NEW w \in Seq(Buffers), NEW lost, Faded(s, w, lost)
  PROVE  /\ Members(s) \subseteq Members(w) \cup {NoBuffer}
         /\ Members(w) \subseteq Members(s) \cup lost
         /\ Members(w) \cap lost = {} => s = w
<1>1. /\ Len(s) \in Nat /\ DOMAIN s = 1 .. Len(s) /\ Len(w) = Len(s) /\ DOMAIN w = 1 .. Len(w)
  BY LenProperties DEF Faded
<1>2. \A j \in 1 .. Len(w) : s[j] = w[j] \/ (s[j] = NoBuffer /\ w[j] \in lost)
  BY DEF Faded
<1>3. ASSUME Members(w) \cap lost = {} PROVE s = w
  <2>1. \A j \in 1 .. Len(w) : s[j] = w[j]
    BY <1>1, <1>2, <1>3 DEF Members
  <2> QED
    BY <1>1, <2>1, SeqEqual
<1>4. Members(s) \subseteq Members(w) \cup {NoBuffer}
  BY <1>1, <1>2 DEF Members
<1>5. Members(w) \subseteq Members(s) \cup lost
  BY <1>1, <1>2 DEF Members
<1> QED
  BY <1>3, <1>4, <1>5

\* A slot is determined by its type, inputs and outputs.
LEMMA SlotIsNode ==
  ASSUME NEW d \in Slot
  PROVE  d = [type |-> d.type, in |-> d.in, out |-> d.out]
<1>1. CASE d = Empty
  BY <1>1 DEF Empty
<1>2. CASE d \in DesiredNode
  BY <1>2 DEF DesiredNode
<1> QED
  BY <1>1, <1>2 DEF Slot

\* A slot that uses nothing of what is lost is exactly as wanted.
LEMMA NearExact ==
  ASSUME NEW d \in Slot, NEW w \in Slot, NEW lost, Near(d, w, lost), Uses(w) \cap lost = {}
  PROVE  d = w
<1>1. d.in = w.in /\ d.out = w.out /\ d.type = w.type
  <2>1. /\ d.in \in Seq(Buffers) /\ w.in \in Seq(Buffers)
        /\ d.out \in Seq(Buffers) /\ w.out \in Seq(Buffers)
    BY SlotFacts
  <2>2. Members(w.in) \cap lost = {} /\ Members(w.out) \cap lost = {}
    BY DEF Uses
  <2>3. Faded(d.in, w.in, lost) /\ Faded(d.out, w.out, lost) /\ d.type = w.type
    BY DEF Near
  <2>4. d.in = w.in
    BY <2>1, <2>2, <2>3, FadedFacts
  <2>5. d.out = w.out
    BY <2>1, <2>2, <2>3, FadedFacts
  <2> QED
    BY <2>3, <2>4, <2>5
<1> QED
  BY <1>1, SlotIsNode

\* The view of what a reconciliation makes of a graph.
LEMMA ReconciledView ==
  ASSUME NEW live \in Lives, NEW wanted \in [Nodes -> Slot], NEW lost,
         Feasible(FromLive(live.graph, live.types), wanted, lost)
  PROVE  LET after == Reconciled(live, wanted) IN
         /\ after \in Lives
         /\ \A n \in Nodes : Near(FromLive(after.graph, after.types)[n], wanted[n], lost)
<1> DEFINE after == Reconciled(live, wanted)
<1>1. /\ after \in Lives
      /\ \A n \in Nodes : /\ after.types[n] = wanted[n].type
                          /\ wanted[n] # Empty =>
                               Holding(after.graph.routing[n], wanted[n], lost)
  BY ReconciledFacts
<1> HIDE DEF after
<1>2. ASSUME NEW n \in Nodes
      PROVE  Near(FromLive(after.graph, after.types)[n], wanted[n], lost)
  <2> DEFINE d == FromLive(after.graph, after.types)[n]
             r == after.graph.routing[n]
             w == wanted[n]
  <2>1. d \in Slot /\ w \in Slot
    BY <1>1, ViewType
  <2>2. /\ d.type = w.type
        /\ d # Empty => /\ \A j \in 1 .. Len(d.in)  : d.in[j]  = r.in[j - 1]
                        /\ \A j \in 1 .. Len(d.out) : d.out[j] = r.out[j - 1]
                        /\ Len(d.in) = r.nin /\ Len(d.out) = r.nout
    BY <1>1, ViewFacts
  <2>3. w # Empty => Holding(r, w, lost)
    BY <1>1
  <2> HIDE DEF d, r, w
  <2>4. d # Empty <=> w # Empty
    BY <2>1, <2>2, SlotFacts
  <2>5. CASE w = Empty
    <3>1. d = Empty
      BY <2>4, <2>5
    <3>2. Near(Empty, Empty, lost)
      BY EmptyFacts DEF Near, Faded
    <3> QED
      BY <2>5, <3>1, <3>2 DEF d, w
  <2>6. CASE w # Empty
    <3>1. Faded(d.in, w.in, lost)
      BY <2>2, <2>3, <2>4, <2>6 DEF Faded, Holding, Holds
    <3>2. Faded(d.out, w.out, lost)
      BY <2>2, <2>3, <2>4, <2>6 DEF Faded, Holding, Holds
    <3> QED
      BY <2>2, <3>1, <3>2 DEF Near, d, w
  <2> QED
    BY <2>5, <2>6 DEF d, w
<1> QED
  BY <1>1, <1>2 DEF after

-----------------------------------------------------------------------------
\* What a reconciliation needs to know of the session.
Typed == graph \in Graph /\ types \in [Nodes -> Kinds]

\* The view of the live graph is a desired state.
LEMMA LiveType ==
  ASSUME Typed
  PROVE  Live \in [Nodes -> Slot] /\ \A n \in Nodes : Live[n].type = types[n]
<1> DEFINE live == [graph |-> graph, types |-> types]
<1>1. live \in Lives /\ live.graph = graph /\ live.types = types
  BY DEF Typed, Lives
<1> HIDE DEF live
<1>2. FromLive(live.graph, live.types) \in [Nodes -> Slot]
  BY <1>1, ViewType
<1>3. \A n \in Nodes : FromLive(live.graph, live.types)[n].type = live.types[n]
  BY <1>1, ViewFacts
<1> QED
  BY <1>1, <1>2, <1>3 DEF Live

\* An edit leaves the session as it was wanted, but for the buffers of removed nodes.
LEMMA ApplyFacts ==
  ASSUME Typed, NEW wanted \in [Nodes -> Slot], NEW lost, Feasible(Live, wanted, lost),
         ApplyReconciled(wanted)
  PROVE  /\ Typed' /\ target' = wanted
         /\ Live' \in [Nodes -> Slot] /\ \A n \in Nodes : Live'[n].type = types'[n]
         /\ \A n \in Nodes : Near(Live'[n], wanted[n], lost)
<1> DEFINE live == [graph |-> graph, types |-> types]
           after == Reconciled(live, wanted)
<1>1. live \in Lives /\ live.graph = graph /\ live.types = types
  BY DEF Typed, Lives
<1>2. graph' = after.graph /\ types' = after.types /\ target' = wanted
  BY DEF ApplyReconciled
<1> HIDE DEF live
<1>3. Feasible(FromLive(live.graph, live.types), wanted, lost)
  BY <1>1 DEF Live
<1>4. /\ after \in Lives
      /\ \A n \in Nodes : Near(FromLive(after.graph, after.types)[n], wanted[n], lost)
  BY <1>1, <1>3, ReconciledView
<1>5. Typed'
  BY <1>2, <1>4 DEF Typed, Lives
<1>6. Live' = FromLive(after.graph, after.types)
  BY <1>2 DEF Live
<1>7. FromLive(after.graph, after.types) \in [Nodes -> Slot]
  BY <1>4, ViewType
<1>8. \A n \in Nodes : FromLive(after.graph, after.types)[n].type = after.types[n]
  BY <1>4, ViewFacts
<1> QED
  BY <1>2, <1>4, <1>5, <1>6, <1>7, <1>8

-----------------------------------------------------------------------------
\* No buffer twice.
NoRepeats(s) == \A i, j \in DOMAIN s : s[i] = s[j] => i = j

\* One more member at the end.
LEMMA AppendFacts ==
  ASSUME NEW s \in Seq(Buffers), NEW b \in Buffers
  PROVE  /\ Append(s, b) \in Seq(Buffers) /\ Len(Append(s, b)) = Len(s) + 1
         /\ Members(Append(s, b)) = Members(s) \cup {b}
         /\ NoRepeats(s) /\ b \notin Members(s) => NoRepeats(Append(s, b))
         /\ \A j \in 1 .. Len(s) : Append(s, b)[j] = s[j]
         /\ Append(s, b)[Len(s) + 1] = b
<1> DEFINE t == Append(s, b)
<1>1. t \in Seq(Buffers) /\ Len(t) = Len(s) + 1 /\ Len(s) \in Nat
  BY LenProperties
<1>2. DOMAIN s = 1 .. Len(s) /\ DOMAIN t = 1 .. Len(s) + 1
  BY <1>1, LenProperties
<1>3. (\A j \in 1 .. Len(s) : t[j] = s[j]) /\ t[Len(s) + 1] = b
  BY <1>1, AppendProperties
<1> HIDE DEF t
<1>4. 1 .. Len(s) + 1 = (1 .. Len(s)) \cup {Len(s) + 1}
  BY <1>1
<1>5. Members(t) = Members(s) \cup {b}
  BY <1>2, <1>3, <1>4 DEF Members
<1>6. ASSUME NoRepeats(s), b \notin Members(s) PROVE NoRepeats(t)
  BY <1>1, <1>2, <1>3, <1>4, <1>6 DEF NoRepeats, Members
<1> QED
  BY <1>1, <1>3, <1>5, <1>6 DEF t

\* w[j] is what the first j inputs leave.
Keeping(w, in, orphaned) ==
    /\ w \in [0 .. Len(in) -> Seq(Buffers)] /\ w[0] = <<>>
    /\ \A j \in 1 .. Len(in) : w[j] =
         IF in[j] \in orphaned THEN w[j - 1] ELSE Append(w[j - 1], in[j])

\* Dropping the orphaned inputs goes through them one after another.
LEMMA KeptLoop ==
  ASSUME NEW in \in Seq(Buffers), NEW orphaned
  PROVE  \E w : Keeping(w, in, orphaned) /\ Kept(in, orphaned) = w[Len(in)]
<1> DEFINE k == Len(in)
           S == Seq(Buffers)
           Step == [j \in 1 .. k |-> [x \in S |->
                      IF in[j] \in orphaned THEN x ELSE Append(x, in[j])]]
           Runs(f) == f = [j \in 0 .. k |->
                            IF j = 0 THEN <<>>
                            ELSE IF in[j] \in orphaned
                                 THEN f[j - 1] ELSE Append(f[j - 1], in[j])]
           kept == CHOOSE f : Runs(f)
<1>1. k \in Nat /\ <<>> \in S
  BY LenProperties, EmptyFacts
<1>2. \A j \in 1 .. k : in[j] \in Buffers
  BY <1>1, ElementOfSeq
<1>3. Step \in [1 .. k -> [S -> S]]
  <2>1. \A j \in 1 .. k, x \in S :
          (IF in[j] \in orphaned THEN x ELSE Append(x, in[j])) \in S
    BY <1>2, AppendFacts
  <2> QED
    BY <2>1
<1>4. \E f \in [0 .. k -> S] : Runs(f)
  <2>1. PICK f \in [0 .. k -> S] : Loop(f, <<>>, k, Step)
    <3> HIDE DEF Step, S
    <3> QED
      BY <1>1, <1>3, LoopResult
  <2>2. ASSUME NEW j \in 0 .. k
        PROVE  f[j] = IF j = 0 THEN <<>>
                      ELSE IF in[j] \in orphaned THEN f[j - 1] ELSE Append(f[j - 1], in[j])
    <3>1. CASE j = 0
      BY <2>1, <3>1 DEF Loop
    <3>2. CASE j # 0
      <4>1. j \in 1 .. k /\ f[j - 1] \in S
        BY <1>1, <3>2
      <4>2. f[j] = Step[j][f[j - 1]]
        BY <2>1, <3>2 DEF Loop
      <4> HIDE DEF S
      <4> QED
        BY <3>2, <4>1, <4>2
    <3> QED
      BY <3>1, <3>2
  <2> QED
    BY <2>2
<1>5. Runs(kept)
  <2> HIDE DEF Runs
  <2> QED
    BY <1>4
<1>6. Kept(in, orphaned) = kept[k]
  BY DEF Kept
<1>7. DOMAIN kept = 0 .. k /\ \A j \in 0 .. k : kept[j] =
        IF j = 0 THEN <<>>
        ELSE IF in[j] \in orphaned THEN kept[j - 1] ELSE Append(kept[j - 1], in[j])
  <2> HIDE DEF kept
  <2> QED
    BY <1>1, <1>5
<1> HIDE DEF kept, Runs
<1>8. kept[0] = <<>> /\ \A j \in 1 .. k : kept[j] =
        IF in[j] \in orphaned THEN kept[j - 1] ELSE Append(kept[j - 1], in[j])
  <2>1. 0 \in 0 .. k /\ \A j \in 1 .. k : j \in 0 .. k /\ j # 0
    BY <1>1
  <2> HIDE DEF k
  <2> QED
    BY <1>7, <2>1, Zenon
<1>9. \A j \in 0 .. k : kept[j] \in S
  <2>1. ASSUME NEW j \in 1 .. k, kept[j - 1] \in S PROVE kept[j] = Step[j][kept[j - 1]]
    <3> HIDE DEF S, k
    <3> QED
      BY <1>8, <2>1
  <2>2. kept[0] \in S
    BY <1>1, <1>8, Zenon
  <2> HIDE DEF Step, S, k
  <2> QED
    BY <1>1, <1>3, <2>1, <2>2, LoopTyped
<1>10. kept = [j \in 0 .. k |-> kept[j]]
  BY <1>5 DEF Runs
<1> QED
  <2>1. kept \in [0 .. k -> S]
    <3> HIDE DEF k, S
    <3> QED
      BY <1>9, <1>10, Zenon
  <2> QED
    BY <1>6, <1>8, <2>1, Zenon DEF Keeping

\* What is kept are the inputs that are not orphaned, in no more places and none twice
\* that was not twice before.
LEMMA KeptFacts ==
  ASSUME NEW in \in Seq(Buffers), NEW orphaned
  PROVE  LET out == Kept(in, orphaned) IN
         /\ out \in Seq(Buffers) /\ Len(out) <= Len(in)
         /\ Members(out) = Members(in) \ orphaned
         /\ NoRepeats(in) => NoRepeats(out)
         /\ Members(in) \cap orphaned = {} => out = in
<1> DEFINE k == Len(in)
           Before(j) == {in[i] : i \in 1 .. j}
<1>1. k \in Nat /\ DOMAIN in = 1 .. k
  BY LenProperties
<1>2. \A j \in 1 .. k : in[j] \in Buffers
  BY <1>1, ElementOfSeq
<1>3. PICK w : Keeping(w, in, orphaned) /\ Kept(in, orphaned) = w[k]
  BY KeptLoop
<1>31. /\ w \in [0 .. k -> Seq(Buffers)] /\ w[0] = <<>>
       /\ \A j \in 1 .. k : w[j] =
            IF in[j] \in orphaned THEN w[j - 1] ELSE Append(w[j - 1], in[j])
  BY <1>3 DEF Keeping
<1> DEFINE Done(j) == /\ Len(w[j]) <= j
                      /\ Members(w[j]) = Before(j) \ orphaned
                      /\ NoRepeats(in) => NoRepeats(w[j])
                      /\ Members(in) \cap orphaned = {} =>
                           Len(w[j]) = j /\ \A i \in 1 .. j : w[j][i] = in[i]
           T == {j \in Nat : j <= k => Done(j)}
<1>4. 0 \in T
  <2>1. w[0] = <<>> /\ Before(0) = {} /\ Members(<<>>) = {} /\ NoRepeats(<<>>)
    BY <1>1, <1>31 DEF Members, NoRepeats
  <2> QED
    BY <2>1, EmptyFacts
<1>5. ASSUME NEW j \in Nat, j \in T PROVE j + 1 \in T
  <2> SUFFICES ASSUME j + 1 <= k PROVE Done(j + 1)
    OBVIOUS
  <2>1. /\ j + 1 \in 1 .. k /\ j \in 0 .. k /\ in[j + 1] \in Buffers
        /\ w[j] \in Seq(Buffers) /\ Done(j)
    <3>1. j + 1 \in 1 .. k /\ j \in 0 .. k
      BY <1>1
    <3>2. Done(j)
      BY <1>1, <1>5
    <3> QED
      BY <1>2, <1>31, <3>1, <3>2
  <2>2. w[j + 1] = IF in[j + 1] \in orphaned THEN w[j] ELSE Append(w[j], in[j + 1])
    <3>1. PICK i \in 1 .. k : i = j + 1 /\ i - 1 = j
      BY <2>1
    <3>2. w[i] = IF in[i] \in orphaned THEN w[i - 1] ELSE Append(w[i - 1], in[i])
      BY <1>31
    <3> QED
      BY <3>1, <3>2
  <2>3. Before(j + 1) = Before(j) \cup {in[j + 1]}
    <3>1. 1 .. j + 1 = (1 .. j) \cup {j + 1}
      OBVIOUS
    <3> QED
      BY <3>1
  <2>4. Before(j) \subseteq Members(in) /\ in[j + 1] \in Members(in)
    <3>1. \A i \in 1 .. j : i \in 1 .. k
      BY <1>1, <2>1
    <3> QED
      BY <1>1, <2>1, <3>1 DEF Members
  <2>5. NoRepeats(in) => in[j + 1] \notin Before(j)
    BY <1>1, <2>1 DEF NoRepeats
  <2>6. CASE in[j + 1] \in orphaned
    <3>1. w[j + 1] = w[j]
      BY <2>2, <2>6
    <3>2. Members(in) \cap orphaned # {}
      BY <2>4, <2>6
    <3> HIDE DEF Before
    <3> QED
      BY <2>1, <2>3, <2>6, <3>1, <3>2, LenProperties
  <2>7. CASE in[j + 1] \notin orphaned
    <3>1. w[j + 1] = Append(w[j], in[j + 1])
      BY <2>2, <2>7
    <3> HIDE DEF Before
    <3>2. /\ Len(w[j + 1]) = Len(w[j]) + 1
          /\ Members(w[j + 1]) = Members(w[j]) \cup {in[j + 1]}
          /\ NoRepeats(w[j]) /\ in[j + 1] \notin Members(w[j]) => NoRepeats(w[j + 1])
          /\ \A i \in 1 .. Len(w[j]) : w[j + 1][i] = w[j][i]
          /\ w[j + 1][Len(w[j]) + 1] = in[j + 1]
      BY <2>1, <3>1, AppendFacts
    <3>3. Len(w[j]) \in Nat
      BY <2>1, LenProperties
    <3>4. Len(w[j + 1]) <= j + 1
      BY <2>1, <3>2, <3>3
    <3>5. Members(w[j + 1]) = Before(j + 1) \ orphaned
      BY <2>1, <2>3, <2>7, <3>2
    <3>6. NoRepeats(in) => NoRepeats(w[j + 1])
      BY <2>1, <2>5, <3>2
    <3>7. ASSUME Members(in) \cap orphaned = {}
          PROVE  Len(w[j + 1]) = j + 1 /\ \A i \in 1 .. j + 1 : w[j + 1][i] = in[i]
      BY <2>1, <3>2, <3>3, <3>7
    <3> QED
      BY <3>4, <3>5, <3>6, <3>7
  <2> QED
    BY <2>6, <2>7
<1> HIDE DEF T
<1>6. k \in T
  BY <1>1, <1>4, <1>5, SetInduction
<1>7. Done(k)
  BY <1>1, <1>6 DEF T
<1>8. Before(k) = Members(in)
  BY <1>1 DEF Members
<1>9. ASSUME Members(in) \cap orphaned = {} PROVE w[k] = in
  <2>1. w[k] \in Seq(Buffers) /\ Len(w[k]) = k /\ \A i \in 1 .. k : w[k][i] = in[i]
    BY <1>1, <1>7, <1>9, <1>31
  <2> QED
    BY <2>1, SeqEqual
<1> QED
  BY <1>1, <1>3, <1>31, <1>7, <1>8, <1>9

\* What a node of a desired state reads and writes.
Ins(L, n) == Members(L[n].in)
Outs(L, n) == Members(L[n].out)

\* What holds of the nodes of a session whatever the limiter switch has removed: no buffer
\* has two writers, only the EQ and slot 1 drive the master, and what slot 1 reads is no
\* other node's but the EQ's.
NodesApart(L) ==
    /\ \A n \in Fixed : L[n].type = Boot[n].type
    /\ Len(L[Eq].out) = 2
    /\ Cue[1] \in Outs(L, CueSumL) /\ Cue[2] \in Outs(L, CueSumR)
    /\ \A m, n \in Nodes : m # n => Outs(L, m) \cap Outs(L, n) = {}
    /\ \A m \in Nodes \ {Eq, BootLimiter} :
         /\ Outs(L, m) \cap {0, 1} = {}
         /\ Ins(L, BootLimiter) \cap Outs(L, m) \subseteq {NoBuffer}
    /\ \A n \in Nodes : /\ L[n].type = "SAMPLER" => L[n].in = <<>>
                        /\ L[n].type = "LIMITER" => n = BootLimiter

\* The strips have slots of their own, but for a sampler the limiter switch removed from
\* slot 1, and a gain stage reads nothing that another strip or the master writes.
StripsApart(L, S) ==
    /\ S \subseteq (Nodes \ Fixed) \X (Nodes \ (Fixed \cup {BootLimiter}))
    /\ \A s \in S : /\ s[1] # BootLimiter => L[s[1]].type = "SAMPLER"
                    /\ L[s[2]].type = "GAIN"
                    /\ 1 \notin Ins(L, s[2])
                    /\ \A m \in Nodes \ {s[1], s[2]} : Ins(L, s[2]) \cap Outs(L, m) \subseteq {NoBuffer}
    /\ \A s, t \in S : s[2] = t[2] \/ (s[1] = t[1] /\ s[1] # BootLimiter) => s = t

\* What the node of another console feeds each side of the cue bus.
CueSum(side) == <<CueSumL, CueSumR>>[side]
CueFeed(side) == <<8, 9>>[side]

\* Two different buffers.
Pair(q) == Len(q) = 2 /\ q[1] # q[2]

\* As long as the limiter switch has removed nothing but the limiter, every strip is whole ...
StripsWhole(L, S) ==
    /\ \A s \in S : /\ L[s[1]].type = "SAMPLER"
                    /\ Pair(L[s[1]].out) /\ Pair(L[s[2]].out)
                    /\ L[s[2]].in = L[s[1]].out
                    /\ Outs(L, s[1]) \cap Members(Master) = {}
    /\ \A s, t \in S : s[1] = t[1] => s = t

\* ... each bus reads what feeds it and one side of each strip, once ...
BusesWhole(L, S) ==
    \A side \in {1, 2} :
        LET bus == L[CueSum(side)].in IN
        /\ \A i, j \in DOMAIN bus : bus[i] = bus[j] => i = j
        /\ Members(bus) = {CueFeed(side)} \cup {L[s[2]].out[side] : s \in S}
        /\ \A n \in Nodes : CueFeed(side) \notin Outs(L, n)

\* ... the limiter is between the EQ and the master, or the EQ writes nothing else ...
ChainWhole(L) ==
    /\ L[BootLimiter].type = "LIMITER" =>
         /\ L[BootLimiter].in = L[Eq].out /\ L[BootLimiter].out = Master
         /\ Pair(L[Eq].out)
         /\ \A m \in Nodes \ {BootLimiter} : Ins(L, m) \cap Outs(L, Eq) = {}
    /\ L[BootLimiter].type # "LIMITER" => Outs(L, Eq) \subseteq Members(Master)

\* How many limiters there are.
Limiters(L) == IF L[BootLimiter].type = "LIMITER" THEN 1 ELSE 0

\* ... and nothing leaks.
CountsExact(L, S) ==
    /\ IsFiniteSet(S)
    /\ Cardinality(OccupiedSlots(L)) = Cardinality(Fixed) + Limiters(L) + 2 * Cardinality(S)
    /\ Cardinality(BuffersInUse(L) \ Members(Master))
         = Cardinality(Members(Cue) \cup {4, 5, 8, 9}) + 2 * Limiters(L) + 4 * Cardinality(S)
    /\ \A side \in {1, 2} : Len(L[CueSum(side)].in) = 1 + Cardinality(S)

\* What holds of the whole session as long as that has not happened.
Whole(L, S) == StripsWhole(L, S) /\ BusesWhole(L, S) /\ ChainWhole(L) /\ CountsExact(L, S)

\* The inductive invariant.
SessionInv ==
    /\ graph \in Graph /\ types \in [Nodes -> Types \cup {"EMPTY"}]
    /\ misfired \in BOOLEAN
    /\ limiterName = BootLimiter
    /\ NodesApart(Live) /\ StripsApart(Live, strips)
    /\ ~misfired => Whole(Live, strips)

-----------------------------------------------------------------------------
\* The lowest of some numbers.
LEMMA LowestFacts ==
  ASSUME NEW T, T \subseteq Nat, T # {}
  PROVE  Lowest(T) \in T /\ \A j \in T : Lowest(T) <= j
<1>1. \E i \in T : \A j \in T : i <= j
  BY LeastNat
<1> QED
  BY <1>1 DEF Lowest

\* The two lowest of some numbers.
LEMMA LowestTwoFacts ==
  ASSUME NEW T, T \subseteq Nat, IsFiniteSet(T), Cardinality(T) >= 2
  PROVE  LET p == LowestTwo(T) IN
         /\ p = <<p[1], p[2]>> /\ p[1] \in T /\ p[2] \in T /\ p[1] < p[2]
         /\ \A j \in T : p[1] <= j
<1> DEFINE a == Lowest(T)
           b == Lowest(T \ {a})
<1>1. T # {}
  BY FS_EmptySet
<1>2. a \in T /\ \A j \in T : a <= j
  BY <1>1, LowestFacts
<1> HIDE DEF a
<1>3. T \ {a} # {}
  <2>1. Cardinality(T \ {a}) = Cardinality(T) - 1 /\ IsFiniteSet(T \ {a})
    BY <1>2, FS_RemoveElement
  <2>2. Cardinality(T) \in Nat
    BY FS_CardinalityType
  <2> QED
    BY <2>1, <2>2, FS_EmptySet
<1>4. b \in T \ {a}
  BY <1>3, LowestFacts
<1> HIDE DEF b
<1>5. LowestTwo(T) = <<a, b>>
  BY DEF LowestTwo, a, b
<1>6. a < b
  BY <1>2, <1>4
<1> QED
  BY <1>2, <1>4, <1>5, <1>6

\* Removing two numbers of four leaves two.
LEMMA TwoLeft ==
  ASSUME NEW T, IsFiniteSet(T), Cardinality(T) >= 4, NEW a \in T, NEW b \in T, a # b
  PROVE  IsFiniteSet(T \ {a, b}) /\ Cardinality(T \ {a, b}) >= 2
<1>1. Cardinality(T \ {a}) = Cardinality(T) - 1 /\ IsFiniteSet(T \ {a}) /\ b \in T \ {a}
  BY FS_RemoveElement
<1>2. /\ Cardinality((T \ {a}) \ {b}) = Cardinality(T \ {a}) - 1
      /\ IsFiniteSet((T \ {a}) \ {b})
  BY <1>1, FS_RemoveElement
<1>3. (T \ {a}) \ {b} = T \ {a, b}
  OBVIOUS
<1>4. Cardinality(T) \in Nat
  BY FS_CardinalityType
<1> QED
  BY <1>1, <1>2, <1>3, <1>4

-----------------------------------------------------------------------------
\* What the nodes of a desired state use.
Views == [Nodes -> Slot]

\* The fixed slots and buffers by number.
LEMMA FixedFacts ==
  /\ Fixed = {0, 2, 3, 4} /\ Fixed \subseteq Nodes /\ 1 \in Nodes /\ Nodes \subseteq Nat
  /\ Buffers \subseteq Nat /\ {0, 1, 2, 3} \subseteq Buffers
  /\ BootLimiter = 1 /\ Eq = 0 /\ CueSumL = 2 /\ CueSumR = 3 /\ Capture = 4
  BY SizeAssumption, SessionAssumption
  DEF Fixed, Nodes, Buffers, BootLimiter, Eq, CueSumL, CueSumR, Capture

\* There are finitely many buffers and nodes.
LEMMA BuffersFinite == IsFiniteSet(Buffers) /\ IsFiniteSet(Nodes)
  BY SizeAssumption, FS_Interval DEF Buffers, Nodes

\* The members of a sequence of buffers.
LEMMA MembersType ==
  ASSUME NEW s \in Seq(Buffers)
  PROVE  Members(s) \subseteq Buffers /\ \A j \in 1 .. Len(s) : s[j] \in Members(s)
  BY LenProperties, ElementOfSeq DEF Members

\* What a node reads and writes are buffers in use.
LEMMA UsesType ==
  ASSUME NEW L \in Views, NEW n \in Nodes
  PROVE  /\ Ins(L, n) \subseteq Buffers /\ Outs(L, n) \subseteq Buffers
         /\ Ins(L, n) \subseteq BuffersInUse(L) /\ Outs(L, n) \subseteq BuffersInUse(L)
         /\ L[n].in \in Seq(Buffers) /\ L[n].out \in Seq(Buffers)
<1>1. L[n].in \in Seq(Buffers) /\ L[n].out \in Seq(Buffers)
  BY SlotFacts DEF Views
<1>2. Members(L[n].in) \subseteq Buffers /\ Members(L[n].out) \subseteq Buffers
  BY <1>1, MembersType
<1>3. Members(L[n].in) \cup Members(L[n].out) \subseteq BuffersInUse(L)
  BY DEF BuffersInUse
<1> QED
  BY <1>1, <1>2, <1>3 DEF Ins, Outs

\* A buffer is in use if some node reads or writes it, and free ones are above the
\* master and the cue.
LEMMA InUseFacts ==
  ASSUME NEW L \in Views
  PROVE  /\ BuffersInUse(L) \subseteq Buffers /\ IsFiniteSet(BuffersInUse(L))
         /\ \A b : b \in BuffersInUse(L) <=> \E n \in Nodes : b \in Ins(L, n) \cup Outs(L, n)
         /\ FreeBuffers(L) = (Reserved .. MaxBuffers - 1) \ BuffersInUse(L)
         /\ FreeBuffers(L) \subseteq Buffers \ (BuffersInUse(L) \cup {0, 1, 2, 3})
         /\ IsFiniteSet(FreeBuffers(L)) /\ FreeBuffers(L) \subseteq Nat
<1>1. \A b : b \in BuffersInUse(L) <=> \E n \in Nodes : b \in Ins(L, n) \cup Outs(L, n)
  BY DEF BuffersInUse, Ins, Outs
<1>2. BuffersInUse(L) \subseteq Buffers
  BY <1>1, UsesType
<1>3. FreeBuffers(L) = (Reserved .. MaxBuffers - 1) \ BuffersInUse(L)
  BY DEF FreeBuffers
<1>4. FreeBuffers(L) \subseteq Buffers \ (BuffersInUse(L) \cup {0, 1, 2, 3})
  BY <1>3, SizeAssumption, SessionAssumption DEF Buffers
<1>5. FreeBuffers(L) \subseteq Buffers /\ Buffers \subseteq Nat
  BY <1>4, FixedFacts
<1>6. IsFiniteSet(BuffersInUse(L)) /\ IsFiniteSet(FreeBuffers(L))
  BY <1>2, <1>5, BuffersFinite, FS_Subset
<1> QED
  BY <1>1, <1>2, <1>3, <1>4, <1>5, <1>6

\* A free slot is none of the fixed ones, and holds nothing.
LEMMA FreeSlotFacts ==
  ASSUME NEW L \in Views, NodesApart(L)
  PROVE  /\ FreeSlots(L) \subseteq Nodes \ Fixed /\ IsFiniteSet(FreeSlots(L))
         /\ FreeSlots(L) \subseteq Nat
         /\ \A n \in FreeSlots(L) : L[n] = Empty
         /\ L[BootLimiter] = Empty => BootLimiter \in FreeSlots(L)
<1>1. \A n \in Nodes : n \in FreeSlots(L) <=> L[n] = Empty
  BY DEF FreeSlots, OccupiedSlots
<1>2. \A n \in Fixed : L[n] # Empty
  <2>1. \A n \in Fixed : Boot[n].type # "EMPTY"
    BY FixedFacts DEF Boot
  <2> QED
    BY <2>1, EmptyFacts DEF NodesApart
<1>3. FreeSlots(L) \subseteq Nodes
  BY DEF FreeSlots
<1>4. FreeSlots(L) \subseteq Nodes \ Fixed
  BY <1>1, <1>2, <1>3
<1>5. IsFiniteSet(FreeSlots(L))
  BY <1>3, BuffersFinite, FS_Subset
<1> QED
  BY <1>1, <1>4, <1>5, FixedFacts

-----------------------------------------------------------------------------
(***************************************************************************)
(* add_channel_strip: what it asks of the graph.                           *)
(***************************************************************************)
\* W is L with a strip in the free slots x and y, on the fresh buffers s and g.
StripPlaced(L, W, x, y, s, g) ==
    /\ W \in Views
    /\ x \in Nodes \ Fixed /\ y \in Nodes \ (Fixed \cup {BootLimiter}) /\ x # y
    /\ L[x] = Empty /\ L[y] = Empty
    /\ s \in Seq(Buffers) /\ g \in Seq(Buffers) /\ Pair(s) /\ Pair(g)
    /\ Members(s) \cap Members(g) = {}
    /\ (Members(s) \cup Members(g)) \cap (BuffersInUse(L) \cup {0, 1, 2, 3}) = {}
    /\ W[x] = [type |-> "SAMPLER", in |-> <<>>, out |-> s]
    /\ W[y] = [type |-> "GAIN", in |-> s, out |-> g]
    /\ \A n \in Nodes \ {x, y} : /\ W[n].type = L[n].type /\ W[n].out = L[n].out
                                 /\ n \notin {CueSumL, CueSumR} => W[n] = L[n]
    /\ \A side \in {1, 2} : W[CueSum(side)].in = Append(L[CueSum(side)].in, g[side])

\* The node that writes a side of the cue bus is its summing node.
LEMMA CueProducer ==
  ASSUME NEW W, NEW b, NEW n \in Nodes, b \in Members(W[n].out),
         \A m \in Nodes \ {n} : b \notin Members(W[m].out)
  PROVE  ProducerOf(W, b) = n
<1>1. ProducersOf(W, b) = {n}
  BY DEF ProducersOf
<1>2. n \in Nat
  BY FixedFacts
<1>3. Lowest({n}) = n
  BY <1>2, LowestFacts
<1> QED
  BY <1>1, <1>3 DEF ProducerOf

\* Two different buffers are a pair.
LEMMA PairOf ==
  ASSUME NEW a \in Buffers, NEW b \in Buffers, a # b
  PROVE  /\ <<a, b>> \in Seq(Buffers) /\ Pair(<<a, b>>) /\ Members(<<a, b>>) = {a, b}
         /\ Len(<<a, b>>) = 2
<1>1. <<a, b>> \in Seq(Buffers) /\ Len(<<a, b>>) = 2 /\ DOMAIN <<a, b>> = 1 .. 2
  OBVIOUS
<1>2. 1 .. 2 = {1, 2}
  OBVIOUS
<1>3. Members(<<a, b>>) = {a, b}
  BY <1>1, <1>2 DEF Members
<1> QED
  BY <1>1, <1>3 DEF Pair

\* A sequence of two buffers has those two members.
LEMMA PairMembers ==
  ASSUME NEW q \in Seq(Buffers), Len(q) = 2
  PROVE  Members(q) = {q[1], q[2]} /\ q[1] \in Buffers /\ q[2] \in Buffers /\ q = <<q[1], q[2]>>
<1>1. DOMAIN q = 1 .. 2
  BY LenProperties
<1>2. 1 .. 2 = {1, 2}
  OBVIOUS
<1>3. Members(q) = {q[1], q[2]}
  BY <1>1, <1>2 DEF Members
<1>4. q[1] \in Buffers /\ q[2] \in Buffers
  BY ElementOfSeq
<1>5. <<q[1], q[2]>> \in Seq(Buffers) /\ Len(<<q[1], q[2]>>) = 2
  BY <1>4
<1>6. q = <<q[1], q[2]>>
  BY <1>5, SeqEqual
<1> QED
  BY <1>3, <1>4, <1>6

\* The buffers of a new strip.
LEMMA FreshPairs ==
  ASSUME NEW L \in Views, Cardinality(FreeBuffers(L)) >= 4
  PROVE  LET s == LowestTwo(FreeBuffers(L))
             g == LowestTwo(FreeBuffers(L) \ Members(s)) IN
         /\ s \in Seq(Buffers) /\ Pair(s) /\ g \in Seq(Buffers) /\ Pair(g)
         /\ Members(s) \cap Members(g) = {}
         /\ (Members(s) \cup Members(g)) \cap (BuffersInUse(L) \cup {0, 1, 2, 3}) = {}
<1> DEFINE F == FreeBuffers(L)
           s == LowestTwo(F)
           T == F \ Members(s)
           g == LowestTwo(T)
<1>1. /\ F \subseteq Buffers \ (BuffersInUse(L) \cup {0, 1, 2, 3})
      /\ IsFiniteSet(F) /\ F \subseteq Nat /\ Cardinality(F) \in Nat /\ Cardinality(F) >= 4
  BY InUseFacts, FS_CardinalityType
<1> HIDE DEF F
<1>2. Cardinality(F) >= 2
  BY <1>1
<1>3. s = <<s[1], s[2]>> /\ s[1] \in F /\ s[2] \in F /\ s[1] < s[2]
  BY <1>1, <1>2, LowestTwoFacts
<1> HIDE DEF s
<1>4. /\ s[1] \in Buffers /\ s[2] \in Buffers /\ s[1] # s[2]
  BY <1>1, <1>3
<1>5. s \in Seq(Buffers) /\ Pair(s) /\ Members(s) = {s[1], s[2]}
  <2>1. /\ <<s[1], s[2]>> \in Seq(Buffers) /\ Pair(<<s[1], s[2]>>)
        /\ Members(<<s[1], s[2]>>) = {s[1], s[2]}
    BY <1>4, PairOf
  <2> QED
    BY <1>3, <2>1, Zenon
<1>6. T = F \ {s[1], s[2]}
  BY <1>5
<1> HIDE DEF T
<1>7. IsFiniteSet(T) /\ Cardinality(T) >= 2 /\ T \subseteq Nat /\ T \subseteq F
  BY <1>1, <1>3, <1>4, <1>6, TwoLeft
<1>8. g = <<g[1], g[2]>> /\ g[1] \in T /\ g[2] \in T /\ g[1] < g[2]
  BY <1>7, LowestTwoFacts
<1> HIDE DEF g
<1>9. /\ g[1] \in Buffers /\ g[2] \in Buffers /\ g[1] # g[2]
  BY <1>1, <1>7, <1>8
<1>10. g \in Seq(Buffers) /\ Pair(g) /\ Members(g) = {g[1], g[2]}
  <2>1. /\ <<g[1], g[2]>> \in Seq(Buffers) /\ Pair(<<g[1], g[2]>>)
        /\ Members(<<g[1], g[2]>>) = {g[1], g[2]}
    BY <1>9, PairOf
  <2> QED
    BY <1>8, <2>1, Zenon
<1>11. Members(s) \cap Members(g) = {} /\ Members(s) \cup Members(g) \subseteq F
  BY <1>3, <1>5, <1>6, <1>7, <1>8, <1>10
<1>12. /\ s \in Seq(Buffers) /\ Pair(s) /\ g \in Seq(Buffers) /\ Pair(g)
       /\ Members(s) \cap Members(g) = {}
       /\ (Members(s) \cup Members(g)) \cap (BuffersInUse(L) \cup {0, 1, 2, 3}) = {}
  BY <1>1, <1>5, <1>10, <1>11
<1> QED
  BY <1>12 DEF s, g, T, F

\* A node of a desired state.
LEMMA NodeIsSlot ==
  ASSUME NEW t \in Types, NEW a \in Seq(Buffers), NEW b \in Seq(Buffers),
         Len(a) <= MaxChannels, Len(b) <= MaxChannels
  PROVE  [type |-> t, in |-> a, out |-> b] \in Slot
  BY DEF Slot, DesiredNode

\* The strip by itself.
LEMMA PlacedFacts ==
  ASSUME NEW L \in Views, NEW x \in Nodes, NEW y \in Nodes, x # y,
         NEW s \in Seq(Buffers), NEW g \in Seq(Buffers), Pair(s), Pair(g)
  PROVE  LET V == WithStrip(L, x, y, s, g) IN
         /\ V \in Views
         /\ V[x] = [type |-> "SAMPLER", in |-> <<>>, out |-> s]
         /\ V[y] = [type |-> "GAIN", in |-> s, out |-> g]
         /\ \A n \in Nodes \ {x, y} : V[n] = L[n]
<1> DEFINE one == [type |-> "SAMPLER", in |-> <<>>, out |-> s]
           two == [type |-> "GAIN", in |-> s, out |-> g]
<1>1. one \in Slot /\ two \in Slot
  <2>1. 2 <= MaxChannels /\ 0 <= MaxChannels /\ Len(s) = 2 /\ Len(g) = 2
    BY SizeAssumption, SessionAssumption DEF Pair
  <2>2. "SAMPLER" \in Types /\ "GAIN" \in Types
    BY DEF Types
  <2> QED
    BY <2>1, <2>2, NodeIsSlot, EmptyFacts
<1> HIDE DEF one, two
<1>2. WithStrip(L, x, y, s, g) = [L EXCEPT ![x] = one, ![y] = two]
  BY DEF WithStrip, one, two
<1>3. LET V == [L EXCEPT ![x] = one, ![y] = two] IN
      V \in Views /\ V[x] = one /\ V[y] = two /\ \A n \in Nodes \ {x, y} : V[n] = L[n]
  BY <1>1 DEF Views
<1> QED
  BY <1>2, <1>3 DEF one, two

\* A node with other inputs.
LEMMA InputsReplaced ==
  ASSUME NEW d \in Slot, NEW q
  PROVE  [d EXCEPT !.in = q] = [type |-> d.type, in |-> q, out |-> d.out]
<1>1. CASE d = Empty
  BY <1>1 DEF Empty
<1>2. CASE d \in DesiredNode
  BY <1>2 DEF DesiredNode
<1> QED
  BY <1>1, <1>2 DEF Slot

\* One more input of the node that writes b.
LEMMA JoinFacts ==
  ASSUME NEW V \in Views, NEW n \in Nodes, NEW b \in Buffers, NEW signal \in Buffers,
         b \in Members(V[n].out), \A m \in Nodes \ {n} : b \notin Members(V[m].out),
         CanJoin(V, b)
  PROVE  LET W == Join(V, b, signal) IN
         /\ W \in Views
         /\ W[n].type = V[n].type /\ W[n].out = V[n].out
         /\ W[n].in = Append(V[n].in, signal)
         /\ \A m \in Nodes \ {n} : W[m] = V[m]
<1>1. ProducerOf(V, b) = n
  BY CueProducer
<1>2. Len(V[n].in) < MaxChannels
  BY <1>1 DEF CanJoin
<1>3. V[n] \in Slot /\ V[n] = [type |-> V[n].type, in |-> V[n].in, out |-> V[n].out]
  BY SlotIsNode DEF Views
<1>4. /\ V[n].in \in Seq(Buffers) /\ V[n].out \in Seq(Buffers) /\ V[n].type \in Kinds
      /\ Len(V[n].in) \in Nat /\ Len(V[n].out) <= MaxChannels
      /\ V[n] # Empty <=> V[n].type # "EMPTY"
  BY <1>3, SlotFacts
<1>5. V[n].type \in Types
  <2>1. Members(Empty.out) = {}
    BY EmptyFacts DEF Members, Empty
  <2> QED
    BY <1>4, <2>1 DEF Kinds
<1> DEFINE w == [type |-> V[n].type, in |-> Append(V[n].in, signal), out |-> V[n].out]
<1>6. w \in Slot
  <2>1. Append(V[n].in, signal) \in Seq(Buffers) /\ Len(Append(V[n].in, signal)) <= MaxChannels
    BY <1>2, <1>4, AppendFacts, SizeAssumption
  <2> QED
    BY <1>4, <1>5, <2>1, NodeIsSlot
<1>7. Join(V, b, signal) = [V EXCEPT ![n] = w]
  <2>1. [V[n] EXCEPT !.in = Append(@, signal)] = w
    BY <1>3, InputsReplaced
  <2>2. Join(V, b, signal) = [V EXCEPT ![n] = [V[n] EXCEPT !.in = Append(@, signal)]]
    BY <1>1 DEF Join
  <2> QED
    BY <2>1, <2>2, Zenon
<1>8. w.type = V[n].type /\ w.out = V[n].out /\ w.in = Append(V[n].in, signal)
  OBVIOUS
<1> HIDE DEF w
<1>9. /\ [V EXCEPT ![n] = w] \in Views /\ [V EXCEPT ![n] = w][n] = w
      /\ \A m \in Nodes \ {n} : [V EXCEPT ![n] = w][m] = V[m]
  BY <1>6 DEF Views
<1> QED
  BY <1>7, <1>8, <1>9

\* Each side of the cue bus is written by its summing node alone.
LEMMA CueFacts ==
  ASSUME NEW L \in Views, NodesApart(L)
  PROVE  /\ 2 \in BuffersInUse(L) /\ 3 \in BuffersInUse(L)
         /\ 2 \in Members(L[2].out) /\ 3 \in Members(L[3].out)
         /\ \A n \in Nodes : /\ 2 \in Members(L[n].out) => n = 2
                             /\ 3 \in Members(L[n].out) => n = 3
<1>1. 2 \in Outs(L, 2) /\ 3 \in Outs(L, 3) /\ 2 \in Nodes /\ 3 \in Nodes
  BY FixedFacts DEF NodesApart, Cue
<1>2. \A m, n \in Nodes : m # n => Outs(L, m) \cap Outs(L, n) = {}
  BY DEF NodesApart
<1>3. Outs(L, 2) \subseteq BuffersInUse(L) /\ Outs(L, 3) \subseteq BuffersInUse(L)
  BY <1>1, UsesType
<1>4. \A n \in Nodes : (2 \in Outs(L, n) => n = 2) /\ (3 \in Outs(L, n) => n = 3)
  BY <1>1, <1>2
<1> QED
  BY <1>1, <1>3, <1>4 DEF Outs

\* What add_channel_strip asks for is the strip, and one more input of each bus side.
LEMMA JoinedFacts ==
  ASSUME NEW L \in Views, NodesApart(L),
         NEW x \in Nodes \ Fixed, NEW y \in Nodes \ (Fixed \cup {BootLimiter}), x # y,
         L[x] = Empty, L[y] = Empty,
         NEW s \in Seq(Buffers), NEW g \in Seq(Buffers), Pair(s), Pair(g),
         Members(s) \cap Members(g) = {},
         (Members(s) \cup Members(g)) \cap (BuffersInUse(L) \cup {0, 1, 2, 3}) = {},
         CanJoin(WithStrip(L, x, y, s, g), 2),
         CanJoin(Join(WithStrip(L, x, y, s, g), 2, g[1]), 3)
  PROVE  StripPlaced(L, Join(Join(WithStrip(L, x, y, s, g), 2, g[1]), 3, g[2]), x, y, s, g)
<1> DEFINE one == [type |-> "SAMPLER", in |-> <<>>, out |-> s]
           two == [type |-> "GAIN", in |-> s, out |-> g]
           V == WithStrip(L, x, y, s, g)
           X == Join(V, 2, g[1])
           W == Join(X, 3, g[2])
<1>1. V \in Views /\ V[x] = one /\ V[y] = two /\ \A n \in Nodes \ {x, y} : V[n] = L[n]
  BY PlacedFacts
<1>2. one.out = s /\ two.out = g
  OBVIOUS
<1> HIDE DEF one, two, V
<1>3. g[1] \in Buffers /\ g[2] \in Buffers /\ 2 \in Buffers /\ 3 \in Buffers
      /\ 2 \in Nodes \ {x, y} /\ 3 \in Nodes \ {x, y}
  BY PairMembers, FixedFacts DEF Pair
<1>4. /\ 2 \notin Members(s) \cup Members(g) /\ 3 \notin Members(s) \cup Members(g)
      /\ 2 \in Members(L[2].out) /\ 3 \in Members(L[3].out)
      /\ \A n \in Nodes : /\ 2 \in Members(L[n].out) => n = 2
                          /\ 3 \in Members(L[n].out) => n = 3
  BY CueFacts
<1>5. /\ 2 \in Members(V[2].out) /\ \A m \in Nodes \ {2} : 2 \notin Members(V[m].out)
      /\ 3 \in Members(V[3].out) /\ \A m \in Nodes \ {3} : 3 \notin Members(V[m].out)
  <2>1. \A m \in Nodes : m \in {x, y} \/ V[m] = L[m]
    BY <1>1
  <2>2. V[2] = L[2] /\ V[3] = L[3]
    BY <1>1, <1>3
  <2>3. V[x].out = s /\ V[y].out = g
    BY <1>1, <1>2
  <2> QED
    BY <1>4, <2>1, <2>2, <2>3
<1>6. CanJoin(V, 2)
  BY DEF V
<1>7. /\ X \in Views /\ X[2].type = V[2].type /\ X[2].out = V[2].out
      /\ X[2].in = Append(V[2].in, g[1])
      /\ \A m \in Nodes \ {2} : X[m] = V[m]
  BY <1>1, <1>3, <1>5, <1>6, JoinFacts
<1>8. CanJoin(X, 3)
  BY DEF X, V
<1> HIDE DEF X
<1>9. 3 \in Members(X[3].out) /\ \A m \in Nodes \ {3} : 3 \notin Members(X[m].out)
  <2>1. X[3] = V[3] /\ \A m \in Nodes : X[m].out = V[m].out
    BY <1>3, <1>7
  <2> QED
    BY <1>5, <2>1
<1>10. /\ W \in Views /\ W[3].type = X[3].type /\ W[3].out = X[3].out
       /\ W[3].in = Append(X[3].in, g[2])
       /\ \A m \in Nodes \ {3} : W[m] = X[m]
  BY <1>3, <1>7, <1>8, <1>9, JoinFacts
<1> HIDE DEF W
<1>11. W[x] = one /\ W[y] = two
  <2>1. x # 2 /\ x # 3 /\ y # 2 /\ y # 3
    BY <1>3
  <2> QED
    BY <1>1, <1>7, <1>10, <2>1
<1>12. \A n \in Nodes \ {x, y} : /\ W[n].type = L[n].type /\ W[n].out = L[n].out
                                 /\ n \notin {2, 3} => W[n] = L[n]
  <2> TAKE n \in Nodes \ {x, y}
  <2>1. CASE n = 2
    BY <1>1, <1>7, <1>10, <2>1
  <2>2. CASE n = 3
    BY <1>1, <1>7, <1>10, <2>2
  <2>3. CASE n # 2 /\ n # 3
    BY <1>1, <1>7, <1>10, <2>3
  <2> QED
    BY <2>1, <2>2, <2>3
<1>13. W[2].in = Append(L[2].in, g[1]) /\ W[3].in = Append(L[3].in, g[2])
  <2>1. V[2] = L[2] /\ V[3] = L[3] /\ W[2] = X[2] /\ X[3] = V[3]
    BY <1>1, <1>3, <1>7, <1>10
  <2> QED
    BY <1>7, <1>10, <2>1
<1>14. \A side \in {1, 2} : W[CueSum(side)].in = Append(L[CueSum(side)].in, g[side])
  <2>1. CueSum(1) = 2 /\ CueSum(2) = 3
    BY FixedFacts DEF CueSum
  <2> QED
    BY <1>13, <2>1
<1>15. StripPlaced(L, W, x, y, s, g)
  BY <1>10, <1>11, <1>12, <1>14, FixedFacts DEF StripPlaced, one, two
<1> QED
  BY <1>15 DEF W, X, V

-----------------------------------------------------------------------------
\* What the nodes use once a strip is placed.
LEMMA PlacedUses ==
  ASSUME NEW L \in Views, NEW W, NEW x, NEW y, NEW s, NEW g, StripPlaced(L, W, x, y, s, g)
  PROVE  /\ Outs(W, x) = Members(s) /\ Ins(W, x) = {}
         /\ Outs(W, y) = Members(g) /\ Ins(W, y) = Members(s)
         /\ Outs(L, x) = {} /\ Ins(L, x) = {} /\ Outs(L, y) = {} /\ Ins(L, y) = {}
         /\ \A n \in Nodes \ {x, y} : Outs(W, n) = Outs(L, n)
         /\ \A n \in Nodes \ {x, y, 2, 3} : Ins(W, n) = Ins(L, n)
         /\ Ins(W, 2) = Ins(L, 2) \cup {g[1]} /\ Ins(W, 3) = Ins(L, 3) \cup {g[2]}
         /\ g[1] \in Members(g) /\ g[2] \in Members(g) /\ Members(g) = {g[1], g[2]}
         /\ Members(s) = {s[1], s[2]}
         /\ \A n \in Nodes \ {x, y} :
              /\ Members(s) \cap (Ins(L, n) \cup Outs(L, n)) = {}
              /\ Members(g) \cap (Ins(L, n) \cup Outs(L, n)) = {}
         /\ W[x].type = "SAMPLER" /\ W[x].in = <<>> /\ W[y].type = "GAIN"
<1>1. /\ W[x] = [type |-> "SAMPLER", in |-> <<>>, out |-> s]
      /\ W[y] = [type |-> "GAIN", in |-> s, out |-> g]
      /\ L[x] = Empty /\ L[y] = Empty
      /\ \A n \in Nodes \ {x, y} : W[n].out = L[n].out /\ (n \notin {2, 3} => W[n] = L[n])
  BY FixedFacts DEF StripPlaced
<1>2. Members(<<>>) = {}
  BY DEF Members
<1>3. Outs(W, x) = Members(s) /\ Ins(W, x) = {} /\ Outs(W, y) = Members(g) /\ Ins(W, y) = Members(s)
  BY <1>1, <1>2 DEF Outs, Ins
<1>4. Outs(L, x) = {} /\ Ins(L, x) = {} /\ Outs(L, y) = {} /\ Ins(L, y) = {}
  BY <1>1, <1>2, EmptyFacts DEF Outs, Ins
<1>5. /\ \A n \in Nodes \ {x, y} : Outs(W, n) = Outs(L, n)
      /\ \A n \in Nodes \ {x, y, 2, 3} : Ins(W, n) = Ins(L, n)
  BY <1>1 DEF Outs, Ins
<1>6. /\ g \in Seq(Buffers) /\ Len(g) = 2 /\ s \in Seq(Buffers) /\ Len(s) = 2
      /\ (Members(s) \cup Members(g)) \cap BuffersInUse(L) = {}
  BY DEF StripPlaced, Pair
<1>7. /\ g[1] \in Buffers /\ g[2] \in Buffers /\ Members(g) = {g[1], g[2]}
      /\ Members(s) = {s[1], s[2]}
  BY <1>6, PairMembers
<1>8. /\ W[2].in = Append(L[2].in, g[1]) /\ W[3].in = Append(L[3].in, g[2])
      /\ L[2].in \in Seq(Buffers) /\ L[3].in \in Seq(Buffers)
  <2>1. \A side \in {1, 2} : W[CueSum(side)].in = Append(L[CueSum(side)].in, g[side])
    BY DEF StripPlaced
  <2>2. CueSum(1) = 2 /\ CueSum(2) = 3
    BY FixedFacts DEF CueSum
  <2>3. 2 \in Nodes /\ 3 \in Nodes
    BY FixedFacts
  <2> QED
    BY <2>1, <2>2, <2>3, UsesType
<1>9. Ins(W, 2) = Ins(L, 2) \cup {g[1]} /\ Ins(W, 3) = Ins(L, 3) \cup {g[2]}
  BY <1>7, <1>8, AppendFacts DEF Ins
<1>10. \A n \in Nodes \ {x, y} :
         /\ Members(s) \cap (Ins(L, n) \cup Outs(L, n)) = {}
         /\ Members(g) \cap (Ins(L, n) \cup Outs(L, n)) = {}
  BY <1>6, UsesType
<1>11. W[x].type = "SAMPLER" /\ W[x].in = <<>> /\ W[y].type = "GAIN"
  BY <1>1
<1> QED
  BY <1>3, <1>4, <1>5, <1>7, <1>9, <1>10, <1>11

\* A new strip leaves the nodes apart, its buffers being fresh.
LEMMA AddKeepsNodesApart ==
  ASSUME NEW L \in Views, NEW W, NEW x, NEW y, NEW s, NEW g, StripPlaced(L, W, x, y, s, g),
         NodesApart(L)
  PROVE  NodesApart(W)
<1>1. /\ x \in Nodes \ {0, 2, 3, 4} /\ y \in Nodes \ {0, 1, 2, 3, 4} /\ x # y
      /\ Members(s) \cap Members(g) = {}
      /\ (Members(s) \cup Members(g)) \cap {0, 1, 2, 3} = {}
      /\ \A n \in Nodes \ {x, y} : W[n].type = L[n].type /\ W[n].out = L[n].out
      /\ \A n \in Nodes \ {x, y} : n \notin {2, 3} => W[n] = L[n]
  BY FixedFacts DEF StripPlaced
<1>2. /\ \A n \in Fixed : L[n].type = Boot[n].type
      /\ Len(L[0].out) = 2 /\ 2 \in Outs(L, 2) /\ 3 \in Outs(L, 3)
      /\ \A m, n \in Nodes : m # n => Outs(L, m) \cap Outs(L, n) = {}
      /\ \A m \in Nodes \ {0, 1} : /\ Outs(L, m) \cap {0, 1} = {}
                                   /\ Ins(L, 1) \cap Outs(L, m) \subseteq {NoBuffer}
      /\ \A n \in Nodes : /\ L[n].type = "SAMPLER" => L[n].in = <<>>
                          /\ L[n].type = "LIMITER" => n = 1
  BY FixedFacts DEF NodesApart, Cue
<1>3. /\ \A n \in Fixed : W[n].type = Boot[n].type
      /\ Len(W[0].out) = 2
  BY <1>1, <1>2, FixedFacts
<1>4. 2 \in Outs(W, 2) /\ 3 \in Outs(W, 3)
  BY <1>1, <1>2, PlacedUses, FixedFacts
<1>5. ASSUME NEW m \in Nodes, NEW n \in Nodes, m # n PROVE Outs(W, m) \cap Outs(W, n) = {}
  <2>1. ASSUME NEW p \in Nodes, p \notin {x, y}
        PROVE  /\ Outs(W, p) = Outs(L, p)
               /\ Outs(W, p) \cap Outs(W, x) = {} /\ Outs(W, p) \cap Outs(W, y) = {}
    BY <2>1, PlacedUses
  <2>2. Outs(W, x) \cap Outs(W, y) = {}
    BY <1>1, PlacedUses
  <2> QED
    BY <1>2, <1>5, <2>1, <2>2
<1>6. ASSUME NEW m \in Nodes \ {0, 1}
      PROVE  /\ Outs(W, m) \cap {0, 1} = {}
             /\ Ins(W, 1) \cap Outs(W, m) \subseteq {NoBuffer}
  <2>1. Outs(W, m) \cap {0, 1} = {}
    BY <1>1, <1>2, PlacedUses
  <2>2. CASE x = 1
    BY <2>1, <2>2, PlacedUses
  <2>3. CASE x # 1
    <3>1. Ins(W, 1) = Ins(L, 1) /\ 1 \in Nodes \ {x, y}
      BY <1>1, <2>3, PlacedUses, FixedFacts
    <3>2. CASE m \in {x, y}
      BY <2>1, <3>1, <3>2, PlacedUses
    <3>3. CASE m \notin {x, y}
      BY <1>2, <3>1, <3>3, PlacedUses
    <3> QED
      BY <3>2, <3>3
  <2> QED
    BY <2>1, <2>2, <2>3
<1>7. ASSUME NEW n \in Nodes
      PROVE  /\ W[n].type = "SAMPLER" => W[n].in = <<>>
             /\ W[n].type = "LIMITER" => n = 1
  <2>1. CASE n \in {x, y}
    BY <2>1, PlacedUses
  <2>2. CASE n \in {2, 3}
    <3>1. L[2].type = "SUMMING" /\ L[3].type = "SUMMING"
      BY <1>2, FixedFacts DEF Boot
    <3> QED
      BY <1>1, <2>2, <3>1
  <2>3. CASE n \notin {x, y, 2, 3}
    BY <1>1, <1>2, <2>3
  <2> QED
    BY <2>1, <2>2, <2>3
<1> QED
  BY <1>3, <1>4, <1>5, <1>6, <1>7, FixedFacts DEF NodesApart, Cue

\* A new strip is apart from the others, its slots having been free.
LEMMA AddKeepsStripsApart ==
  ASSUME NEW L \in Views, NEW W, NEW x, NEW y, NEW s, NEW g, StripPlaced(L, W, x, y, s, g),
         NEW S, StripsApart(L, S)
  PROVE  StripsApart(W, S \cup {<<x, y>>}) /\ <<x, y>> \notin S
<1>1. /\ x \in Nodes \ {0, 2, 3, 4} /\ y \in Nodes \ {0, 1, 2, 3, 4} /\ x # y
      /\ x \in Nodes \ Fixed /\ y \in Nodes \ (Fixed \cup {BootLimiter})
      /\ Members(s) \cap Members(g) = {}
      /\ (Members(s) \cup Members(g)) \cap {0, 1, 2, 3} = {}
      /\ \A n \in Nodes \ {x, y} : W[n].type = L[n].type /\ W[n].out = L[n].out
      /\ L[x].type = "EMPTY" /\ L[y].type = "EMPTY"
  BY FixedFacts, EmptyFacts DEF StripPlaced
<1>2. /\ S \subseteq (Nodes \ Fixed) \X (Nodes \ (Fixed \cup {BootLimiter}))
      /\ \A t \in S : /\ t[1] # 1 => L[t[1]].type = "SAMPLER"
                      /\ L[t[2]].type = "GAIN"
                      /\ 1 \notin Ins(L, t[2])
                      /\ \A m \in Nodes \ {t[1], t[2]} :
                           Ins(L, t[2]) \cap Outs(L, m) \subseteq {NoBuffer}
      /\ \A t, u \in S : t[2] = u[2] \/ (t[1] = u[1] /\ t[1] # 1) => t = u
  BY FixedFacts DEF StripsApart
<1>3. ASSUME NEW t \in S
      PROVE  /\ t[1] \in Nodes \ Fixed /\ t[2] \in Nodes \ (Fixed \cup {BootLimiter})
             /\ t[2] \notin {x, y, 0, 1, 2, 3, 4} /\ t[1] \notin {y, 0, 2, 3, 4}
             /\ t[1] # 1 => t[1] \notin {x, y}
  <2>1. t[1] \in Nodes \ Fixed /\ t[2] \in Nodes \ (Fixed \cup {BootLimiter})
    BY <1>2
  <2>2. t[2] \notin {x, y}
    BY <1>1, <1>2
  <2>3. t[1] # 1 => t[1] \notin {x, y}
    BY <1>1, <1>2
  <2> QED
    BY <1>1, <2>1, <2>2, <2>3, FixedFacts
<1>4. ASSUME NEW t \in S
      PROVE  /\ t[1] # 1 => W[t[1]].type = "SAMPLER"
             /\ W[t[2]].type = "GAIN"
             /\ 1 \notin Ins(W, t[2])
             /\ \A m \in Nodes \ {t[1], t[2]} :
                  Ins(W, t[2]) \cap Outs(W, m) \subseteq {NoBuffer}
  <2>1. Ins(W, t[2]) = Ins(L, t[2])
    BY <1>3, PlacedUses
  <2>2. ASSUME NEW m \in Nodes \ {t[1], t[2]}
        PROVE  Ins(W, t[2]) \cap Outs(W, m) \subseteq {NoBuffer}
    <3>1. CASE m \in {x, y}
      BY <1>3, <2>1, <3>1, PlacedUses
    <3>2. CASE m \notin {x, y}
      BY <1>2, <2>1, <3>2, PlacedUses
    <3> QED
      BY <3>1, <3>2
  <2> QED
    BY <1>1, <1>2, <1>3, <2>1, <2>2
<1>5. /\ x # 1 => W[x].type = "SAMPLER"
      /\ W[y].type = "GAIN"
      /\ 1 \notin Ins(W, y)
      /\ \A m \in Nodes \ {x, y} : Ins(W, y) \cap Outs(W, m) \subseteq {NoBuffer}
  BY <1>1, PlacedUses
<1>6. ASSUME NEW t \in S PROVE t[2] # y /\ (t[1] = x => x = 1)
  BY <1>3
<1> DEFINE p == <<x, y>>
<1>7. p[1] = x /\ p[2] = y /\ p \in (Nodes \ Fixed) \X (Nodes \ (Fixed \cup {BootLimiter}))
  BY <1>1
<1>8. p \notin S
  BY <1>6, <1>7
<1> HIDE DEF p
<1>9. ASSUME NEW t \in S \cup {p}
      PROVE  /\ t[1] # 1 => W[t[1]].type = "SAMPLER"
             /\ W[t[2]].type = "GAIN"
             /\ 1 \notin Ins(W, t[2])
             /\ \A m \in Nodes \ {t[1], t[2]} :
                  Ins(W, t[2]) \cap Outs(W, m) \subseteq {NoBuffer}
  BY <1>4, <1>5, <1>7
<1>10. \A t, u \in S \cup {p} : t[2] = u[2] \/ (t[1] = u[1] /\ t[1] # 1) => t = u
  BY <1>2, <1>6, <1>7
<1>11. StripsApart(W, S \cup {p})
  BY <1>2, <1>7, <1>9, <1>10, FixedFacts DEF StripsApart
<1> QED
  BY <1>8, <1>11 DEF p

-----------------------------------------------------------------------------
\* Two more members.
LEMMA AddTwo ==
  ASSUME NEW T, IsFiniteSet(T), NEW a, NEW b, a # b, a \notin T, b \notin T
  PROVE  IsFiniteSet(T \cup {a, b}) /\ Cardinality(T \cup {a, b}) = Cardinality(T) + 2
<1>1. IsFiniteSet(T \cup {a}) /\ Cardinality(T \cup {a}) = Cardinality(T) + 1
  BY FS_AddElement
<1>2. /\ IsFiniteSet((T \cup {a}) \cup {b})
      /\ Cardinality((T \cup {a}) \cup {b}) = Cardinality(T \cup {a}) + 1
  BY <1>1, FS_AddElement
<1>3. (T \cup {a}) \cup {b} = T \cup {a, b} /\ Cardinality(T) \in Nat
  BY FS_CardinalityType
<1> QED
  BY <1>1, <1>2, <1>3

\* Two members less.
LEMMA RemoveTwo ==
  ASSUME NEW T, IsFiniteSet(T), NEW a \in T, NEW b \in T, a # b
  PROVE  IsFiniteSet(T \ {a, b}) /\ Cardinality(T \ {a, b}) = Cardinality(T) - 2
<1>1. IsFiniteSet(T \ {a}) /\ Cardinality(T \ {a}) = Cardinality(T) - 1
  BY FS_RemoveElement
<1>2. /\ IsFiniteSet((T \ {a}) \ {b})
      /\ Cardinality((T \ {a}) \ {b}) = Cardinality(T \ {a}) - 1
  BY <1>1, FS_RemoveElement
<1>3. (T \ {a}) \ {b} = T \ {a, b} /\ Cardinality(T) \in Nat
  BY FS_CardinalityType
<1> QED
  BY <1>1, <1>2, <1>3

\* A slot is occupied if its type says so.
LEMMA OccupiedFacts ==
  ASSUME NEW L \in Views
  PROVE  /\ \A n : n \in OccupiedSlots(L) <=> n \in Nodes /\ L[n].type # "EMPTY"
         /\ IsFiniteSet(OccupiedSlots(L))
<1>1. \A n \in Nodes : L[n] # Empty <=> L[n].type # "EMPTY"
  BY SlotFacts DEF Views
<1>2. OccupiedSlots(L) \subseteq Nodes
  BY DEF OccupiedSlots
<1>3. IsFiniteSet(OccupiedSlots(L))
  BY <1>2, BuffersFinite, FS_Subset
<1> QED
  BY <1>1, <1>3 DEF OccupiedSlots

\* The buffers of the master.
LEMMA MasterFacts == Members(Master) = {0, 1} /\ Master \in Seq(Buffers) /\ Len(Master) = 2
<1>1. 0 \in Buffers /\ 1 \in Buffers
  BY FixedFacts
<1> QED
  BY <1>1, PairOf DEF Master

\* The counts of the session without strips and limiter are numbers.
LEMMA BaseCounts ==
  Cardinality(Fixed) \in Nat /\ Cardinality(Members(Cue) \cup {4, 5, 8, 9}) \in Nat
<1>1. IsFiniteSet(Fixed)
  BY FixedFacts, BuffersFinite, FS_Subset
<1>2. Members(Cue) \cup {4, 5, 8, 9} \subseteq Buffers
  <2>1. 2 \in Buffers /\ 3 \in Buffers /\ {4, 5, 8, 9} \subseteq Buffers
    BY SizeAssumption, SessionAssumption DEF Buffers
  <2>2. Members(Cue) = {2, 3}
    BY <2>1, PairOf DEF Cue
  <2> QED
    BY <2>1, <2>2
<1>3. IsFiniteSet(Members(Cue) \cup {4, 5, 8, 9})
  BY <1>2, BuffersFinite, FS_Subset
<1> QED
  BY <1>1, <1>3, FS_CardinalityType

\* A new strip keeps a whole session whole: the bus reads it, none of its inputs twice,
\* and it takes two slots and four buffers.
LEMMA AddKeepsWhole ==
  ASSUME NEW L \in Views, NEW W, NEW x, NEW y, NEW s, NEW g, StripPlaced(L, W, x, y, s, g),
         NEW S, NodesApart(L), StripsApart(L, S), Whole(L, S)
  PROVE  Whole(W, S \cup {<<x, y>>})
<1> DEFINE p == <<x, y>>
<1>1. p[1] = x /\ p[2] = y /\ p \notin S /\ StripsApart(W, S \cup {p})
  BY AddKeepsStripsApart
<1> HIDE DEF p
<1>2. /\ x \in Nodes \ {0, 2, 3, 4} /\ y \in Nodes \ {0, 1, 2, 3, 4} /\ x # y
      /\ Members(s) \cap Members(g) = {} /\ W \in Views
      /\ s \in Seq(Buffers) /\ g \in Seq(Buffers) /\ Pair(s) /\ Pair(g)
      /\ (Members(s) \cup Members(g)) \cap (BuffersInUse(L) \cup {0, 1, 2, 3}) = {}
      /\ \A n \in Nodes \ {x, y} : W[n].type = L[n].type /\ W[n].out = L[n].out
      /\ \A n \in Nodes \ {x, y} : n \notin {2, 3} => W[n] = L[n]
      /\ L[x].type = "EMPTY" /\ L[y].type = "EMPTY"
      /\ W[x].out = s /\ W[y].out = g /\ W[y].in = s
      /\ W[x].type = "SAMPLER" /\ W[y].type = "GAIN"
  BY FixedFacts, EmptyFacts DEF StripPlaced
<1>3. ASSUME NEW t \in S
      PROVE  /\ t[1] \in Nodes \ {x, y, 0, 2, 3, 4} /\ t[2] \in Nodes \ {x, y, 0, 2, 3, 4}
             /\ W[t[1]] = L[t[1]] /\ W[t[2]] = L[t[2]]
  <2>1. t \in (Nodes \ Fixed) \X (Nodes \ (Fixed \cup {BootLimiter}))
    BY DEF StripsApart
  <2>2. L[t[1]].type = "SAMPLER" /\ L[t[2]].type = "GAIN"
    BY DEF Whole, StripsWhole, StripsApart
  <2> QED
    BY <1>2, <2>1, <2>2, FixedFacts
<1>4. StripsWhole(W, S \cup {p})
  <2>1. /\ \A t \in S : /\ L[t[1]].type = "SAMPLER"
                        /\ Pair(L[t[1]].out) /\ Pair(L[t[2]].out)
                        /\ L[t[2]].in = L[t[1]].out
                        /\ Outs(L, t[1]) \cap Members(Master) = {}
        /\ \A t, u \in S : t[1] = u[1] => t = u
    BY DEF Whole, StripsWhole
  <2>2. ASSUME NEW t \in S \cup {p}
        PROVE  /\ W[t[1]].type = "SAMPLER"
               /\ Pair(W[t[1]].out) /\ Pair(W[t[2]].out)
               /\ W[t[2]].in = W[t[1]].out
               /\ Outs(W, t[1]) \cap Members(Master) = {}
    <3>1. CASE t \in S
      BY <1>3, <2>1, <3>1 DEF Outs
    <3>2. CASE t = p
      BY <1>1, <1>2, <3>2, MasterFacts DEF Outs
    <3> QED
      BY <3>1, <3>2
  <2>3. \A t \in S : t[1] # p[1]
    BY <1>1, <1>3
  <2>4. \A t, u \in S \cup {p} : t[1] = u[1] => t = u
    BY <2>1, <2>3
  <2> QED
    BY <2>2, <2>4 DEF StripsWhole
<1>5. ASSUME NEW side \in {1, 2}
      PROVE  LET bus == W[CueSum(side)].in IN
             /\ \A i, j \in DOMAIN bus : bus[i] = bus[j] => i = j
             /\ Members(bus) = {CueFeed(side)} \cup {W[t[2]].out[side] : t \in S \cup {p}}
             /\ \A n \in Nodes : CueFeed(side) \notin Outs(W, n)
             /\ Len(bus) = 1 + Cardinality(S) + 1
  <2> DEFINE old == L[CueSum(side)].in
             bus == W[CueSum(side)].in
  <2>1. CueSum(side) \in {2, 3} /\ CueSum(side) \in Nodes
    BY FixedFacts DEF CueSum
  <2>2. old \in Seq(Buffers) /\ Members(old) \subseteq BuffersInUse(L)
    BY <2>1, UsesType DEF Ins
  <2>3. bus = Append(old, g[side])
    BY DEF StripPlaced
  <2>4. g[side] \in Members(g) /\ g[side] \in Buffers
    BY <1>2, PairMembers DEF Pair
  <2>5. g[side] \notin Members(old)
    BY <1>2, <2>2, <2>4
  <2>6. /\ NoRepeats(old)
        /\ Members(old) = {CueFeed(side)} \cup {L[t[2]].out[side] : t \in S}
        /\ \A n \in Nodes : CueFeed(side) \notin Outs(L, n)
    BY DEF Whole, BusesWhole, NoRepeats
  <2>7. Len(old) = 1 + Cardinality(S) /\ Cardinality(S) \in Nat
    BY FS_CardinalityType DEF Whole, CountsExact
  <2> HIDE DEF old, bus
  <2>8. /\ NoRepeats(bus) /\ Members(bus) = Members(old) \cup {g[side]}
        /\ Len(bus) = Len(old) + 1
    BY <2>2, <2>3, <2>4, <2>5, <2>6, AppendFacts
  <2>9. {W[t[2]].out[side] : t \in S \cup {p}} = {L[t[2]].out[side] : t \in S} \cup {g[side]}
    <3>1. W[p[2]].out[side] = g[side]
      BY <1>1, <1>2
    <3>2. \A t \in S : W[t[2]].out[side] = L[t[2]].out[side]
      BY <1>3
    <3> QED
      BY <3>1, <3>2
  <2>10. ASSUME NEW n \in Nodes PROVE CueFeed(side) \notin Outs(W, n)
    <3>1. CueFeed(side) \in BuffersInUse(L)
      BY <2>2, <2>6
    <3> QED
      BY <1>2, <2>6, <3>1, PlacedUses
  <2>11. \A i, j \in DOMAIN bus : bus[i] = bus[j] => i = j
    BY <2>8 DEF NoRepeats
  <2>12. Members(bus) = {CueFeed(side)} \cup {W[t[2]].out[side] : t \in S \cup {p}}
    BY <2>6, <2>8, <2>9
  <2> QED
    BY <2>7, <2>8, <2>10, <2>11, <2>12 DEF bus
<1>6. BusesWhole(W, S \cup {p})
  BY <1>5 DEF BusesWhole
<1>7. W[1].type = "LIMITER" <=> L[1].type = "LIMITER"
  BY <1>2, FixedFacts
<1>8. ChainWhole(W)
  <2>1. Outs(W, 0) = Outs(L, 0) /\ W[0].out = L[0].out
    BY <1>2, PlacedUses, FixedFacts
  <2>2. CASE L[1].type = "LIMITER"
    <3>1. x # 1 /\ W[1] = L[1]
      BY <1>2, <2>2, FixedFacts
    <3>2. /\ L[1].in = L[0].out /\ L[1].out = Master /\ Pair(L[0].out)
          /\ \A m \in Nodes \ {1} : Ins(L, m) \cap Outs(L, 0) = {}
      BY <2>2, FixedFacts DEF Whole, ChainWhole
    <3>3. Outs(L, 0) \subseteq BuffersInUse(L)
      BY UsesType, FixedFacts
    <3>4. ASSUME NEW m \in Nodes \ {1} PROVE Ins(W, m) \cap Outs(W, 0) = {}
      <4>1. g[1] \notin Outs(L, 0) /\ g[2] \notin Outs(L, 0) /\ Members(s) \cap Outs(L, 0) = {}
        BY <1>2, <3>3, PlacedUses
      <4>2. \/ Ins(W, m) = Ins(L, m) \/ Ins(W, m) = {} \/ Ins(W, m) = Members(s)
            \/ Ins(W, m) = Ins(L, m) \cup {g[1]} \/ Ins(W, m) = Ins(L, m) \cup {g[2]}
        BY PlacedUses
      <4> QED
        BY <2>1, <3>2, <4>1, <4>2
    <3> QED
      BY <1>7, <2>1, <2>2, <3>1, <3>2, <3>4, FixedFacts DEF ChainWhole
  <2>3. CASE L[1].type # "LIMITER"
    BY <1>7, <2>1, <2>3, FixedFacts DEF Whole, ChainWhole
  <2> QED
    BY <2>2, <2>3
<1>9. CountsExact(W, S \cup {p})
  <2>1. /\ IsFiniteSet(S)
        /\ Cardinality(OccupiedSlots(L)) = Cardinality(Fixed) + Limiters(L) + 2 * Cardinality(S)
        /\ Cardinality(BuffersInUse(L) \ Members(Master))
             = Cardinality(Members(Cue) \cup {4, 5, 8, 9}) + 2 * Limiters(L) + 4 * Cardinality(S)
    BY DEF Whole, CountsExact
  <2>2. IsFiniteSet(S \cup {p}) /\ Cardinality(S \cup {p}) = Cardinality(S) + 1
        /\ Cardinality(S) \in Nat
    BY <1>1, <2>1, FS_AddElement, FS_CardinalityType
  <2>3. Limiters(W) = Limiters(L) /\ Limiters(L) \in Nat
    BY <1>7, FixedFacts DEF Limiters
  <2>4. Cardinality(OccupiedSlots(W)) = Cardinality(OccupiedSlots(L)) + 2
    <3>1. OccupiedSlots(W) = OccupiedSlots(L) \cup {x, y}
      BY <1>2, OccupiedFacts
    <3>2. x \notin OccupiedSlots(L) /\ y \notin OccupiedSlots(L)
      BY <1>2, OccupiedFacts
    <3> QED
      BY <1>2, <3>1, <3>2, AddTwo, OccupiedFacts
  <2>5. Cardinality(BuffersInUse(W) \ Members(Master))
          = Cardinality(BuffersInUse(L) \ Members(Master)) + 4
    <3> DEFINE T == BuffersInUse(L) \ Members(Master)
               U == BuffersInUse(W) \ Members(Master)
    <3>1. IsFiniteSet(T)
      BY InUseFacts, FS_Subset
    <3>2. U = (T \cup {s[1], s[2]}) \cup {g[1], g[2]}
      <4>1. \A b : b \in BuffersInUse(L) <=> \E n \in Nodes : b \in Ins(L, n) \cup Outs(L, n)
        BY InUseFacts
      <4>2. \A b : b \in BuffersInUse(W) <=> \E n \in Nodes : b \in Ins(W, n) \cup Outs(W, n)
        BY <1>2, InUseFacts
      <4>3. ASSUME NEW n \in Nodes
            PROVE  /\ Ins(W, n) \subseteq Ins(L, n) \cup Members(s) \cup Members(g)
                   /\ Outs(W, n) \subseteq Outs(L, n) \cup Members(s) \cup Members(g)
                   /\ Ins(L, n) \subseteq Ins(W, n) /\ Outs(L, n) \subseteq Outs(W, n)
        <5>1. CASE n \in {x, y}
          BY <5>1, PlacedUses
        <5>2. CASE n \in {2, 3}
          BY <5>2, <1>2, PlacedUses
        <5>3. CASE n \notin {x, y, 2, 3}
          BY <5>3, PlacedUses
        <5> QED
          BY <5>1, <5>2, <5>3
      <4>4. BuffersInUse(W) \subseteq BuffersInUse(L) \cup Members(s) \cup Members(g)
        BY <4>1, <4>2, <4>3
      <4>5. BuffersInUse(L) \subseteq BuffersInUse(W)
        BY <4>1, <4>2, <4>3
      <4>6. Members(s) \cup Members(g) \subseteq BuffersInUse(W)
        BY <1>2, <4>2, PlacedUses
      <4>7. (Members(s) \cup Members(g)) \cap {0, 1} = {} /\ Members(Master) = {0, 1}
        BY <1>2, MasterFacts
      <4>8. Members(s) = {s[1], s[2]} /\ Members(g) = {g[1], g[2]}
        BY PlacedUses
      <4> QED
        BY <4>4, <4>5, <4>6, <4>7, <4>8
    <3>3. /\ s[1] # s[2] /\ g[1] # g[2] /\ {s[1], s[2]} \cap {g[1], g[2]} = {}
          /\ {s[1], s[2]} \cap T = {} /\ {g[1], g[2]} \cap T = {}
      BY <1>2, PlacedUses DEF Pair
    <3> HIDE DEF T, U
    <3>4. /\ IsFiniteSet(T \cup {s[1], s[2]})
          /\ Cardinality(T \cup {s[1], s[2]}) = Cardinality(T) + 2
      BY <3>1, <3>3, AddTwo
    <3>5. Cardinality((T \cup {s[1], s[2]}) \cup {g[1], g[2]})
            = Cardinality(T \cup {s[1], s[2]}) + 2
      BY <3>3, <3>4, AddTwo
    <3>6. Cardinality(T) \in Nat
      BY <3>1, FS_CardinalityType
    <3>7. Cardinality(U) = Cardinality((T \cup {s[1], s[2]}) \cup {g[1], g[2]})
      BY <3>2, Zenon
    <3>8. Cardinality(U) = Cardinality(T) + 4
      BY <3>4, <3>5, <3>6, <3>7
    <3> QED
      BY <3>8 DEF T, U
  <2>6. \A side \in {1, 2} : Len(W[CueSum(side)].in) = 1 + Cardinality(S \cup {p})
    BY <1>5, <2>2
  <2>7. Cardinality(Fixed) \in Nat /\ Cardinality(Members(Cue) \cup {4, 5, 8, 9}) \in Nat
    BY BaseCounts
  <2>8. Cardinality(OccupiedSlots(W))
          = Cardinality(Fixed) + Limiters(W) + 2 * Cardinality(S \cup {p})
    BY <2>1, <2>2, <2>3, <2>4, <2>7
  <2>9. Cardinality(BuffersInUse(W) \ Members(Master))
          = Cardinality(Members(Cue) \cup {4, 5, 8, 9}) + 2 * Limiters(W)
              + 4 * Cardinality(S \cup {p})
    <3> DEFINE c == Cardinality(Members(Cue) \cup {4, 5, 8, 9})
    <3>1. c \in Nat
      BY <2>7
    <3> HIDE DEF c
    <3>2. Cardinality(BuffersInUse(L) \ Members(Master))
            = c + 2 * Limiters(L) + 4 * Cardinality(S)
      BY <2>1 DEF c
    <3>3. Cardinality(BuffersInUse(W) \ Members(Master))
            = c + 2 * Limiters(W) + 4 * Cardinality(S \cup {p})
      BY <2>2, <2>3, <2>5, <3>1, <3>2
    <3> QED
      BY <3>3 DEF c
  <2> QED
    BY <2>2, <2>6, <2>8, <2>9 DEF CountsExact
<1> QED
  BY <1>4, <1>6, <1>8, <1>9 DEF Whole, p

-----------------------------------------------------------------------------
(***************************************************************************)
(* remove_nodes: what it asks of the graph, and what comes of it.          *)
(***************************************************************************)
\* The buffers of the two nodes of a strip.
Orphaned(L, x, y) == Outs(L, x) \cup Outs(L, y)
Lost(L, x, y) == (Uses(L[x]) \cup Uses(L[y])) \ {NoBuffer}

\* W is L without the strip in x and y, and without what read it.
StripWithout(L, W, x, y) ==
    /\ W \in Views /\ W[x] = Empty /\ W[y] = Empty
    /\ \A n \in Nodes \ {x, y} :
         /\ W[n].type = L[n].type /\ W[n].out = L[n].out
         /\ Ins(W, n) = Ins(L, n) \ Orphaned(L, x, y)
         /\ Ins(L, n) \cap Orphaned(L, x, y) = {} => W[n] = L[n]
         /\ NoRepeats(L[n].in) => NoRepeats(W[n].in)
         /\ Len(W[n].in) <= Len(L[n].in)

\* remove_nodes asks for the graph without the strip and without inputs that read it.
LEMMA WithoutFacts ==
  ASSUME NEW L \in Views, NEW x \in Nodes, NEW y \in Nodes
  PROVE  StripWithout(L, Without(L, Members(<<x, y>>)), x, y)
<1> DEFINE X == Orphaned(L, x, y)
           W == Without(L, Members(<<x, y>>))
<1>1. Members(<<x, y>>) = {x, y}
  <2>1. DOMAIN <<x, y>> = 1 .. 2 /\ 1 .. 2 = {1, 2}
    OBVIOUS
  <2> QED
    BY <2>1 DEF Members
<1>2. UNION {Members(L[n].out) : n \in {x, y}} = X
  BY DEF Orphaned, Outs
<1> HIDE DEF X
<1>3. W = [n \in Nodes |-> IF n \in {x, y} THEN Empty ELSE [L[n] EXCEPT !.in = Kept(@, X)]]
  BY <1>1, <1>2 DEF Without
<1> HIDE DEF W
<1>4. ASSUME NEW n \in Nodes \ {x, y}
      PROVE  /\ W[n].type = L[n].type /\ W[n].out = L[n].out
             /\ Ins(W, n) = Ins(L, n) \ X
             /\ Ins(L, n) \cap X = {} => W[n] = L[n]
             /\ NoRepeats(L[n].in) => NoRepeats(W[n].in)
             /\ Len(W[n].in) <= Len(L[n].in)
             /\ W[n] \in Slot
  <2> DEFINE w == [type |-> L[n].type, in |-> Kept(L[n].in, X), out |-> L[n].out]
             k == Kept(L[n].in, X)
  <2>1. L[n] \in Slot /\ L[n].in \in Seq(Buffers)
    BY UsesType DEF Views
  <2>2. W[n] = w
    <3>1. [L[n] EXCEPT !.in = Kept(@, X)] = w
      BY <2>1, InputsReplaced
    <3>2. W[n] = [L[n] EXCEPT !.in = Kept(@, X)]
      BY <1>3
    <3> QED
      BY <3>1, <3>2, Zenon
  <2>3. /\ k \in Seq(Buffers) /\ Len(k) <= Len(L[n].in)
        /\ Members(k) = Members(L[n].in) \ X
        /\ NoRepeats(L[n].in) => NoRepeats(k)
        /\ Members(L[n].in) \cap X = {} => k = L[n].in
    BY <2>1, KeptFacts
  <2>4. w.in = k /\ w.type = L[n].type /\ w.out = L[n].out
    OBVIOUS
  <2> HIDE DEF k
  <2>5. Ins(L, n) \cap X = {} => w = L[n]
    <3>1. ASSUME Ins(L, n) \cap X = {} PROVE w = L[n]
      <4>1. w = [type |-> L[n].type, in |-> L[n].in, out |-> L[n].out]
        BY <2>3, <3>1 DEF Ins, k
      <4> QED
        BY <2>1, <4>1, SlotIsNode, Zenon
    <3> QED
      BY <3>1
  <2>6. w \in Slot
    <3>1. /\ L[n].out \in Seq(Buffers) /\ L[n].type \in Kinds
          /\ Len(L[n].in) <= MaxChannels /\ Len(L[n].out) <= MaxChannels
          /\ Len(L[n].in) \in Nat /\ Len(k) \in Nat
          /\ L[n] # Empty <=> L[n].type # "EMPTY"
      BY <2>1, <2>3, SlotFacts, LenProperties
    <3>2. CASE L[n] = Empty
      <4>1. Ins(L, n) = {}
        BY <3>2, EmptyFacts DEF Ins, Members
      <4> QED
        BY <2>1, <2>5, <4>1
    <3>3. CASE L[n] # Empty
      <4>1. L[n].type \in Types
        BY <3>1, <3>3 DEF Kinds
      <4>2. Len(k) <= MaxChannels
        BY <2>3, <3>1, SizeAssumption
      <4> QED
        BY <2>3, <3>1, <4>1, <4>2, NodeIsSlot DEF k
    <3> QED
      BY <3>2, <3>3
  <2> HIDE DEF w
  <2>7. Ins(W, n) = Ins(L, n) \ X
    BY <2>2, <2>3, <2>4 DEF Ins
  <2>8. /\ NoRepeats(L[n].in) => NoRepeats(W[n].in)
        /\ Len(W[n].in) <= Len(L[n].in)
    BY <2>2, <2>3, <2>4
  <2> QED
    BY <2>2, <2>4, <2>5, <2>6, <2>7, <2>8
<1>5. W[x] = Empty /\ W[y] = Empty
  BY <1>3
<1>6. W \in Views
  <2>1. \A n \in Nodes : W[n] \in Slot
    BY <1>4, <1>5, EmptySlot
  <2>2. W = [n \in Nodes |-> W[n]]
    BY <1>3
  <2> QED
    BY <2>1, <2>2 DEF Views
<1>7. StripWithout(L, W, x, y)
  BY <1>4, <1>5, <1>6 DEF StripWithout, X
<1> QED
  BY <1>7 DEF W

\* What a removal that ran leaves of the others.
StripGone(L, D, x, y) ==
    /\ D \in Views /\ D[x] = Empty /\ D[y] = Empty
    /\ \A n \in Nodes \ {x, y} :
         /\ D[n].type = L[n].type /\ Len(D[n].out) = Len(L[n].out)
         /\ Len(D[n].in) <= Len(L[n].in)
         /\ Ins(D, n) \subseteq Ins(L, n) \cup {NoBuffer}
         /\ Outs(D, n) \subseteq Outs(L, n) \cup {NoBuffer}
         /\ Outs(L, n) \cap Lost(L, x, y) = {} => D[n].out = L[n].out

\* A removal can be reconciled at the cost of the strip's buffers.
LEMMA RemovalFeasible ==
  ASSUME NEW L \in Views, NEW x \in Nodes, NEW y \in Nodes
  PROVE  Feasible(L, Without(L, Members(<<x, y>>)), Lost(L, x, y))
<1> DEFINE W == Without(L, Members(<<x, y>>))
<1>0. StripWithout(L, W, x, y)
  BY WithoutFacts
<1> HIDE DEF W
<1>1. ASSUME NEW n \in Nodes
      PROVE  /\ L[n] # Empty /\ W[n] # Empty => Len(W[n].out) >= Len(L[n].out)
             /\ L[n] # Empty /\ W[n] = Empty => Uses(L[n]) \ {NoBuffer} \subseteq Lost(L, x, y)
  <2>1. CASE n \in {x, y}
    BY <1>0, <2>1 DEF StripWithout, Lost
  <2>2. CASE n \notin {x, y}
    <3>1. W[n].type = L[n].type /\ W[n].out = L[n].out
      BY <1>0, <2>2 DEF StripWithout
    <3>2. Len(L[n].out) \in Nat /\ (L[n] # Empty <=> L[n].type # "EMPTY")
      BY SlotFacts DEF Views
    <3> QED
      BY <3>1, <3>2, EmptyFacts
  <2> QED
    BY <2>1, <2>2
<1>2. Feasible(L, W, Lost(L, x, y))
  BY <1>1 DEF Feasible
<1> QED
  BY <1>2 DEF W

\* What the commands of a removal leave.
LEMMA RemovalLeaves ==
  ASSUME NEW L \in Views, NEW x \in Nodes, NEW y \in Nodes, NEW D \in Views,
         NEW W, StripWithout(L, W, x, y),
         \A n \in Nodes : Near(D[n], W[n], Lost(L, x, y))
  PROVE  StripGone(L, D, x, y)
<1>1. /\ W \in Views /\ W[x] = Empty /\ W[y] = Empty
      /\ \A n \in Nodes \ {x, y} :
           /\ W[n].type = L[n].type /\ W[n].out = L[n].out
           /\ Ins(W, n) = Ins(L, n) \ Orphaned(L, x, y)
           /\ Len(W[n].in) <= Len(L[n].in)
  BY DEF StripWithout
<1>2. ASSUME NEW n \in {x, y} PROVE D[n] = Empty
  <2>1. D[n].type = "EMPTY" /\ D[n] \in Slot
    BY <1>1, EmptyFacts DEF Near, Views
  <2> QED
    BY <2>1, SlotFacts
<1>3. ASSUME NEW n \in Nodes \ {x, y}
      PROVE  /\ D[n].type = L[n].type /\ Len(D[n].out) = Len(L[n].out)
             /\ Len(D[n].in) <= Len(L[n].in)
             /\ Ins(D, n) \subseteq Ins(L, n) \cup {NoBuffer}
             /\ Outs(D, n) \subseteq Outs(L, n) \cup {NoBuffer}
             /\ Outs(L, n) \cap Lost(L, x, y) = {} => D[n].out = L[n].out
  <2>1. W[n].type = L[n].type /\ W[n].out = L[n].out
    BY <1>1
  <2>2. /\ D[n].in \in Seq(Buffers) /\ D[n].out \in Seq(Buffers)
        /\ W[n].in \in Seq(Buffers) /\ W[n].out \in Seq(Buffers)
    BY <1>1, UsesType
  <2>3. /\ D[n].type = W[n].type /\ Faded(D[n].in, W[n].in, Lost(L, x, y))
        /\ Faded(D[n].out, W[n].out, Lost(L, x, y))
    BY DEF Near
  <2>4. Ins(D, n) \subseteq Ins(W, n) \cup {NoBuffer} /\ Len(D[n].in) = Len(W[n].in)
    <3>1. Members(D[n].in) \subseteq Members(W[n].in) \cup {NoBuffer}
      BY <2>2, <2>3, FadedFacts
    <3> QED
      BY <2>3, <3>1 DEF Ins, Faded
  <2>5. /\ Outs(D, n) \subseteq Outs(W, n) \cup {NoBuffer} /\ Len(D[n].out) = Len(W[n].out)
        /\ Outs(W, n) \cap Lost(L, x, y) = {} => D[n].out = W[n].out
    <3>1. Members(D[n].out) \subseteq Members(W[n].out) \cup {NoBuffer}
      BY <2>2, <2>3, FadedFacts
    <3>2. Members(W[n].out) \cap Lost(L, x, y) = {} => D[n].out = W[n].out
      BY <2>2, <2>3, FadedFacts
    <3> QED
      BY <2>3, <3>1, <3>2 DEF Outs, Faded
  <2>6. Outs(W, n) = Outs(L, n)
    BY <2>1 DEF Outs
  <2> QED
    BY <1>1, <2>1, <2>3, <2>4, <2>5, <2>6
<1> QED
  BY <1>2, <1>3 DEF StripGone

\* Nothing that stays writes a buffer of the strip, but for the EQ when the strip's
\* sampler was in slot 1.
LEMMA RemovalKeepsOutputs ==
  ASSUME NEW L \in Views, NEW S, NodesApart(L), StripsApart(L, S), NEW p \in S,
         NEW n \in Nodes \ {p[1], p[2]}, n # Eq \/ p[1] # BootLimiter
  PROVE  Outs(L, n) \cap Lost(L, p[1], p[2]) = {}
<1> DEFINE x == p[1]
           y == p[2]
<1>1. x \in Nodes \ {0, 2, 3, 4} /\ y \in Nodes \ {0, 1, 2, 3, 4}
  BY FixedFacts DEF StripsApart
<1>2. Outs(L, n) \cap Outs(L, x) = {} /\ Outs(L, n) \cap Outs(L, y) = {}
  BY <1>1 DEF NodesApart
<1>3. Outs(L, n) \cap Ins(L, y) \subseteq {NoBuffer}
  BY DEF StripsApart
<1>4. Outs(L, n) \cap Ins(L, x) \subseteq {NoBuffer}
  <2>1. CASE x = 1
    <3>1. n \in Nodes \ {Eq, BootLimiter}
      BY <2>1, FixedFacts
    <3> QED
      BY <2>1, <3>1, FixedFacts DEF NodesApart
  <2>2. CASE x # 1
    <3>1. L[x].type = "SAMPLER"
      BY <2>2, FixedFacts DEF StripsApart
    <3>2. L[x].in = <<>>
      BY <1>1, <3>1 DEF NodesApart
    <3> QED
      BY <3>2, EmptyFacts DEF Ins, Members
  <2> QED
    BY <2>1, <2>2
<1> QED
  BY <1>2, <1>3, <1>4 DEF Lost, Uses, Ins, Outs

-----------------------------------------------------------------------------
\* A removal leaves the nodes apart.
LEMMA RemovalKeepsNodesApart ==
  ASSUME NEW L \in Views, NEW S, NodesApart(L), StripsApart(L, S), NEW p \in S,
         NEW D, StripGone(L, D, p[1], p[2])
  PROVE  NodesApart(D)
<1> DEFINE x == p[1]
           y == p[2]
<1>1. x \in Nodes \ {0, 2, 3, 4} /\ y \in Nodes \ {0, 1, 2, 3, 4}
  BY FixedFacts DEF StripsApart
<1>2. /\ \A n \in Fixed : L[n].type = Boot[n].type
      /\ Len(L[0].out) = 2 /\ 2 \in Outs(L, 2) /\ 3 \in Outs(L, 3)
      /\ \A m, n \in Nodes : m # n => Outs(L, m) \cap Outs(L, n) = {}
      /\ \A m \in Nodes \ {0, 1} : /\ Outs(L, m) \cap {0, 1} = {}
                                   /\ Ins(L, 1) \cap Outs(L, m) \subseteq {NoBuffer}
      /\ \A n \in Nodes : /\ L[n].type = "SAMPLER" => L[n].in = <<>>
                          /\ L[n].type = "LIMITER" => n = 1
  BY FixedFacts DEF NodesApart, Cue
<1>3. ASSUME NEW n \in Nodes \ {x, y}
      PROVE  /\ D[n].type = L[n].type /\ Len(D[n].out) = Len(L[n].out)
             /\ Len(D[n].in) <= Len(L[n].in)
             /\ Ins(D, n) \subseteq Ins(L, n) \cup {NoBuffer}
             /\ Outs(D, n) \subseteq Outs(L, n) \cup {NoBuffer}
             /\ n # 0 \/ x # 1 => D[n].out = L[n].out /\ Outs(D, n) = Outs(L, n)
  BY RemovalKeepsOutputs, FixedFacts DEF StripGone, Outs
<1>4. /\ D \in Views /\ D[x] = Empty /\ D[y] = Empty
      /\ Outs(D, x) = {} /\ Outs(D, y) = {} /\ Ins(D, x) = {} /\ Ins(D, y) = {}
  BY EmptyFacts DEF StripGone, Outs, Ins, Members
<1> HIDE DEF x, y
<1>5. /\ \A n \in Fixed : D[n].type = Boot[n].type
      /\ Len(D[0].out) = 2 /\ 2 \in Outs(D, 2) /\ 3 \in Outs(D, 3)
  <2>1. \A n \in Fixed : n \in Nodes \ {x, y}
    BY <1>1, FixedFacts
  <2>2. 0 \in Fixed /\ 2 \in Fixed /\ 3 \in Fixed
    BY FixedFacts
  <2> QED
    BY <1>2, <1>3, <2>1, <2>2
<1>6. ASSUME NEW m \in Nodes, NEW n \in Nodes, m # n PROVE Outs(D, m) \cap Outs(D, n) = {}
  <2>1. CASE m \in {x, y} \/ n \in {x, y}
    BY <1>4, <2>1
  <2>2. CASE m \notin {x, y} /\ n \notin {x, y}
    <3>1. CASE x # 1 \/ (m # 0 /\ n # 0)
      BY <1>2, <1>3, <1>6, <2>2, <3>1
    <3>2. CASE x = 1 /\ (m = 0 \/ n = 0)
      <4>1. ASSUME NEW k \in Nodes, k # 0, k \notin {x, y}
            PROVE  Outs(D, 0) \cap Outs(D, k) = {}
        <5>1. Outs(D, k) = Outs(L, k) /\ 0 \notin Outs(L, k)
          BY <1>2, <1>3, <3>2, <4>1
        <5>2. Outs(D, 0) \subseteq Outs(L, 0) \cup {NoBuffer} /\ 0 \in Nodes
          BY <1>1, <1>3, FixedFacts
        <5>3. Outs(L, 0) \cap Outs(L, k) = {}
          BY <1>2, <4>1, <5>2
        <5> QED
          BY <5>1, <5>2, <5>3 DEF NoBuffer
      <4> QED
        BY <1>6, <2>2, <3>2, <4>1
    <3> QED
      BY <3>1, <3>2
  <2> QED
    BY <2>1, <2>2
<1>7. ASSUME NEW m \in Nodes \ {0, 1}
      PROVE  /\ Outs(D, m) \cap {0, 1} = {}
             /\ Ins(D, 1) \cap Outs(D, m) \subseteq {NoBuffer}
  <2>1. CASE m \in {x, y}
    BY <1>4, <2>1
  <2>2. CASE m \notin {x, y}
    <3>1. Outs(D, m) = Outs(L, m)
      BY <1>3, <2>2
    <3>2. Ins(D, 1) \subseteq Ins(L, 1) \cup {NoBuffer}
      BY <1>3, <1>4, FixedFacts
    <3> QED
      BY <1>2, <3>1, <3>2
  <2> QED
    BY <2>1, <2>2
<1>8. ASSUME NEW n \in Nodes
      PROVE  /\ D[n].type = "SAMPLER" => D[n].in = <<>>
             /\ D[n].type = "LIMITER" => n = 1
  <2>1. CASE n \in {x, y}
    BY <1>4, <2>1, EmptyFacts
  <2>2. CASE n \notin {x, y}
    <3>1. ASSUME D[n].type = "SAMPLER" PROVE D[n].in = <<>>
      <4>1. L[n].in = <<>> /\ Len(D[n].in) <= Len(L[n].in)
        BY <1>2, <1>3, <2>2, <3>1
      <4>2. D[n].in \in Seq(Buffers)
        BY <1>4, UsesType
      <4>3. Len(D[n].in) = 0
        BY <4>1, <4>2, EmptyFacts, LenProperties
      <4> QED
        BY <4>2, <4>3, EmptySeq
    <3> QED
      BY <1>2, <1>3, <2>2, <3>1
  <2> QED
    BY <2>1, <2>2
<1> QED
  BY <1>5, <1>6, <1>7, <1>8, FixedFacts DEF NodesApart, Cue

\* The strips that stay share no slot with the one that goes, but for slot 1.
LEMMA OtherStrips ==
  ASSUME NEW L, NEW S, StripsApart(L, S), NEW p \in S, NEW t \in S \ {p}
  PROVE  /\ t[2] \in Nodes \ {p[1], p[2], 0, 1, 2, 3, 4} /\ t[1] \in Nodes \ {p[2], 0, 2, 3, 4}
         /\ t[1] # 1 => t[1] # p[1]
<1>1. /\ \A u \in S : u \in (Nodes \ Fixed) \X (Nodes \ (Fixed \cup {1}))
      /\ \A u \in S : L[u[2]].type = "GAIN" /\ (u[1] # 1 => L[u[1]].type = "SAMPLER")
      /\ \A u, v \in S : u[2] = v[2] \/ (u[1] = v[1] /\ u[1] # 1) => u = v
  BY FixedFacts DEF StripsApart
<1>2. \A u \in S : u[1] \in Nodes \ {0, 2, 3, 4} /\ u[2] \in Nodes \ {0, 1, 2, 3, 4}
  BY <1>1, FixedFacts
<1>3. \A u, v \in S : u[1] # v[2]
  BY <1>1, <1>2
<1>4. t[2] # p[2] /\ (t[1] # 1 => t[1] # p[1])
  BY <1>1
<1> QED
  BY <1>2, <1>3, <1>4

\* A removal leaves the other strips apart.
LEMMA RemovalKeepsStripsApart ==
  ASSUME NEW L \in Views, NEW S, NodesApart(L), StripsApart(L, S), NEW p \in S,
         NEW D, StripGone(L, D, p[1], p[2])
  PROVE  StripsApart(D, S \ {p})
<1> DEFINE x == p[1]
           y == p[2]
<1>1. x \in Nodes \ {0, 2, 3, 4} /\ y \in Nodes \ {0, 1, 2, 3, 4}
  BY FixedFacts DEF StripsApart
<1>2. /\ S \subseteq (Nodes \ Fixed) \X (Nodes \ (Fixed \cup {BootLimiter}))
      /\ \A t \in S : /\ t[1] # 1 => L[t[1]].type = "SAMPLER"
                      /\ L[t[2]].type = "GAIN"
                      /\ 1 \notin Ins(L, t[2])
                      /\ \A m \in Nodes \ {t[1], t[2]} :
                           Ins(L, t[2]) \cap Outs(L, m) \subseteq {NoBuffer}
      /\ \A t, u \in S : t[2] = u[2] \/ (t[1] = u[1] /\ t[1] # 1) => t = u
  BY FixedFacts DEF StripsApart
<1>3. /\ \A n \in Nodes \ {x, y} :
           /\ D[n].type = L[n].type
           /\ Ins(D, n) \subseteq Ins(L, n) \cup {NoBuffer}
           /\ Outs(D, n) \subseteq Outs(L, n) \cup {NoBuffer}
      /\ D[x] = Empty /\ D[y] = Empty
  BY DEF StripGone
<1>31. Outs(D, x) = {} /\ Outs(D, y) = {}
  BY <1>3, EmptyFacts DEF Outs, Members
<1>4. \A t \in S \ {p} : /\ t[2] \in Nodes \ {x, y, 0, 1, 2, 3, 4} /\ t[1] \in Nodes \ {y, 0, 2, 3, 4}
                         /\ t[1] # 1 => t[1] # x
  BY OtherStrips
<1> HIDE DEF x, y
<1>5. ASSUME NEW t \in S \ {p}
      PROVE  /\ t[1] # 1 => D[t[1]].type = "SAMPLER"
             /\ D[t[2]].type = "GAIN"
             /\ 1 \notin Ins(D, t[2])
             /\ \A m \in Nodes \ {t[1], t[2]} :
                  Ins(D, t[2]) \cap Outs(D, m) \subseteq {NoBuffer}
  <2>1. /\ D[t[2]].type = "GAIN" /\ Ins(D, t[2]) \subseteq Ins(L, t[2]) \cup {NoBuffer}
    BY <1>2, <1>3, <1>4
  <2>2. t[1] # 1 => D[t[1]].type = "SAMPLER"
    BY <1>2, <1>3, <1>4
  <2>3. 1 \notin Ins(D, t[2])
    BY <1>2, <2>1 DEF NoBuffer
  <2>4. ASSUME NEW m \in Nodes \ {t[1], t[2]}
        PROVE  Ins(D, t[2]) \cap Outs(D, m) \subseteq {NoBuffer}
    BY <1>2, <1>3, <1>31, <2>1
  <2> QED
    BY <2>1, <2>2, <2>3, <2>4
<1> QED
  BY <1>2, <1>5, FixedFacts DEF StripsApart

-----------------------------------------------------------------------------
\* As long as the strips are whole a removal leaves exactly what was asked for.
LEMMA RemovalExact ==
  ASSUME NEW L \in Views, NEW S, NodesApart(L), StripsApart(L, S), Whole(L, S), NEW p \in S,
         NEW W, StripWithout(L, W, p[1], p[2]), NEW D \in Views,
         \A n \in Nodes : Near(D[n], W[n], Lost(L, p[1], p[2]))
  PROVE  D = W
<1> DEFINE x == p[1]
           y == p[2]
<1>1. x \in Nodes /\ y \in Nodes /\ L[x].type = "SAMPLER" /\ L[y].in = L[x].out
      /\ x # 0
  BY FixedFacts DEF StripsApart, Whole, StripsWhole
<1>2. L[x].in = <<>>
  BY <1>1 DEF NodesApart
<1>3. Ins(L, x) = {} /\ Ins(L, y) = Outs(L, x)
  BY <1>1, <1>2 DEF Ins, Outs, Members
<1>4. Lost(L, x, y) \subseteq Orphaned(L, x, y)
  BY <1>3 DEF Lost, Orphaned, Uses, Ins, Outs
<1>5. ASSUME NEW n \in Nodes PROVE D[n] = W[n]
  <2>1. D[n] \in Slot /\ W[n] \in Slot
    BY DEF StripWithout, Views
  <2>2. Uses(W[n]) \cap Lost(L, x, y) = {}
    <3>1. CASE n \in {x, y}
      BY <3>1, EmptyFacts DEF StripWithout, Uses, Members
    <3>2. CASE n \notin {x, y}
      <4>1. Ins(W, n) = Ins(L, n) \ Orphaned(L, x, y) /\ Outs(W, n) = Outs(L, n)
        BY <3>2 DEF StripWithout, Outs
      <4>2. Outs(L, n) \cap Orphaned(L, x, y) = {}
        BY <1>1, <3>2 DEF NodesApart, Orphaned
      <4> QED
        BY <1>4, <4>1, <4>2 DEF Uses, Ins, Outs
    <3> QED
      BY <3>1, <3>2
  <2> QED
    BY <2>1, <2>2, NearExact
<1> QED
  BY <1>5 DEF Views, StripWithout

-----------------------------------------------------------------------------
\* A sequence without repetitions is as long as it has members.
LEMMA NoRepeatsLength ==
  ASSUME NEW s \in Seq(Buffers), NoRepeats(s)
  PROVE  IsFiniteSet(Members(s)) /\ Cardinality(Members(s)) = Len(s)
<1>1. Len(s) \in Nat /\ DOMAIN s = 1 .. Len(s)
  BY LenProperties
<1>2. s \in [1 .. Len(s) -> Members(s)]
  BY <1>1 DEF Members
<1>3. s \in Bijection(1 .. Len(s), Members(s))
  BY <1>1, <1>2 DEF Bijection, Injection, Surjection, IsInjective, NoRepeats, Members
<1>4. ExistsBijection(1 .. Len(s), Members(s))
  BY <1>3 DEF ExistsBijection
<1>5. IsFiniteSet(1 .. Len(s)) /\ Cardinality(1 .. Len(s)) = Len(s)
  <2>1. \A b \in Int : IsFiniteSet(1 .. b) /\ Cardinality(1 .. b) = IF 1 > b THEN 0 ELSE b - 1 + 1
    BY FS_Interval, SMTT(30)
  <2> QED
    BY <1>1, <2>1
<1> QED
  BY <1>4, <1>5, FS_Bijection

\* A removal that leaves what was asked for leaves a whole session: the bus loses the
\* strip's inputs, and two slots and four buffers are free again.
LEMMA RemovalKeepsWhole ==
  ASSUME NEW L \in Views, NEW S, NodesApart(L), StripsApart(L, S), Whole(L, S), NEW p \in S,
         NEW W, StripWithout(L, W, p[1], p[2])
  PROVE  Whole(W, S \ {p})
<1> DEFINE x == p[1]
           y == p[2]
           X == Orphaned(L, x, y)
<1>1. /\ x \in Nodes \ {0, 2, 3, 4} /\ y \in Nodes \ {0, 1, 2, 3, 4} /\ W \in Views
      /\ W[x] = Empty /\ W[y] = Empty /\ x # y
      /\ L[x].type = "SAMPLER" /\ L[y].type = "GAIN" /\ L[y].in = L[x].out
      /\ Pair(L[x].out) /\ Pair(L[y].out) /\ Outs(L, x) \cap {0, 1} = {}
  BY FixedFacts, MasterFacts DEF StripsApart, Whole, StripsWhole, StripWithout
<1>2. /\ L[x].out \in Seq(Buffers) /\ L[y].out \in Seq(Buffers)
      /\ Outs(L, x) = {L[x].out[1], L[x].out[2]} /\ L[x].out[1] # L[x].out[2]
      /\ Outs(L, y) = {L[y].out[1], L[y].out[2]} /\ L[y].out[1] # L[y].out[2]
  BY <1>1, UsesType, PairMembers DEF Pair, Outs
<1>3. /\ \A m, n \in Nodes : m # n => Outs(L, m) \cap Outs(L, n) = {}
      /\ Outs(L, y) \cap {0, 1} = {}
      /\ \A n \in Nodes : L[n].type = "SAMPLER" => L[n].in = <<>>
      /\ \A n \in Nodes : L[n].type = "LIMITER" => n = 1
  BY <1>1, FixedFacts DEF NodesApart
<1>4. \A n \in Nodes \ {x, y} :
         /\ W[n].type = L[n].type /\ W[n].out = L[n].out /\ Outs(W, n) = Outs(L, n)
         /\ Ins(W, n) = Ins(L, n) \ X
         /\ Ins(L, n) \cap X = {} => W[n] = L[n]
         /\ NoRepeats(L[n].in) => NoRepeats(W[n].in)
  BY DEF StripWithout, Outs
<1>5. /\ Outs(W, x) = {} /\ Outs(W, y) = {} /\ Ins(W, x) = {} /\ Ins(W, y) = {}
      /\ Ins(L, x) = {} /\ Ins(L, y) = Outs(L, x)
  <2>1. Ins(L, x) = {} /\ Ins(L, y) = Outs(L, x)
    BY <1>1, <1>3, EmptyFacts DEF Outs, Ins, Members
  <2>2. Members(<<>>) = {}
    BY DEF Members
  <2>3. Outs(W, x) = {} /\ Outs(W, y) = {} /\ Ins(W, x) = {} /\ Ins(W, y) = {}
    BY <1>1, <2>2, EmptyFacts DEF Outs, Ins
  <2> QED
    BY <2>1, <2>3
<1>6. X = Outs(L, x) \cup Outs(L, y) /\ \A n \in Nodes \ {x, y} : Outs(L, n) \cap X = {}
  BY <1>1, <1>3 DEF Orphaned
<1>7. \A t \in S \ {p} : /\ t[2] \in Nodes \ {x, y, 0, 1, 2, 3, 4}
                         /\ t[1] \in Nodes \ {x, y, 0, 2, 3, 4}
  <2>1. \A t \in S \ {p} : /\ t[2] \in Nodes \ {x, y, 0, 1, 2, 3, 4}
                           /\ t[1] \in Nodes \ {y, 0, 2, 3, 4}
    BY OtherStrips
  <2>2. \A t \in S \ {p} : t[1] # p[1]
    BY DEF Whole, StripsWhole
  <2> QED
    BY <2>1, <2>2
<1>8. /\ \A t \in S : /\ L[t[1]].type = "SAMPLER"
                      /\ Pair(L[t[1]].out) /\ Pair(L[t[2]].out)
                      /\ L[t[2]].in = L[t[1]].out
                      /\ Outs(L, t[1]) \cap Members(Master) = {}
      /\ \A t, u \in S : t[1] = u[1] => t = u
  BY DEF Whole, StripsWhole
<1> HIDE DEF x, y, X
<1>9. ASSUME NEW t \in S \ {p} PROVE W[t[1]] = L[t[1]] /\ W[t[2]] = L[t[2]]
  <2>1. Ins(L, t[1]) = {} /\ Ins(L, t[2]) = Outs(L, t[1])
    BY <1>3, <1>7, <1>8, EmptyFacts DEF Outs, Ins, Members
  <2> QED
    BY <1>4, <1>6, <1>7, <2>1
<1>10. StripsWhole(W, S \ {p})
  <2>1. ASSUME NEW t \in S \ {p}
        PROVE  /\ W[t[1]].type = "SAMPLER"
               /\ Pair(W[t[1]].out) /\ Pair(W[t[2]].out)
               /\ W[t[2]].in = W[t[1]].out
               /\ Outs(W, t[1]) \cap Members(Master) = {}
    BY <1>8, <1>9 DEF Outs
  <2> QED
    BY <1>8, <2>1 DEF StripsWhole
<1>11. ASSUME NEW side \in {1, 2}
       PROVE  LET bus == W[CueSum(side)].in IN
              /\ \A i, j \in DOMAIN bus : bus[i] = bus[j] => i = j
              /\ Members(bus) = {CueFeed(side)} \cup {W[t[2]].out[side] : t \in S \ {p}}
              /\ \A n \in Nodes : CueFeed(side) \notin Outs(W, n)
              /\ Len(bus) = Cardinality(S)
  <2> DEFINE old == L[CueSum(side)].in
             bus == W[CueSum(side)].in
             own == L[y].out[side]
             others == {L[t[2]].out[side] : t \in S \ {p}}
  <2>1. CueSum(side) \in {2, 3} /\ CueSum(side) \in Nodes \ {x, y}
    BY <1>1, FixedFacts DEF CueSum
  <2>2. old \in Seq(Buffers) /\ bus \in Seq(Buffers)
    BY <1>1, <2>1, UsesType
  <2>3. /\ NoRepeats(old)
        /\ Members(old) = {CueFeed(side)} \cup {L[t[2]].out[side] : t \in S}
        /\ \A n \in Nodes : CueFeed(side) \notin Outs(L, n)
    BY DEF Whole, BusesWhole, NoRepeats
  <2>4. Len(old) = 1 + Cardinality(S) /\ Cardinality(S) \in Nat
    BY FS_CardinalityType DEF Whole, CountsExact
  <2>5. NoRepeats(bus) /\ Members(bus) = Members(old) \ X
    BY <1>4, <2>1, <2>3 DEF Ins
  <2> HIDE DEF old, bus
  <2>6. own \in Outs(L, y) /\ own \in X /\ CueFeed(side) \notin X
    BY <1>1, <1>2, <1>6, <2>3
  <2>7. \A t \in S \ {p} : L[t[2]].out[side] \in Outs(L, t[2]) /\ L[t[2]].out[side] \notin X
    <3>1. ASSUME NEW t \in S \ {p} PROVE L[t[2]].out[side] \in Outs(L, t[2])
      <4>1. L[t[2]].out \in Seq(Buffers) /\ Len(L[t[2]].out) = 2
        BY <1>7, <1>8, UsesType DEF Pair
      <4> QED
        BY <4>1, PairMembers DEF Outs
    <3> QED
      BY <1>6, <1>7, <3>1
  <2>8. {L[t[2]].out[side] : t \in S} = others \cup {own}
    BY DEF y
  <2>9. others \cap X = {}
    BY <2>7
  <2> HIDE DEF own, others
  <2>10. /\ Members(bus) = {CueFeed(side)} \cup others
         /\ Members(bus) = Members(old) \ {own} /\ own \in Members(old)
    BY <2>3, <2>5, <2>6, <2>8, <2>9
  <2>11. /\ IsFiniteSet(Members(old)) /\ Cardinality(Members(old)) = Len(old)
         /\ Cardinality(Members(bus)) = Len(bus)
    BY <2>2, <2>3, <2>5, NoRepeatsLength
  <2>12. Cardinality(Members(old) \ {own}) = Cardinality(Members(old)) - 1
    BY <2>10, <2>11, FS_RemoveElement
  <2>13. Len(bus) = Cardinality(S)
    <3>1. Cardinality(Members(bus)) = Cardinality(Members(old) \ {own})
      BY <2>10, Zenon
    <3> QED
      BY <2>4, <2>11, <2>12, <3>1
  <2>14. others = {W[t[2]].out[side] : t \in S \ {p}}
    BY <1>9 DEF others
  <2>15. \A n \in Nodes : CueFeed(side) \notin Outs(W, n)
    BY <1>4, <1>5, <2>3
  <2>16. \A i, j \in DOMAIN bus : bus[i] = bus[j] => i = j
    BY <2>5 DEF NoRepeats
  <2> QED
    BY <2>10, <2>13, <2>14, <2>15, <2>16 DEF bus
<1>12. BusesWhole(W, S \ {p})
  BY <1>11 DEF BusesWhole
<1>13. W[1].type = "LIMITER" <=> L[1].type = "LIMITER"
  BY <1>1, <1>4, FixedFacts, EmptyFacts
<1>14. ChainWhole(W)
  <2>1. Outs(W, 0) = Outs(L, 0) /\ W[0].out = L[0].out
    BY <1>1, <1>4, FixedFacts
  <2>2. CASE L[1].type = "LIMITER"
    <3>1. /\ L[1].in = L[0].out /\ L[1].out = Master /\ Pair(L[0].out)
          /\ \A m \in Nodes \ {1} : Ins(L, m) \cap Outs(L, 0) = {}
      BY <2>2, FixedFacts DEF Whole, ChainWhole
    <3>2. x # 1 /\ y # 1 /\ Ins(L, 1) = Outs(L, 0)
      BY <1>1, <2>2, <3>1 DEF Ins, Outs
    <3>3. W[1] = L[1]
      BY <1>1, <1>4, <1>6, <3>2, FixedFacts
    <3>4. \A m \in Nodes \ {1} : Ins(W, m) \cap Outs(W, 0) = {}
      BY <1>4, <1>5, <2>1, <3>1
    <3> QED
      BY <1>13, <2>1, <2>2, <3>1, <3>3, <3>4, FixedFacts DEF ChainWhole
  <2>3. CASE L[1].type # "LIMITER"
    BY <1>13, <2>1, <2>3, FixedFacts DEF Whole, ChainWhole
  <2> QED
    BY <2>2, <2>3
<1>15. CountsExact(W, S \ {p})
  <2> DEFINE c == Cardinality(Members(Cue) \cup {4, 5, 8, 9})
             T == BuffersInUse(L) \ Members(Master)
             U == BuffersInUse(W) \ Members(Master)
  <2>1. /\ IsFiniteSet(S)
        /\ Cardinality(OccupiedSlots(L)) = Cardinality(Fixed) + Limiters(L) + 2 * Cardinality(S)
        /\ Cardinality(T) = c + 2 * Limiters(L) + 4 * Cardinality(S)
    BY DEF Whole, CountsExact
  <2>2. /\ IsFiniteSet(S \ {p}) /\ Cardinality(S \ {p}) = Cardinality(S) - 1
        /\ Cardinality(S) \in Nat
    BY <2>1, FS_RemoveElement, FS_CardinalityType
  <2>3. Limiters(W) = Limiters(L) /\ Limiters(L) \in Nat
    BY <1>13, FixedFacts DEF Limiters
  <2>4. Cardinality(OccupiedSlots(W)) = Cardinality(OccupiedSlots(L)) - 2
    <3>1. OccupiedSlots(W) = OccupiedSlots(L) \ {x, y}
      BY <1>1, <1>4, OccupiedFacts, EmptyFacts
    <3>2. x \in OccupiedSlots(L) /\ y \in OccupiedSlots(L)
      BY <1>1, OccupiedFacts
    <3> QED
      BY <1>1, <3>1, <3>2, RemoveTwo, OccupiedFacts
  <2>5. U = (T \ {L[x].out[1], L[x].out[2]}) \ {L[y].out[1], L[y].out[2]}
    <3>1. \A b : b \in BuffersInUse(L) <=> \E n \in Nodes : b \in Ins(L, n) \cup Outs(L, n)
      BY InUseFacts
    <3>2. \A b : b \in BuffersInUse(W) <=> \E n \in Nodes : b \in Ins(W, n) \cup Outs(W, n)
      BY <1>1, InUseFacts
    <3>3. BuffersInUse(W) \subseteq BuffersInUse(L) \ X
      BY <1>4, <1>5, <1>6, <3>1, <3>2
    <3>4. BuffersInUse(L) \ X \subseteq BuffersInUse(W)
      BY <1>4, <1>5, <1>6, <3>1, <3>2
    <3> QED
      BY <1>2, <1>6, <3>3, <3>4
  <2>6. IsFiniteSet(T)
    BY InUseFacts, FS_Subset
  <2>7. Outs(L, x) \subseteq T /\ Outs(L, y) \subseteq T /\ Outs(L, x) \cap Outs(L, y) = {}
    BY <1>1, <1>3, UsesType, MasterFacts
  <2> HIDE DEF T, U, c
  <2>8. /\ IsFiniteSet(T \ {L[x].out[1], L[x].out[2]})
        /\ Cardinality(T \ {L[x].out[1], L[x].out[2]}) = Cardinality(T) - 2
    BY <1>2, <2>6, <2>7, RemoveTwo
  <2>9. Cardinality((T \ {L[x].out[1], L[x].out[2]}) \ {L[y].out[1], L[y].out[2]})
          = Cardinality(T \ {L[x].out[1], L[x].out[2]}) - 2
    <3>1. /\ L[y].out[1] \in T \ {L[x].out[1], L[x].out[2]}
          /\ L[y].out[2] \in T \ {L[x].out[1], L[x].out[2]}
      BY <1>2, <2>7
    <3> QED
      BY <1>2, <2>8, <3>1, RemoveTwo
  <2>10. Cardinality(U)
           = Cardinality((T \ {L[x].out[1], L[x].out[2]}) \ {L[y].out[1], L[y].out[2]})
    BY <2>5, Zenon
  <2>11. Cardinality(Fixed) \in Nat /\ c \in Nat /\ Cardinality(T) \in Nat
    BY BaseCounts, <2>6, FS_CardinalityType DEF c
  <2>12. Cardinality(U) = c + 2 * Limiters(W) + 4 * Cardinality(S \ {p})
    BY <2>1, <2>2, <2>3, <2>8, <2>9, <2>10, <2>11
  <2>13. Cardinality(OccupiedSlots(W))
           = Cardinality(Fixed) + Limiters(W) + 2 * Cardinality(S \ {p})
    BY <2>1, <2>2, <2>3, <2>4, <2>11
  <2>14. \A side \in {1, 2} : Len(W[CueSum(side)].in) = 1 + Cardinality(S \ {p})
    BY <1>11, <2>2
  <2> QED
    BY <2>2, <2>12, <2>13, <2>14 DEF CountsExact, c, U
<1> QED
  BY <1>10, <1>12, <1>14, <1>15 DEF Whole

-----------------------------------------------------------------------------
(***************************************************************************)
(* set_master_limiter(true): what it asks of the graph.                    *)
(***************************************************************************)
\* A node with other outputs.
LEMMA OutputsReplaced ==
  ASSUME NEW d \in Slot, NEW q
  PROVE  [d EXCEPT !.out = q] = [type |-> d.type, in |-> d.in, out |-> q]
<1>1. CASE d = Empty
  BY <1>1 DEF Empty
<1>2. CASE d \in DesiredNode
  BY <1>2 DEF DesiredNode
<1> QED
  BY <1>1, <1>2 DEF Slot

\* The buffers between the EQ and the limiter.
LEMMA FreshPair ==
  ASSUME NEW L \in Views, Cardinality(FreeBuffers(L)) >= 2
  PROVE  LET q == LowestTwo(FreeBuffers(L)) IN
         /\ q \in Seq(Buffers) /\ Pair(q)
         /\ Members(q) \cap (BuffersInUse(L) \cup {0, 1, 2, 3}) = {}
<1> DEFINE F == FreeBuffers(L)
           q == LowestTwo(F)
<1>1. /\ F \subseteq Buffers \ (BuffersInUse(L) \cup {0, 1, 2, 3})
      /\ IsFiniteSet(F) /\ F \subseteq Nat /\ Cardinality(F) >= 2
  BY InUseFacts
<1> HIDE DEF F
<1>2. q = <<q[1], q[2]>> /\ q[1] \in F /\ q[2] \in F /\ q[1] < q[2]
  BY <1>1, LowestTwoFacts
<1> HIDE DEF q
<1>3. q[1] \in Buffers /\ q[2] \in Buffers /\ q[1] # q[2]
  BY <1>1, <1>2
<1>4. q \in Seq(Buffers) /\ Pair(q) /\ Members(q) = {q[1], q[2]}
  <2>1. /\ <<q[1], q[2]>> \in Seq(Buffers) /\ Pair(<<q[1], q[2]>>)
        /\ Members(<<q[1], q[2]>>) = {q[1], q[2]}
    BY <1>3, PairOf
  <2> QED
    BY <1>2, <2>1, Zenon
<1>5. Members(q) \cap (BuffersInUse(L) \cup {0, 1, 2, 3}) = {}
  BY <1>1, <1>2, <1>4
<1> QED
  BY <1>4, <1>5 DEF q, F

\* The EQ writes two buffers of another's choice.
LEMMA EqWritesFacts ==
  ASSUME NEW L \in Views, NodesApart(L), NEW q \in Seq(Buffers), Len(q) = 2
  PROVE  LET V == EqWrites(L, q) IN
         /\ V \in Views
         /\ V[0].type = L[0].type /\ V[0].in = L[0].in /\ V[0].out = q
         /\ \A n \in Nodes \ {0} : V[n] = L[n]
<1> DEFINE w == [type |-> L[0].type, in |-> L[0].in, out |-> q]
<1>1. /\ L[0] \in Slot /\ L[0].in \in Seq(Buffers) /\ Len(L[0].in) <= MaxChannels /\ 0 \in Nodes
  BY FixedFacts, SlotFacts DEF Views
<1>2. L[0].type \in Types
  <2>1. L[0].type = "MASTERING_EQ"
    BY FixedFacts DEF NodesApart, Boot
  <2> QED
    BY <2>1 DEF Types
<1>3. w \in Slot
  <2>1. Len(q) <= MaxChannels
    BY SizeAssumption, SessionAssumption
  <2> QED
    BY <1>1, <1>2, <2>1, NodeIsSlot
<1>4. EqWrites(L, q) = [L EXCEPT ![0] = w]
  <2>1. [L[0] EXCEPT !.out = q] = w
    BY <1>1, OutputsReplaced
  <2>2. EqWrites(L, q) = [L EXCEPT ![0] = [L[0] EXCEPT !.out = q]]
    BY DEF EqWrites, Eq
  <2> QED
    BY <2>1, <2>2, Zenon
<1>5. w.type = L[0].type /\ w.in = L[0].in /\ w.out = q
  OBVIOUS
<1> HIDE DEF w
<1>6. /\ [L EXCEPT ![0] = w] \in Views /\ [L EXCEPT ![0] = w][0] = w
      /\ \A n \in Nodes \ {0} : [L EXCEPT ![0] = w][n] = L[n]
  BY <1>1, <1>3 DEF Views
<1> QED
  BY <1>4, <1>5, <1>6

\* W is L with a limiter in slot 1, on the fresh pair q.
LimiterPlaced(L, W, q) ==
    /\ W \in Views /\ L[1] = Empty
    /\ q \in Seq(Buffers) /\ Pair(q)
    /\ Members(q) \cap (BuffersInUse(L) \cup {0, 1, 2, 3}) = {}
    /\ W[1] = [type |-> "LIMITER", in |-> q, out |-> Master]
    /\ W[0].type = L[0].type /\ W[0].in = L[0].in /\ W[0].out = q
    /\ \A n \in Nodes \ {0, 1} : W[n] = L[n]

\* set_master_limiter(true) asks for the limiter between the EQ and the master.
LEMMA LimiterPlacedFacts ==
  ASSUME NEW L \in Views, NodesApart(L), L[1] = Empty, NEW q \in Seq(Buffers), Pair(q),
         Members(q) \cap (BuffersInUse(L) \cup {0, 1, 2, 3}) = {}
  PROVE  LimiterPlaced(L, [EqWrites(L, q) EXCEPT
                             ![1] = [type |-> "LIMITER", in |-> q, out |-> Master]], q)
<1> DEFINE V == EqWrites(L, q)
           w == [type |-> "LIMITER", in |-> q, out |-> Master]
<1>1. /\ V \in Views
      /\ V[0].type = L[0].type /\ V[0].in = L[0].in /\ V[0].out = q
      /\ \A n \in Nodes \ {0} : V[n] = L[n]
  BY EqWritesFacts DEF Pair
<1>2. w \in Slot
  <2>1. Len(q) <= MaxChannels /\ Len(Master) <= MaxChannels /\ Master \in Seq(Buffers)
    BY SizeAssumption, SessionAssumption, MasterFacts DEF Pair
  <2>2. "LIMITER" \in Types
    BY DEF Types
  <2> QED
    BY <2>1, <2>2, NodeIsSlot
<1>3. 0 \in Nodes /\ 1 \in Nodes
  BY FixedFacts
<1> HIDE DEF V, w
<1>4. /\ [V EXCEPT ![1] = w] \in Views /\ [V EXCEPT ![1] = w][1] = w
      /\ \A n \in Nodes \ {1} : [V EXCEPT ![1] = w][n] = V[n]
  BY <1>1, <1>2, <1>3 DEF Views
<1> DEFINE W == [V EXCEPT ![1] = w]
<1>5. W[0] = V[0] /\ \A n \in Nodes \ {0, 1} : W[n] = L[n]
  BY <1>1, <1>3, <1>4
<1>6. W \in Views /\ W[1] = w
  BY <1>4
<1> HIDE DEF W
<1>7. LimiterPlaced(L, W, q)
  BY <1>1, <1>5, <1>6 DEF LimiterPlaced, w
<1> QED
  BY <1>7 DEF W, V, w

\* What the nodes read and write with the limiter in.
LEMMA LimiterUses ==
  ASSUME NEW L \in Views, NEW W, NEW q, LimiterPlaced(L, W, q)
  PROVE  /\ Outs(W, 1) = {0, 1} /\ Ins(W, 1) = Members(q) /\ Outs(W, 0) = Members(q)
         /\ Ins(W, 0) = Ins(L, 0) /\ Outs(L, 1) = {} /\ Ins(L, 1) = {}
         /\ \A n \in Nodes \ {0, 1} : Outs(W, n) = Outs(L, n) /\ Ins(W, n) = Ins(L, n)
         /\ \A n \in Nodes : /\ Members(q) \cap Outs(L, n) = {}
                             /\ Members(q) \cap Ins(L, n) = {}
         /\ Members(q) = {q[1], q[2]} /\ q[1] # q[2] /\ Members(q) \cap {0, 1, 2, 3} = {}
<1>1. /\ Outs(W, 1) = {0, 1} /\ Ins(W, 1) = Members(q) /\ Outs(W, 0) = Members(q)
      /\ Ins(W, 0) = Ins(L, 0)
      /\ \A n \in Nodes \ {0, 1} : Outs(W, n) = Outs(L, n) /\ Ins(W, n) = Ins(L, n)
  BY MasterFacts DEF LimiterPlaced, Outs, Ins
<1>2. Outs(L, 1) = {} /\ Ins(L, 1) = {}
  BY EmptyFacts DEF LimiterPlaced, Outs, Ins, Members
<1>3. \A n \in Nodes : Members(q) \cap Outs(L, n) = {} /\ Members(q) \cap Ins(L, n) = {}
  BY UsesType DEF LimiterPlaced
<1>4. Members(q) = {q[1], q[2]} /\ q[1] # q[2] /\ Members(q) \cap {0, 1, 2, 3} = {}
  BY PairMembers DEF LimiterPlaced, Pair
<1> QED
  BY <1>1, <1>2, <1>3, <1>4

\* The limiter is apart from the nodes and the strips, its input pair being fresh.
LEMMA LimiterKeepsApart ==
  ASSUME NEW L \in Views, NEW W, NEW q, LimiterPlaced(L, W, q),
         NEW S, NodesApart(L), StripsApart(L, S)
  PROVE  NodesApart(W) /\ StripsApart(W, S)
<1>1. /\ \A n \in Fixed : L[n].type = Boot[n].type
      /\ 2 \in Outs(L, 2) /\ 3 \in Outs(L, 3)
      /\ \A m, n \in Nodes : m # n => Outs(L, m) \cap Outs(L, n) = {}
      /\ \A m \in Nodes \ {0, 1} : Outs(L, m) \cap {0, 1} = {}
      /\ \A n \in Nodes : /\ L[n].type = "SAMPLER" => L[n].in = <<>>
                          /\ L[n].type = "LIMITER" => n = 1
  BY FixedFacts DEF NodesApart, Cue
<1>2. /\ W[1].type = "LIMITER" /\ W[0].type = L[0].type /\ W[0].in = L[0].in
      /\ Len(W[0].out) = 2
      /\ \A n \in Nodes \ {0, 1} : W[n] = L[n]
  BY DEF LimiterPlaced, Pair
<1>3. NodesApart(W)
  <2>1. \A n \in Fixed : W[n].type = Boot[n].type
    BY <1>1, <1>2, FixedFacts
  <2>2. 2 \in Outs(W, 2) /\ 3 \in Outs(W, 3)
    BY <1>1, LimiterUses, FixedFacts
  <2>3. ASSUME NEW m \in Nodes, NEW n \in Nodes, m # n PROVE Outs(W, m) \cap Outs(W, n) = {}
    <3>1. ASSUME NEW k \in Nodes, k # 1 PROVE Outs(W, 1) \cap Outs(W, k) = {}
      BY <1>1, <3>1, LimiterUses
    <3>2. ASSUME NEW k \in Nodes, k # 0 PROVE Outs(W, 0) \cap Outs(W, k) = {}
      <4>1. CASE k = 1
        BY <4>1, LimiterUses
      <4>2. CASE k # 1
        BY <3>2, <4>2, LimiterUses
      <4> QED
        BY <4>1, <4>2
    <3>3. CASE m \in {0, 1} \/ n \in {0, 1}
      BY <2>3, <3>1, <3>2, <3>3
    <3>4. CASE m \notin {0, 1} /\ n \notin {0, 1}
      BY <1>1, <2>3, <3>4, LimiterUses
    <3> QED
      BY <3>3, <3>4
  <2>4. \A m \in Nodes \ {0, 1} : /\ Outs(W, m) \cap {0, 1} = {}
                                  /\ Ins(W, 1) \cap Outs(W, m) \subseteq {NoBuffer}
    BY <1>1, LimiterUses
  <2>5. \A n \in Nodes : /\ W[n].type = "SAMPLER" => W[n].in = <<>>
                         /\ W[n].type = "LIMITER" => n = 1
    BY <1>1, <1>2, FixedFacts
  <2> QED
    BY <1>2, <2>1, <2>2, <2>3, <2>4, <2>5, FixedFacts DEF NodesApart, Cue
<1>4. StripsApart(W, S)
  <2>1. /\ S \subseteq (Nodes \ Fixed) \X (Nodes \ (Fixed \cup {BootLimiter}))
        /\ \A t \in S : /\ t[1] # 1 => L[t[1]].type = "SAMPLER"
                        /\ L[t[2]].type = "GAIN"
                        /\ 1 \notin Ins(L, t[2])
                        /\ \A m \in Nodes \ {t[1], t[2]} :
                             Ins(L, t[2]) \cap Outs(L, m) \subseteq {NoBuffer}
        /\ \A t, u \in S : t[2] = u[2] \/ (t[1] = u[1] /\ t[1] # 1) => t = u
    BY FixedFacts DEF StripsApart
  <2>2. \A t \in S : t[1] \in Nodes \ {0} /\ t[2] \in Nodes \ {0, 1}
    BY <2>1, FixedFacts
  <2>3. ASSUME NEW t \in S
        PROVE  /\ t[1] # 1 => W[t[1]].type = "SAMPLER"
               /\ W[t[2]].type = "GAIN"
               /\ 1 \notin Ins(W, t[2])
               /\ \A m \in Nodes \ {t[1], t[2]} :
                    Ins(W, t[2]) \cap Outs(W, m) \subseteq {NoBuffer}
    <3>1. /\ t[1] # 1 => W[t[1]].type = "SAMPLER"
          /\ W[t[2]].type = "GAIN" /\ 1 \notin Ins(W, t[2])
      BY <1>2, <2>1, <2>2, LimiterUses
    <3>2. ASSUME NEW m \in Nodes \ {t[1], t[2]}
          PROVE  Ins(W, t[2]) \cap Outs(W, m) \subseteq {NoBuffer}
      <4>0. Ins(W, t[2]) = Ins(L, t[2])
        BY <2>2, LimiterUses
      <4>1. CASE m = 0
        <5>1. Outs(W, 0) = Members(q) /\ Members(q) \cap Ins(L, t[2]) = {}
          BY <2>2, LimiterUses
        <5> QED
          BY <4>0, <4>1, <5>1
      <4>2. CASE m = 1
        BY <2>1, <2>2, <4>0, <4>2, LimiterUses DEF NoBuffer
      <4>3. CASE m \notin {0, 1}
        BY <2>1, <4>0, <4>3, LimiterUses
      <4> QED
        BY <4>1, <4>2, <4>3
    <3> QED
      BY <3>1, <3>2
  <2> QED
    BY <2>1, <2>3, FixedFacts DEF StripsApart
<1> QED
  BY <1>3, <1>4

\* Putting the limiter back keeps a whole session whole.
LEMMA LimiterKeepsWhole ==
  ASSUME NEW L \in Views, NEW W, NEW q, LimiterPlaced(L, W, q),
         NEW S, NodesApart(L), StripsApart(L, S), Whole(L, S)
  PROVE  Whole(W, S)
<1>1. /\ W \in Views /\ L[1] = Empty /\ L[1].type = "EMPTY"
      /\ W[1].type = "LIMITER" /\ W[1].in = q /\ W[1].out = Master
      /\ W[0].type = L[0].type /\ W[0].out = q /\ Pair(q)
      /\ \A n \in Nodes \ {0, 1} : W[n] = L[n]
  BY EmptyFacts DEF LimiterPlaced
<1>2. /\ \A t \in S : /\ L[t[1]].type = "SAMPLER"
                      /\ Pair(L[t[1]].out) /\ Pair(L[t[2]].out)
                      /\ L[t[2]].in = L[t[1]].out
                      /\ Outs(L, t[1]) \cap Members(Master) = {}
      /\ \A t, u \in S : t[1] = u[1] => t = u
  BY DEF Whole, StripsWhole
<1>3. ASSUME NEW t \in S PROVE W[t[1]] = L[t[1]] /\ W[t[2]] = L[t[2]]
  <2>1. t[1] \in Nodes \ {0, 1} /\ t[2] \in Nodes \ {0, 1}
    BY <1>1, <1>2, FixedFacts DEF StripsApart
  <2> QED
    BY <1>1, <2>1
<1>4. StripsWhole(W, S)
  BY <1>2, <1>3 DEF StripsWhole, Outs
<1>5. BusesWhole(W, S)
  <2>1. ASSUME NEW side \in {1, 2}
        PROVE  LET bus == W[CueSum(side)].in IN
               /\ \A i, j \in DOMAIN bus : bus[i] = bus[j] => i = j
               /\ Members(bus) = {CueFeed(side)} \cup {W[t[2]].out[side] : t \in S}
               /\ \A n \in Nodes : CueFeed(side) \notin Outs(W, n)
    <3> DEFINE bus == L[CueSum(side)].in
    <3>1. CueSum(side) \in Nodes \ {0, 1}
      BY FixedFacts DEF CueSum
    <3>2. W[CueSum(side)].in = bus
      BY <1>1, <3>1
    <3>3. /\ \A i, j \in DOMAIN bus : bus[i] = bus[j] => i = j
          /\ Members(bus) = {CueFeed(side)} \cup {L[t[2]].out[side] : t \in S}
          /\ \A n \in Nodes : CueFeed(side) \notin Outs(L, n)
      BY DEF Whole, BusesWhole
    <3>4. CueFeed(side) \in Ins(L, CueSum(side)) /\ CueFeed(side) \in {8, 9}
      BY <3>3 DEF Ins, CueFeed
    <3>5. \A n \in Nodes : CueFeed(side) \notin Outs(W, n)
      BY <3>1, <3>3, <3>4, LimiterUses
    <3>6. {W[t[2]].out[side] : t \in S} = {L[t[2]].out[side] : t \in S}
      BY <1>3
    <3> QED
      BY <3>2, <3>3, <3>5, <3>6
  <2> QED
    BY <2>1 DEF BusesWhole
<1>6. ChainWhole(W)
  BY <1>1, LimiterUses, FixedFacts DEF ChainWhole
<1>7. CountsExact(W, S)
  <2> DEFINE c == Cardinality(Members(Cue) \cup {4, 5, 8, 9})
             T == BuffersInUse(L) \ Members(Master)
             U == BuffersInUse(W) \ Members(Master)
  <2>1. /\ IsFiniteSet(S)
        /\ Cardinality(OccupiedSlots(L)) = Cardinality(Fixed) + Limiters(L) + 2 * Cardinality(S)
        /\ Cardinality(T) = c + 2 * Limiters(L) + 4 * Cardinality(S)
        /\ \A side \in {1, 2} : Len(L[CueSum(side)].in) = 1 + Cardinality(S)
    BY DEF Whole, CountsExact
  <2>2. Cardinality(S) \in Nat
    BY <2>1, FS_CardinalityType
  <2>3. Limiters(L) = 0 /\ Limiters(W) = 1
    BY <1>1, FixedFacts DEF Limiters
  <2>4. Cardinality(OccupiedSlots(W)) = Cardinality(OccupiedSlots(L)) + 1
    <3>1. OccupiedSlots(W) = OccupiedSlots(L) \cup {1} /\ 1 \notin OccupiedSlots(L)
      <4>1. ASSUME NEW n \in Nodes
            PROVE  W[n].type # "EMPTY" <=> L[n].type # "EMPTY" \/ n = 1
        BY <1>1
      <4>2. \A n : n \in OccupiedSlots(W) <=> n \in Nodes /\ W[n].type # "EMPTY"
        BY <1>1, OccupiedFacts
      <4>3. \A n : n \in OccupiedSlots(L) <=> n \in Nodes /\ L[n].type # "EMPTY"
        BY OccupiedFacts
      <4>4. 1 \in Nodes
        BY FixedFacts
      <4> QED
        BY <1>1, <4>1, <4>2, <4>3, <4>4
    <3> QED
      BY <3>1, OccupiedFacts, FS_AddElement
  <2>5. U = T \cup {q[1], q[2]}
    <3>1. \A b : b \in BuffersInUse(L) <=> \E n \in Nodes : b \in Ins(L, n) \cup Outs(L, n)
      BY InUseFacts
    <3>2. \A b : b \in BuffersInUse(W) <=> \E n \in Nodes : b \in Ins(W, n) \cup Outs(W, n)
      BY <1>1, InUseFacts
    <3>3. Members(Master) = {0, 1} /\ Outs(L, 0) \subseteq {0, 1}
      BY <1>1, MasterFacts, FixedFacts DEF Whole, ChainWhole
    <3>4. ASSUME NEW n \in Nodes
          PROVE  /\ Ins(W, n) \cup Outs(W, n) \subseteq
                      Ins(L, n) \cup Outs(L, n) \cup Members(q) \cup {0, 1}
                 /\ Ins(L, n) \cup Outs(L, n) \subseteq Ins(W, n) \cup Outs(W, n) \cup {0, 1}
      <4>1. CASE n = 0
        BY <3>3, <4>1, LimiterUses
      <4>2. CASE n = 1
        BY <4>2, LimiterUses
      <4>3. CASE n \notin {0, 1}
        BY <4>3, LimiterUses
      <4> QED
        BY <4>1, <4>2, <4>3
    <3>5. BuffersInUse(W) \subseteq BuffersInUse(L) \cup Members(q) \cup {0, 1}
      BY <3>1, <3>2, <3>4
    <3>6. BuffersInUse(L) \subseteq BuffersInUse(W) \cup {0, 1}
      BY <3>1, <3>2, <3>4
    <3>7. Members(q) \subseteq BuffersInUse(W) /\ Members(q) \cap {0, 1} = {}
      BY <3>2, LimiterUses, FixedFacts
    <3>8. Members(q) = {q[1], q[2]}
      BY LimiterUses
    <3> QED
      BY <3>3, <3>5, <3>6, <3>7, <3>8
  <2>6. IsFiniteSet(T) /\ q[1] \notin T /\ q[2] \notin T /\ q[1] # q[2]
    <3>1. q[1] \notin BuffersInUse(L) /\ q[2] \notin BuffersInUse(L)
      <4>1. Members(q) = {q[1], q[2]}
        BY LimiterUses
      <4>2. Members(q) \cap (BuffersInUse(L) \cup {0, 1, 2, 3}) = {}
        BY DEF LimiterPlaced
      <4> QED
        BY <4>1, <4>2
    <3> QED
      BY <3>1, InUseFacts, LimiterUses, FS_Subset
  <2> HIDE DEF T, U, c
  <2>7. Cardinality(T \cup {q[1], q[2]}) = Cardinality(T) + 2
    BY <2>6, AddTwo
  <2>8. Cardinality(U) = Cardinality(T \cup {q[1], q[2]})
    BY <2>5, Zenon
  <2>9. Cardinality(Fixed) \in Nat /\ c \in Nat
    BY BaseCounts DEF c
  <2>10. Cardinality(U) = c + 2 * Limiters(W) + 4 * Cardinality(S)
    BY <2>1, <2>2, <2>3, <2>7, <2>8, <2>9
  <2>11. Cardinality(OccupiedSlots(W)) = Cardinality(Fixed) + Limiters(W) + 2 * Cardinality(S)
    BY <2>1, <2>2, <2>3, <2>4, <2>9
  <2>12. \A side \in {1, 2} : Len(W[CueSum(side)].in) = 1 + Cardinality(S)
    <3>1. \A side \in {1, 2} : CueSum(side) \in Nodes \ {0, 1}
      BY FixedFacts DEF CueSum
    <3> QED
      BY <1>1, <2>1, <3>1
  <2> QED
    BY <2>1, <2>10, <2>11, <2>12 DEF CountsExact, c, U
<1> QED
  BY <1>4, <1>5, <1>6, <1>7 DEF Whole

-----------------------------------------------------------------------------
(***************************************************************************)
(* set_master_limiter(false): what it asks of the graph, and what comes of *)
(* it.                                                                     *)
(***************************************************************************)
\* W is L without what is in slot 1, the EQ on the master.
LimiterRemoved(L, W) ==
    /\ W \in Views /\ W[1] = Empty
    /\ W[0].type = L[0].type /\ W[0].in = L[0].in /\ W[0].out = Master
    /\ \A n \in Nodes \ {0, 1} : W[n] = L[n]

\* The buffers of the node in the limiter's slot.
LimiterLost(L) == Uses(L[1]) \ {NoBuffer}

\* set_master_limiter(false) asks for the EQ on the master and for slot 1 to be empty,
\* at the cost of what the node in slot 1 used.
LEMMA LimiterRemovedFacts ==
  ASSUME NEW L \in Views, NodesApart(L)
  PROVE  LET W == [EqWrites(L, Master) EXCEPT ![1] = Empty] IN
         LimiterRemoved(L, W) /\ Feasible(L, W, LimiterLost(L))
<1> DEFINE V == EqWrites(L, Master)
<1>1. /\ V \in Views
      /\ V[0].type = L[0].type /\ V[0].in = L[0].in /\ V[0].out = Master
      /\ \A n \in Nodes \ {0} : V[n] = L[n]
  BY EqWritesFacts, MasterFacts
<1>2. 0 \in Nodes /\ 1 \in Nodes /\ Empty \in Slot
  BY FixedFacts, EmptySlot
<1> HIDE DEF V
<1>3. /\ [V EXCEPT ![1] = Empty] \in Views /\ [V EXCEPT ![1] = Empty][1] = Empty
      /\ \A n \in Nodes \ {1} : [V EXCEPT ![1] = Empty][n] = V[n]
  BY <1>1, <1>2 DEF Views
<1> DEFINE W == [V EXCEPT ![1] = Empty]
<1>4. LimiterRemoved(L, W)
  BY <1>1, <1>2, <1>3 DEF LimiterRemoved
<1> HIDE DEF W
<1>5. ASSUME NEW n \in Nodes
      PROVE  /\ L[n] # Empty /\ W[n] # Empty => Len(W[n].out) >= Len(L[n].out)
             /\ L[n] # Empty /\ W[n] = Empty => Uses(L[n]) \ {NoBuffer} \subseteq LimiterLost(L)
  <2>1. CASE n = 0
    <3>1. Len(W[0].out) = 2 /\ Len(L[0].out) = 2
      BY <1>4, MasterFacts, FixedFacts DEF LimiterRemoved, NodesApart
    <3>2. W[0] # Empty
      <4>1. Len(Empty.out) = 0
        BY EmptyFacts
      <4>2. 0 # 2
        OBVIOUS
      <4> QED
        BY <3>1, <4>1, <4>2, Zenon
    <3> QED
      BY <2>1, <3>1, <3>2
  <2>2. CASE n = 1
    BY <1>4, <2>2 DEF LimiterRemoved, LimiterLost
  <2>3. CASE n \notin {0, 1}
    <3>1. W[n] = L[n] /\ Len(L[n].out) \in Nat
      BY <1>4, <2>3, UsesType, LenProperties DEF LimiterRemoved
    <3> QED
      BY <3>1
  <2> QED
    BY <2>1, <2>2, <2>3
<1>6. Feasible(L, W, LimiterLost(L))
  BY <1>5 DEF Feasible
<1> QED
  BY <1>4, <1>6 DEF W, V

\* What a switch-off that ran leaves of the others.
LimiterGone(L, D) ==
    /\ D \in Views /\ D[1] = Empty
    /\ Len(D[0].out) = 2 /\ Outs(D, 0) \subseteq {0, 1}
    /\ \A n \in Nodes \ {1} :
         /\ D[n].type = L[n].type /\ Len(D[n].in) = Len(L[n].in)
         /\ Ins(D, n) \subseteq Ins(L, n) \cup {NoBuffer}
         /\ Ins(L, n) \subseteq Ins(D, n) \cup LimiterLost(L)
    /\ \A n \in Nodes \ {0, 1} :
         /\ D[n].out = L[n].out /\ Outs(D, n) = Outs(L, n)
         /\ Ins(L, n) \cap LimiterLost(L) = {} => D[n] = L[n]

\* What the commands of a switch-off leave, whatever was in slot 1: the EQ may lose a
\* side of the master, other nodes lose inputs but no outputs.
LEMMA LimiterGoneFacts ==
  ASSUME NEW L \in Views, NodesApart(L), NEW D \in Views, NEW W, LimiterRemoved(L, W),
         \A n \in Nodes : Near(D[n], W[n], LimiterLost(L))
  PROVE  LimiterGone(L, D)
<1> DEFINE lost == LimiterLost(L)
<1>1. /\ W \in Views /\ W[1] = Empty
      /\ W[0].type = L[0].type /\ W[0].in = L[0].in /\ W[0].out = Master
      /\ \A n \in Nodes \ {0, 1} : W[n] = L[n]
      /\ 0 \in Nodes /\ 1 \in Nodes
  BY FixedFacts DEF LimiterRemoved
<1>2. D[1] = Empty
  <2>1. D[1].type = "EMPTY" /\ D[1] \in Slot
    BY <1>1, EmptyFacts DEF Near, Views
  <2> QED
    BY <2>1, SlotFacts
<1>3. ASSUME NEW n \in Nodes \ {1}
      PROVE  /\ D[n].type = L[n].type /\ Len(D[n].in) = Len(L[n].in)
             /\ Ins(D, n) \subseteq Ins(L, n) \cup {NoBuffer}
             /\ Ins(L, n) \subseteq Ins(D, n) \cup lost
             /\ Outs(D, n) \subseteq Outs(W, n) \cup {NoBuffer}
             /\ Len(D[n].out) = Len(W[n].out)
             /\ Outs(W, n) \cap lost = {} => D[n].out = W[n].out
  <2>1. /\ D[n].in \in Seq(Buffers) /\ D[n].out \in Seq(Buffers)
        /\ W[n].in \in Seq(Buffers) /\ W[n].out \in Seq(Buffers)
    BY <1>1, UsesType
  <2>2. /\ D[n].type = W[n].type /\ Faded(D[n].in, W[n].in, lost)
        /\ Faded(D[n].out, W[n].out, lost)
    BY DEF Near
  <2> HIDE DEF lost
  <2>3. /\ Members(D[n].in) \subseteq Members(W[n].in) \cup {NoBuffer}
        /\ Members(W[n].in) \subseteq Members(D[n].in) \cup lost
    BY <2>1, <2>2, FadedFacts
  <2>4. /\ Members(D[n].out) \subseteq Members(W[n].out) \cup {NoBuffer}
        /\ Members(W[n].out) \cap lost = {} => D[n].out = W[n].out
    BY <2>1, <2>2, FadedFacts
  <2>5. W[n].in = L[n].in /\ W[n].type = L[n].type
    BY <1>1
  <2> QED
    BY <2>2, <2>3, <2>4, <2>5 DEF Ins, Outs, Faded
<1>4. Len(D[0].out) = 2 /\ Outs(D, 0) \subseteq {0, 1}
  <2>1. Outs(W, 0) = {0, 1} /\ Len(W[0].out) = 2
    BY <1>1, MasterFacts DEF Outs
  <2> QED
    BY <1>1, <1>3, <2>1 DEF NoBuffer
<1>5. ASSUME NEW n \in Nodes \ {0, 1}
      PROVE  /\ D[n].out = L[n].out /\ Outs(D, n) = Outs(L, n)
             /\ Ins(L, n) \cap lost = {} => D[n] = L[n]
  <2>1. Outs(L, n) \cap lost = {}
    <3>1. Outs(L, n) \cap Outs(L, 1) = {} /\ Ins(L, 1) \cap Outs(L, n) \subseteq {NoBuffer}
      BY <1>1, FixedFacts DEF NodesApart
    <3> QED
      BY <3>1 DEF LimiterLost, Uses, Ins, Outs
  <2>2. Outs(W, n) = Outs(L, n) /\ W[n] = L[n]
    BY <1>1 DEF Outs
  <2>3. D[n].out = L[n].out
    BY <1>3, <2>1, <2>2
  <2>4. ASSUME Ins(L, n) \cap lost = {} PROVE D[n] = L[n]
    <3>1. Uses(W[n]) \cap lost = {}
      BY <2>1, <2>2, <2>4 DEF Uses, Ins, Outs
    <3>2. D[n] \in Slot /\ W[n] \in Slot /\ Near(D[n], W[n], lost)
      BY <1>1 DEF Views
    <3> HIDE DEF lost
    <3>3. D[n] = W[n]
      BY <3>1, <3>2, NearExact
    <3> QED
      BY <2>2, <3>3
  <2> QED
    BY <2>3, <2>4 DEF Outs
<1> QED
  BY <1>2, <1>3, <1>4, <1>5 DEF LimiterGone

\* A switch-off leaves nodes and strips apart, whatever was in slot 1.
LEMMA LimiterGoneApart ==
  ASSUME NEW L \in Views, NEW D, LimiterGone(L, D),
         NEW S, NodesApart(L), StripsApart(L, S)
  PROVE  NodesApart(D) /\ StripsApart(D, S)
<1>1. /\ \A n \in Fixed : L[n].type = Boot[n].type
      /\ 2 \in Outs(L, 2) /\ 3 \in Outs(L, 3)
      /\ \A m, n \in Nodes : m # n => Outs(L, m) \cap Outs(L, n) = {}
      /\ \A m \in Nodes \ {0, 1} : Outs(L, m) \cap {0, 1} = {}
      /\ \A n \in Nodes : /\ L[n].type = "SAMPLER" => L[n].in = <<>>
                          /\ L[n].type = "LIMITER" => n = 1
  BY FixedFacts DEF NodesApart, Cue
<1>2. /\ D \in Views /\ D[1] = Empty
      /\ Len(D[0].out) = 2 /\ Outs(D, 0) \subseteq {0, 1}
      /\ \A n \in Nodes \ {1} : /\ D[n].type = L[n].type /\ Len(D[n].in) = Len(L[n].in)
                                /\ Ins(D, n) \subseteq Ins(L, n) \cup {NoBuffer}
      /\ \A n \in Nodes \ {0, 1} : Outs(D, n) = Outs(L, n)
  BY DEF LimiterGone
<1>3. Outs(D, 1) = {} /\ Ins(D, 1) = {}
  BY <1>2, EmptyFacts DEF Outs, Ins, Members
<1>4. NodesApart(D)
  <2>1. \A n \in Fixed : D[n].type = Boot[n].type
    BY <1>1, <1>2, FixedFacts
  <2>2. 2 \in Outs(D, 2) /\ 3 \in Outs(D, 3)
    BY <1>1, <1>2, FixedFacts
  <2>3. ASSUME NEW m \in Nodes, NEW n \in Nodes, m # n PROVE Outs(D, m) \cap Outs(D, n) = {}
    <3>1. CASE m = 1 \/ n = 1
      BY <1>3, <3>1
    <3>2. CASE m # 1 /\ n # 1 /\ (m = 0 \/ n = 0)
      BY <1>1, <1>2, <2>3, <3>2
    <3>3. CASE m \notin {0, 1} /\ n \notin {0, 1}
      BY <1>1, <1>2, <2>3, <3>3
    <3> QED
      BY <3>1, <3>2, <3>3
  <2>4. \A m \in Nodes \ {0, 1} : /\ Outs(D, m) \cap {0, 1} = {}
                                  /\ Ins(D, 1) \cap Outs(D, m) \subseteq {NoBuffer}
    BY <1>1, <1>2, <1>3
  <2>5. ASSUME NEW n \in Nodes
        PROVE  /\ D[n].type = "SAMPLER" => D[n].in = <<>>
               /\ D[n].type = "LIMITER" => n = 1
    <3>1. CASE n = 1
      BY <1>2, <3>1, EmptyFacts
    <3>2. CASE n # 1
      <4>1. ASSUME D[n].type = "SAMPLER" PROVE D[n].in = <<>>
        <5>1. L[n].in = <<>> /\ Len(D[n].in) = Len(L[n].in)
          BY <1>1, <1>2, <3>2, <4>1
        <5>2. D[n].in \in Seq(Buffers) /\ Len(D[n].in) = 0
          BY <1>2, <5>1, UsesType, EmptyFacts
        <5> QED
          BY <5>2, EmptySeq
      <4> QED
        BY <1>1, <1>2, <3>2, <4>1
    <3> QED
      BY <3>1, <3>2
  <2> QED
    BY <1>2, <2>1, <2>2, <2>3, <2>4, <2>5, FixedFacts DEF NodesApart, Cue
<1>5. StripsApart(D, S)
  <2>1. /\ S \subseteq (Nodes \ Fixed) \X (Nodes \ (Fixed \cup {BootLimiter}))
        /\ \A t \in S : /\ t[1] # 1 => L[t[1]].type = "SAMPLER"
                        /\ L[t[2]].type = "GAIN"
                        /\ 1 \notin Ins(L, t[2])
                        /\ \A m \in Nodes \ {t[1], t[2]} :
                             Ins(L, t[2]) \cap Outs(L, m) \subseteq {NoBuffer}
        /\ \A t, u \in S : t[2] = u[2] \/ (t[1] = u[1] /\ t[1] # 1) => t = u
    BY FixedFacts DEF StripsApart
  <2>2. \A t \in S : t[1] \in Nodes \ {0} /\ t[2] \in Nodes \ {0, 1}
    BY <2>1, FixedFacts
  <2>3. ASSUME NEW t \in S
        PROVE  /\ t[1] # 1 => D[t[1]].type = "SAMPLER"
               /\ D[t[2]].type = "GAIN"
               /\ 1 \notin Ins(D, t[2])
               /\ \A m \in Nodes \ {t[1], t[2]} :
                    Ins(D, t[2]) \cap Outs(D, m) \subseteq {NoBuffer}
    <3>1. /\ t[1] # 1 => D[t[1]].type = "SAMPLER"
          /\ D[t[2]].type = "GAIN" /\ Ins(D, t[2]) \subseteq Ins(L, t[2]) \cup {NoBuffer}
      BY <1>2, <2>1, <2>2
    <3>2. 1 \notin Ins(D, t[2])
      BY <2>1, <3>1 DEF NoBuffer
    <3>3. ASSUME NEW m \in Nodes \ {t[1], t[2]}
          PROVE  Ins(D, t[2]) \cap Outs(D, m) \subseteq {NoBuffer}
      <4>1. CASE m = 0
        BY <1>2, <3>2, <4>1 DEF NoBuffer
      <4>2. CASE m = 1
        BY <1>3, <4>2
      <4>3. CASE m \notin {0, 1}
        <5>1. Outs(D, m) = Outs(L, m) /\ Ins(L, t[2]) \cap Outs(L, m) \subseteq {NoBuffer}
          BY <1>2, <2>1, <4>3
        <5> QED
          BY <3>1, <5>1
      <4> QED
        BY <4>1, <4>2, <4>3
    <3> QED
      BY <3>1, <3>2, <3>3
  <2> QED
    BY <2>1, <2>3, FixedFacts DEF StripsApart
<1> QED
  BY <1>4, <1>5

\* Taking the limiter itself out keeps a whole session whole.
LEMMA LimiterGoneWhole ==
  ASSUME NEW L \in Views, NEW D, LimiterGone(L, D), L[1].type = "LIMITER",
         NEW S, NodesApart(L), StripsApart(L, S), Whole(L, S)
  PROVE  Whole(D, S)
<1> DEFINE pair == L[0].out
<1>1. /\ D \in Views /\ D[1] = Empty /\ D[1].type = "EMPTY"
      /\ Outs(D, 0) \subseteq {0, 1}
      /\ \A n \in Nodes \ {1} : /\ D[n].type = L[n].type /\ Len(D[n].in) = Len(L[n].in)
                                /\ Ins(D, n) \subseteq Ins(L, n) \cup {0}
                                /\ Ins(L, n) \subseteq Ins(D, n) \cup LimiterLost(L)
      /\ \A n \in Nodes \ {0, 1} : /\ D[n].out = L[n].out /\ Outs(D, n) = Outs(L, n)
                                   /\ Ins(L, n) \cap LimiterLost(L) = {} => D[n] = L[n]
  BY EmptyFacts DEF LimiterGone, NoBuffer
<1>2. /\ L[1].in = pair /\ L[1].out = Master /\ Pair(pair)
      /\ \A m \in Nodes \ {1} : Ins(L, m) \cap Members(pair) = {}
      /\ Outs(L, 0) = Members(pair) /\ Outs(L, 1) = {0, 1} /\ Ins(L, 1) = Members(pair)
      /\ 0 \in Nodes /\ 1 \in Nodes
  BY MasterFacts, FixedFacts DEF Whole, ChainWhole, Outs, Ins
<1>3. /\ \A m, n \in Nodes : m # n => Outs(L, m) \cap Outs(L, n) = {}
      /\ \A n \in Nodes : L[n].type = "SAMPLER" => L[n].in = <<>>
  BY DEF NodesApart
<1>4. pair \in Seq(Buffers) /\ Members(pair) = {pair[1], pair[2]} /\ pair[1] # pair[2]
  BY <1>2, UsesType, PairMembers DEF Pair
<1> HIDE DEF pair
<1>5. LimiterLost(L) \subseteq Members(pair) \cup {1} /\ Members(pair) \cap {0, 1} = {}
  <2>1. Uses(L[1]) = Members(pair) \cup {0, 1}
    BY <1>2 DEF Uses, Ins, Outs
  <2>2. Outs(L, 0) \cap Outs(L, 1) = {}
    BY <1>2, <1>3
  <2> QED
    BY <1>2, <2>1, <2>2 DEF LimiterLost, NoBuffer
<1>6. /\ \A t \in S : /\ L[t[1]].type = "SAMPLER"
                      /\ Pair(L[t[1]].out) /\ Pair(L[t[2]].out)
                      /\ L[t[2]].in = L[t[1]].out
                      /\ Outs(L, t[1]) \cap {0, 1} = {}
      /\ \A t, u \in S : t[1] = u[1] => t = u
  BY MasterFacts DEF Whole, StripsWhole
<1>7. ASSUME NEW t \in S
      PROVE  /\ D[t[1]] = L[t[1]] /\ D[t[2]] = L[t[2]]
             /\ t[1] \in Nodes \ {0, 1} /\ t[2] \in Nodes \ {0, 1}
  <2>1. t[1] \in Nodes \ {0} /\ t[2] \in Nodes \ {0, 1}
    BY FixedFacts DEF StripsApart
  <2>2. t[1] # 1
    BY <1>6
  <2>3. Ins(L, t[1]) = {} /\ Ins(L, t[2]) = Outs(L, t[1])
    BY <1>3, <1>6, <2>1, EmptyFacts DEF Outs, Ins, Members
  <2>4. Ins(L, t[1]) \cap LimiterLost(L) = {}
    BY <2>3
  <2>5. Ins(L, t[2]) \cap Members(pair) = {} /\ 1 \notin Ins(L, t[2])
    BY <1>2, <1>6, <2>1, <2>3
  <2>6. Ins(L, t[2]) \cap LimiterLost(L) = {}
    BY <1>5, <2>5
  <2> QED
    BY <1>1, <2>1, <2>2, <2>4, <2>6
<1>8. StripsWhole(D, S)
  BY <1>6, <1>7, MasterFacts DEF StripsWhole, Outs
<1>9. ASSUME NEW side \in {1, 2} PROVE D[CueSum(side)] = L[CueSum(side)]
  <2>1. CueSum(side) \in Nodes \ {0, 1}
    BY FixedFacts DEF CueSum
  <2>2. Ins(L, CueSum(side)) = {CueFeed(side)} \cup {L[t[2]].out[side] : t \in S}
    BY DEF Whole, BusesWhole, Ins
  <2>3. 1 \notin Ins(L, CueSum(side))
    <3>1. CueFeed(side) # 1
      BY DEF CueFeed
    <3>2. ASSUME NEW t \in S PROVE L[t[2]].out[side] # 1
      <4>1. L[t[2]].out \in Seq(Buffers) /\ Len(L[t[2]].out) = 2 /\ t[2] \in Nodes
        BY <1>6, <1>7, UsesType DEF Pair
      <4>2. L[t[2]].out[side] \in Outs(L, t[2])
        BY <4>1, PairMembers DEF Outs
      <4>3. 1 \notin Outs(L, t[2])
        BY <1>2, <1>3, <1>7
      <4> QED
        BY <4>2, <4>3
    <3> QED
      BY <2>2, <3>1, <3>2
  <2>4. Ins(L, CueSum(side)) \cap LimiterLost(L) = {}
    BY <1>2, <1>5, <2>1, <2>3
  <2> QED
    BY <1>1, <2>1, <2>4
<1>10. BusesWhole(D, S)
  <2>1. ASSUME NEW side \in {1, 2}
        PROVE  LET bus == D[CueSum(side)].in IN
               /\ \A i, j \in DOMAIN bus : bus[i] = bus[j] => i = j
               /\ Members(bus) = {CueFeed(side)} \cup {D[t[2]].out[side] : t \in S}
               /\ \A n \in Nodes : CueFeed(side) \notin Outs(D, n)
    <3> DEFINE bus == L[CueSum(side)].in
    <3>1. /\ \A i, j \in DOMAIN bus : bus[i] = bus[j] => i = j
          /\ Members(bus) = {CueFeed(side)} \cup {L[t[2]].out[side] : t \in S}
          /\ \A n \in Nodes : CueFeed(side) \notin Outs(L, n)
      BY DEF Whole, BusesWhole
    <3>2. Outs(D, 1) = {}
      BY <1>1, EmptyFacts DEF Outs, Members
    <3>3. CueFeed(side) \notin {0, 1}
      BY DEF CueFeed
    <3>4. \A n \in Nodes : CueFeed(side) \notin Outs(D, n)
      BY <1>1, <3>1, <3>2, <3>3
    <3>5. {D[t[2]].out[side] : t \in S} = {L[t[2]].out[side] : t \in S}
      BY <1>7
    <3>6. D[CueSum(side)].in = bus
      BY <1>9
    <3> QED
      BY <3>1, <3>4, <3>5, <3>6
  <2> QED
    BY <2>1 DEF BusesWhole
<1>11. ChainWhole(D)
  BY <1>1, MasterFacts, FixedFacts DEF ChainWhole
<1>12. CountsExact(D, S)
  <2> DEFINE c == Cardinality(Members(Cue) \cup {4, 5, 8, 9})
             T == BuffersInUse(L) \ Members(Master)
             U == BuffersInUse(D) \ Members(Master)
  <2>1. /\ IsFiniteSet(S)
        /\ Cardinality(OccupiedSlots(L)) = Cardinality(Fixed) + Limiters(L) + 2 * Cardinality(S)
        /\ Cardinality(T) = c + 2 * Limiters(L) + 4 * Cardinality(S)
        /\ \A side \in {1, 2} : Len(L[CueSum(side)].in) = 1 + Cardinality(S)
    BY DEF Whole, CountsExact
  <2>2. Cardinality(S) \in Nat
    BY <2>1, FS_CardinalityType
  <2>3. Limiters(L) = 1 /\ Limiters(D) = 0
    BY <1>1, FixedFacts DEF Limiters
  <2>4. Cardinality(OccupiedSlots(D)) = Cardinality(OccupiedSlots(L)) - 1
    <3>1. OccupiedSlots(D) = OccupiedSlots(L) \ {1} /\ 1 \in OccupiedSlots(L)
      <4>1. \A n : n \in OccupiedSlots(D) <=> n \in Nodes /\ D[n].type # "EMPTY"
        BY <1>1, OccupiedFacts
      <4>2. \A n : n \in OccupiedSlots(L) <=> n \in Nodes /\ L[n].type # "EMPTY"
        BY OccupiedFacts
      <4> QED
        BY <1>1, <1>2, <4>1, <4>2
    <3> QED
      BY <3>1, OccupiedFacts, FS_RemoveElement
  <2>5. U = T \ {pair[1], pair[2]}
    <3>1. \A b : b \in BuffersInUse(L) <=> \E n \in Nodes : b \in Ins(L, n) \cup Outs(L, n)
      BY InUseFacts
    <3>2. \A b : b \in BuffersInUse(D) <=> \E n \in Nodes : b \in Ins(D, n) \cup Outs(D, n)
      BY <1>1, InUseFacts
    <3>3. Outs(D, 1) = {} /\ Ins(D, 1) = {}
      BY <1>1, EmptyFacts DEF Outs, Ins, Members
    <3>4. ASSUME NEW n \in Nodes
          PROVE  /\ Ins(D, n) \cup Outs(D, n) \subseteq
                      ((Ins(L, n) \cup Outs(L, n)) \ Members(pair)) \cup {0, 1}
                 /\ Ins(L, n) \cup Outs(L, n) \subseteq
                      Ins(D, n) \cup Outs(D, n) \cup Members(pair) \cup {0, 1}
      <4>1. CASE n = 0
        BY <1>1, <1>2, <1>5, <4>1
      <4>2. CASE n = 1
        BY <1>2, <3>3, <4>2
      <4>3. CASE n \notin {0, 1}
        <5>1. Outs(L, n) \cap Members(pair) = {} /\ Ins(L, n) \cap Members(pair) = {}
          BY <1>2, <1>3, <4>3
        <5>2. Outs(D, n) = Outs(L, n) /\ Ins(D, n) \subseteq Ins(L, n) \cup {0}
              /\ Ins(L, n) \subseteq Ins(D, n) \cup Members(pair) \cup {1}
          BY <1>1, <1>5, <4>3
        <5> QED
          BY <5>1, <5>2
      <4> QED
        BY <4>1, <4>2, <4>3
    <3>5. BuffersInUse(D) \subseteq (BuffersInUse(L) \ Members(pair)) \cup {0, 1}
      BY <3>1, <3>2, <3>4
    <3>6. BuffersInUse(L) \subseteq BuffersInUse(D) \cup Members(pair) \cup {0, 1}
      BY <3>1, <3>2, <3>4
    <3> QED
      BY <1>4, <3>5, <3>6, MasterFacts
  <2>6. IsFiniteSet(T) /\ pair[1] \in T /\ pair[2] \in T
    <3>1. Members(pair) \subseteq BuffersInUse(L)
      BY <1>2, UsesType
    <3>2. IsFiniteSet(T)
      BY InUseFacts, FS_Subset
    <3> QED
      BY <1>4, <1>5, <3>1, <3>2, MasterFacts
  <2> HIDE DEF T, U, c
  <2>7. Cardinality(T \ {pair[1], pair[2]}) = Cardinality(T) - 2
    BY <1>4, <2>6, RemoveTwo
  <2>8. Cardinality(U) = Cardinality(T \ {pair[1], pair[2]})
    BY <2>5, Zenon
  <2>9. Cardinality(Fixed) \in Nat /\ c \in Nat
    BY BaseCounts DEF c
  <2>10. Cardinality(U) = c + 2 * Limiters(D) + 4 * Cardinality(S)
    BY <2>1, <2>2, <2>3, <2>7, <2>8, <2>9
  <2>11. Cardinality(OccupiedSlots(D)) = Cardinality(Fixed) + Limiters(D) + 2 * Cardinality(S)
    BY <2>1, <2>2, <2>3, <2>4, <2>9
  <2>12. \A side \in {1, 2} : Len(D[CueSum(side)].in) = 1 + Cardinality(S)
    BY <1>9, <2>1
  <2> QED
    BY <2>1, <2>10, <2>11, <2>12 DEF CountsExact, c, U
<1> QED
  BY <1>8, <1>10, <1>11, <1>12 DEF Whole

-----------------------------------------------------------------------------
(***************************************************************************)
(* The session bootstrap builds.                                           *)
(***************************************************************************)
LEMMA BootUses ==
  /\ Outs(Boot, 0) = {6, 7} /\ Ins(Boot, 0) = {4, 5}
  /\ Outs(Boot, 1) = {0, 1} /\ Ins(Boot, 1) = {6, 7}
  /\ Outs(Boot, 2) = {2}    /\ Ins(Boot, 2) = {8}
  /\ Outs(Boot, 3) = {3}    /\ Ins(Boot, 3) = {9}
  /\ Outs(Boot, 4) = {}     /\ Ins(Boot, 4) = {0, 1}
  /\ \A n \in Nodes \ {0, 1, 2, 3, 4} : Outs(Boot, n) = {} /\ Ins(Boot, n) = {}
<1>1. Members(<<>>) = {} /\ \A a : Members(<<a>>) = {a}
  BY DEF Members
<1>2. \A a, b : Members(<<a, b>>) = {a, b}
  <2> TAKE a, b
  <2>1. DOMAIN <<a, b>> = 1 .. 2 /\ 1 .. 2 = {1, 2}
    OBVIOUS
  <2> QED
    BY <2>1 DEF Members
<1>3. /\ Boot[0] = [type |-> "MASTERING_EQ", in |-> <<4, 5>>, out |-> <<6, 7>>]
      /\ Boot[1] = [type |-> "LIMITER", in |-> <<6, 7>>, out |-> <<0, 1>>]
      /\ Boot[2] = [type |-> "SUMMING", in |-> <<8>>, out |-> <<2>>]
      /\ Boot[3] = [type |-> "SUMMING", in |-> <<9>>, out |-> <<3>>]
      /\ Boot[4] = [type |-> "CAPTURE", in |-> <<0, 1>>, out |-> <<>>]
      /\ \A n \in Nodes \ {0, 1, 2, 3, 4} : Boot[n] = Empty
  BY FixedFacts DEF Boot, Master, Cue
<1> QED
  BY <1>1, <1>2, <1>3, EmptyFacts DEF Outs, Ins

\* The nodes bootstrap builds.
LEMMA BootNodes ==
  /\ Boot \in Views
  /\ Boot[0].type = "MASTERING_EQ" /\ Boot[1].type = "LIMITER"
  /\ Boot[2].type = "SUMMING" /\ Boot[3].type = "SUMMING" /\ Boot[4].type = "CAPTURE"
  /\ \A n \in Nodes \ {0, 1, 2, 3, 4} : Boot[n].type = "EMPTY"
  /\ Boot[0].out = <<6, 7>> /\ Boot[1].in = <<6, 7>> /\ Boot[1].out = Master
  /\ Boot[2].in = <<8>> /\ Boot[3].in = <<9>>
<1>1. {0, 1, 2, 3, 4, 5, 6, 7, 8, 9} \subseteq Buffers
  BY SizeAssumption, SessionAssumption DEF Buffers
<1>2. \A a, b \in Buffers : <<a, b>> \in Seq(Buffers) /\ Len(<<a, b>>) <= MaxChannels
  BY SizeAssumption, SessionAssumption
<1>3. \A a \in Buffers : <<a>> \in Seq(Buffers) /\ Len(<<a>>) <= MaxChannels
  BY SizeAssumption, SessionAssumption
<1>4. <<>> \in Seq(Buffers) /\ Len(<<>>) <= MaxChannels
  BY EmptyFacts, SizeAssumption, SessionAssumption
<1>5. /\ "MASTERING_EQ" \in Types /\ "LIMITER" \in Types /\ "SUMMING" \in Types
      /\ "CAPTURE" \in Types
  BY DEF Types
<1>6. /\ Boot[0] = [type |-> "MASTERING_EQ", in |-> <<4, 5>>, out |-> <<6, 7>>]
      /\ Boot[1] = [type |-> "LIMITER", in |-> <<6, 7>>, out |-> Master]
      /\ Boot[2] = [type |-> "SUMMING", in |-> <<8>>, out |-> <<2>>]
      /\ Boot[3] = [type |-> "SUMMING", in |-> <<9>>, out |-> <<3>>]
      /\ Boot[4] = [type |-> "CAPTURE", in |-> Master, out |-> <<>>]
      /\ \A n \in Nodes \ {0, 1, 2, 3, 4} : Boot[n] = Empty
  BY FixedFacts DEF Boot, Cue
<1>7. Master \in Seq(Buffers) /\ Len(Master) <= MaxChannels
  BY <1>1, <1>2 DEF Master
<1>8. ASSUME NEW n \in Nodes PROVE Boot[n] \in Slot
  <2>1. CASE n = 0
    <3>1. [type |-> "MASTERING_EQ", in |-> <<4, 5>>, out |-> <<6, 7>>] \in Slot
      BY <1>1, <1>2, <1>5, NodeIsSlot
    <3> QED
      BY <1>6, <2>1, <3>1
  <2>2. CASE n = 1
    <3>1. [type |-> "LIMITER", in |-> <<6, 7>>, out |-> Master] \in Slot
      BY <1>1, <1>2, <1>5, <1>7, NodeIsSlot
    <3> QED
      BY <1>6, <2>2, <3>1
  <2>3. CASE n = 2
    <3>1. [type |-> "SUMMING", in |-> <<8>>, out |-> <<2>>] \in Slot
      BY <1>1, <1>3, <1>5, NodeIsSlot
    <3> QED
      BY <1>6, <2>3, <3>1
  <2>4. CASE n = 3
    <3>1. [type |-> "SUMMING", in |-> <<9>>, out |-> <<3>>] \in Slot
      BY <1>1, <1>3, <1>5, NodeIsSlot
    <3> QED
      BY <1>6, <2>4, <3>1
  <2>5. CASE n = 4
    <3>1. [type |-> "CAPTURE", in |-> Master, out |-> <<>>] \in Slot
      BY <1>4, <1>5, <1>7, NodeIsSlot
    <3> QED
      BY <1>6, <2>5, <3>1
  <2>6. CASE n \notin {0, 1, 2, 3, 4}
    BY <1>6, <2>6, EmptySlot
  <2> QED
    BY <2>1, <2>2, <2>3, <2>4, <2>5, <2>6
<1>9. Boot \in Views
  <2>1. Boot = [n \in Nodes |-> Boot[n]]
    BY DEF Boot
  <2> HIDE DEF Boot
  <2> QED
    BY <1>8, <2>1 DEF Views
<1> QED
  BY <1>6, <1>9, EmptyFacts

\* They are apart.
LEMMA BootApart == NodesApart(Boot) /\ StripsApart(Boot, {})
<1>1. \A m, n \in Nodes : m # n => Outs(Boot, m) \cap Outs(Boot, n) = {}
  <2>1. \A n \in Nodes : \/ n = 0 /\ Outs(Boot, n) = {6, 7}
                         \/ n = 1 /\ Outs(Boot, n) = {0, 1}
                         \/ n = 2 /\ Outs(Boot, n) = {2}
                         \/ n = 3 /\ Outs(Boot, n) = {3}
                         \/ Outs(Boot, n) = {}
    BY BootUses
  <2> QED
    BY <2>1
<1>2. \A m \in Nodes \ {0, 1} : /\ Outs(Boot, m) \cap {0, 1} = {}
                                /\ Ins(Boot, 1) \cap Outs(Boot, m) \subseteq {NoBuffer}
  <2>1. \A n \in Nodes \ {0, 1} : Outs(Boot, n) \subseteq {2, 3}
    BY BootUses
  <2> QED
    BY <2>1, BootUses
<1>3. \A n \in Nodes : /\ Boot[n].type # "SAMPLER"
                       /\ Boot[n].type = "LIMITER" => n = 1
  <2> TAKE n \in Nodes
  <2>1. CASE n \in {0, 1, 2, 3, 4}
    BY <2>1, BootNodes
  <2>2. CASE n \notin {0, 1, 2, 3, 4}
    BY <2>2, BootNodes
  <2> QED
    BY <2>1, <2>2
<1>4. Len(Boot[0].out) = 2 /\ 2 \in Outs(Boot, 2) /\ 3 \in Outs(Boot, 3)
  BY BootNodes, BootUses
<1> QED
  BY <1>1, <1>2, <1>3, <1>4, FixedFacts DEF NodesApart, StripsApart, Cue

\* The booted session is whole.
LEMMA BootWhole == Whole(Boot, {})
<1>1. StripsWhole(Boot, {})
  BY DEF StripsWhole
<1>2. BusesWhole(Boot, {})
  <2>1. /\ CueSum(1) = 2 /\ CueSum(2) = 3 /\ CueFeed(1) = 8 /\ CueFeed(2) = 9
    BY FixedFacts DEF CueSum, CueFeed
  <2>2. Members(Boot[2].in) = {8} /\ Members(Boot[3].in) = {9}
    BY BootUses DEF Ins
  <2>3. /\ \A i, j \in DOMAIN Boot[2].in : Boot[2].in[i] = Boot[2].in[j] => i = j
        /\ \A i, j \in DOMAIN Boot[3].in : Boot[3].in[i] = Boot[3].in[j] => i = j
    BY BootNodes
  <2>4. \A n \in Nodes : 8 \notin Outs(Boot, n) /\ 9 \notin Outs(Boot, n)
    <3>1. \A n \in Nodes : Outs(Boot, n) \subseteq {0, 1, 2, 3, 6, 7}
      BY BootUses
    <3> QED
      BY <3>1
  <2>5. \A side \in {1, 2} : {Boot[s[2]].out[side] : s \in {}} = {}
    OBVIOUS
  <2> QED
    BY <2>1, <2>2, <2>3, <2>4, <2>5 DEF BusesWhole
<1>3. ChainWhole(Boot)
  <2>1. Boot[1].type = "LIMITER" /\ Boot[1].in = Boot[0].out /\ Boot[1].out = Master
    BY BootNodes, FixedFacts
  <2>2. Pair(Boot[0].out)
    BY BootNodes DEF Pair
  <2>3. \A m \in Nodes \ {1} : Ins(Boot, m) \cap Outs(Boot, 0) = {}
    <3>1. \A m \in Nodes \ {1} : Ins(Boot, m) \subseteq {0, 1, 4, 5, 8, 9}
      BY BootUses
    <3> QED
      BY <3>1, BootUses
  <2> QED
    BY <2>1, <2>2, <2>3, FixedFacts DEF ChainWhole
<1>4. CountsExact(Boot, {})
  <2> DEFINE B == Members(Cue) \cup {4, 5, 8, 9}
             U == BuffersInUse(Boot) \ Members(Master)
  <2>1. IsFiniteSet({}) /\ Cardinality({}) = 0
    BY FS_EmptySet
  <2>2. Limiters(Boot) = 1
    BY BootNodes, FixedFacts DEF Limiters
  <2>3. Cardinality(OccupiedSlots(Boot)) = Cardinality(Fixed) + 1
    <3>1. OccupiedSlots(Boot) = Fixed \cup {1}
      <4>1. \A n : n \in OccupiedSlots(Boot) <=> n \in Nodes /\ Boot[n].type # "EMPTY"
        BY BootNodes, OccupiedFacts
      <4>2. \A n \in Nodes : Boot[n].type # "EMPTY" <=> n \in {0, 1, 2, 3, 4}
        BY BootNodes
      <4> QED
        BY <4>1, <4>2, FixedFacts
    <3>2. IsFiniteSet(Fixed) /\ 1 \notin Fixed
      BY FixedFacts, BuffersFinite, FS_Subset
    <3>3. Cardinality(Fixed \cup {1}) = Cardinality(Fixed) + 1
      BY <3>2, FS_AddElement
    <3> QED
      BY <3>1, <3>3, Zenon
  <2>4. Members(Cue) = {2, 3} /\ Members(Master) = {0, 1}
    <3>1. 2 \in Buffers /\ 3 \in Buffers
      BY FixedFacts
    <3> QED
      BY <3>1, PairOf, MasterFacts DEF Cue
  <2>5. U = B \cup {6, 7}
    <3>1. \A b : b \in BuffersInUse(Boot)
             <=> \E n \in Nodes : b \in Ins(Boot, n) \cup Outs(Boot, n)
      BY BootNodes, InUseFacts
    <3>2. \A n \in Nodes : Ins(Boot, n) \cup Outs(Boot, n) \subseteq 0 .. 9
      <4>1. \A n \in Nodes : Ins(Boot, n) \subseteq {0, 1, 4, 5, 6, 7, 8, 9}
        BY BootUses
      <4>2. \A n \in Nodes : Outs(Boot, n) \subseteq {0, 1, 2, 3, 6, 7}
        BY BootUses
      <4> QED
        BY <4>1, <4>2
    <3>3. 0 .. 9 = {0, 1, 2, 3, 4, 5, 6, 7, 8, 9}
      OBVIOUS
    <3>4. {4, 5} \subseteq Ins(Boot, 0) /\ {6, 7} \subseteq Ins(Boot, 1)
          /\ 2 \in Outs(Boot, 2) /\ 3 \in Outs(Boot, 3) /\ 8 \in Ins(Boot, 2) /\ 9 \in Ins(Boot, 3)
          /\ {0, 1, 2, 3} \subseteq Nodes
      BY BootUses, FixedFacts
    <3>5. {2, 3, 4, 5, 6, 7, 8, 9} \subseteq BuffersInUse(Boot)
      BY <3>1, <3>4
    <3>6. BuffersInUse(Boot) \subseteq {0, 1, 2, 3, 4, 5, 6, 7, 8, 9}
      BY <3>1, <3>2, <3>3
    <3> QED
      BY <2>4, <3>5, <3>6
  <2>6. IsFiniteSet(B) /\ 6 \notin B /\ 7 \notin B
    <3>1. B \subseteq Buffers
      BY <2>4, SizeAssumption, SessionAssumption DEF Buffers
    <3> QED
      BY <2>4, <3>1, BuffersFinite, FS_Subset
  <2> HIDE DEF B, U
  <2>7. Cardinality(B \cup {6, 7}) = Cardinality(B) + 2
    BY <2>6, AddTwo
  <2>8. Cardinality(U) = Cardinality(B \cup {6, 7})
    BY <2>5, Zenon
  <2>9. Cardinality(Fixed) \in Nat /\ Cardinality(B) \in Nat
    BY BaseCounts DEF B
  <2>10. Cardinality(U) = Cardinality(B) + 2 * Limiters(Boot) + 4 * Cardinality({})
    BY <2>1, <2>2, <2>7, <2>8, <2>9
  <2>11. Cardinality(OccupiedSlots(Boot)) = Cardinality(Fixed) + Limiters(Boot) + 2 * Cardinality({})
    BY <2>1, <2>2, <2>3, <2>9
  <2>12. \A side \in {1, 2} : Len(Boot[CueSum(side)].in) = 1 + Cardinality({})
    <3>1. CueSum(1) = 2 /\ CueSum(2) = 3
      BY FixedFacts DEF CueSum
    <3>2. Len(Boot[2].in) = 1 /\ Len(Boot[3].in) = 1
      BY BootNodes
    <3>3. 1 + Cardinality({}) = 1
      BY <2>1
    <3>4. \A side \in {1, 2} : CueSum(side) = 2 \/ CueSum(side) = 3
      BY <3>1
    <3> HIDE DEF CueSum
    <3> QED
      BY <3>2, <3>3, <3>4
  <2> QED
    BY <2>1, <2>10, <2>11, <2>12 DEF CountsExact, B, U
<1> QED
  BY <1>1, <1>2, <1>3, <1>4 DEF Whole

\* The session starts as bootstrap builds it.
LEMMA StartsAtBoot ==
  ASSUME SessionInit
  PROVE  SessionInv
<1> DEFINE none == [n \in Nodes |-> "EMPTY"]
           live == [graph |-> EmptyGraph, types |-> none]
           after == Reconciled(live, Boot)
<1>1. live \in Lives /\ live.graph = EmptyGraph /\ live.types = none
  <2>1. none \in [Nodes -> Kinds]
    BY DEF Kinds
  <2> QED
    BY <2>1, EmptyGraphType DEF Lives
<1>2. graph = after.graph /\ types = after.types /\ strips = {} /\ limiterName = BootLimiter
      /\ misfired = FALSE
  BY DEF SessionInit
<1> DEFINE current == FromLive(EmptyGraph, none)
<1>3. \A n \in Nodes : current[n] = Empty
  BY DEF FromLive
<1> HIDE DEF current
<1>4. Feasible(current, Boot, {})
  BY <1>3 DEF Feasible
<1>5. Boot \in [Nodes -> Slot]
  BY BootNodes DEF Views
<1> HIDE DEF live, none
<1>6. Feasible(FromLive(live.graph, live.types), Boot, {})
  BY <1>1, <1>4 DEF current
<1>7. /\ after \in Lives
      /\ \A n \in Nodes : Near(FromLive(after.graph, after.types)[n], Boot[n], {})
  BY <1>1, <1>5, <1>6, ReconciledView
<1>8. FromLive(after.graph, after.types) \in [Nodes -> Slot]
  BY <1>7, ViewType
<1>9. Live = FromLive(after.graph, after.types)
  BY <1>2 DEF Live
<1>10. graph \in Graph /\ types \in [Nodes -> Types \cup {"EMPTY"}]
  BY <1>2, <1>7 DEF Lives, Kinds
<1> HIDE DEF after
<1>11. \A n \in Nodes : Live[n] = Boot[n]
  <2> TAKE n \in Nodes
  <2>1. Live[n] \in Slot /\ Boot[n] \in Slot /\ Near(Live[n], Boot[n], {})
    BY <1>5, <1>7, <1>8, <1>9
  <2> QED
    BY <2>1, NearExact
<1>12. Live = Boot
  BY <1>5, <1>8, <1>9, <1>11
<1> QED
  BY <1>2, <1>10, <1>12, BootApart, BootWhole DEF SessionInv

-----------------------------------------------------------------------------
(***************************************************************************)
(* Every edit keeps the session whole.                                     *)
(***************************************************************************)
LEMMA InvView ==
  ASSUME SessionInv
  PROVE  /\ Typed /\ Live \in Views /\ \A n \in Nodes : Live[n].type = types[n]
         /\ NodesApart(Live) /\ StripsApart(Live, strips) /\ limiterName = 1
<1>1. Typed
  BY DEF SessionInv, Typed, Kinds
<1> QED
  BY <1>1, LiveType, FixedFacts DEF SessionInv, Views

\* An edit that loses nothing leaves exactly what was wanted.
LEMMA ExactStep ==
  ASSUME Typed, NEW wanted \in Views, Feasible(Live, wanted, {}), ApplyReconciled(wanted)
  PROVE  Typed' /\ Live' = wanted /\ target' = wanted
<1>0. wanted \in [Nodes -> Slot]
  BY DEF Views
<1>1. /\ Typed' /\ target' = wanted /\ Live' \in [Nodes -> Slot]
      /\ \A n \in Nodes : Near(Live'[n], wanted[n], {})
  BY <1>0, ApplyFacts
<1>2. \A n \in Nodes : Live'[n] = wanted[n]
  <2> TAKE n \in Nodes
  <2>1. Live'[n] \in Slot /\ wanted[n] \in Slot /\ Near(Live'[n], wanted[n], {})
    BY <1>0, <1>1
  <2> QED
    BY <2>1, NearExact
<1> QED
  BY <1>0, <1>1, <1>2

\* Adding a strip keeps the invariant and arrives at its target.
LEMMA AddStep ==
  ASSUME SessionInv, AddChannelStrip
  PROVE  SessionInv' /\ Live' = target'
<1> DEFINE L == Live
           slots == LowestTwo(FreeSlots(L))
           x == slots[1]
           y == slots[2]
           s == LowestTwo(FreeBuffers(L))
           g == LowestTwo(FreeBuffers(L) \ Members(s))
           placed == WithStrip(L, x, y, s, g)
           left == Join(placed, 2, g[1])
           W == Join(left, 3, g[2])
<1>1. /\ Typed /\ L \in Views /\ NodesApart(L) /\ StripsApart(L, strips)
  BY InvView
<1>2. /\ Cardinality(FreeSlots(L)) >= 2 /\ Cardinality(FreeBuffers(L)) >= 4
      /\ CanJoin(placed, 2) /\ CanJoin(left, 3) /\ ApplyReconciled(W)
      /\ strips' = strips \cup {slots}
      /\ UNCHANGED <<limiterName, misfired>>
  <2>1. Cue[1] = 2 /\ Cue[2] = 3
    BY DEF Cue
  <2> QED
    BY <2>1 DEF AddChannelStrip
<1> HIDE DEF L
<1>3. /\ FreeSlots(L) \subseteq Nodes \ Fixed /\ IsFiniteSet(FreeSlots(L))
      /\ FreeSlots(L) \subseteq Nat
      /\ \A n \in FreeSlots(L) : L[n] = Empty
  BY <1>1, FreeSlotFacts
<1>4. slots = <<x, y>> /\ x \in FreeSlots(L) /\ y \in FreeSlots(L) /\ x < y
  BY <1>2, <1>3, LowestTwoFacts
<1> HIDE DEF slots
<1>5. /\ x \in Nodes \ Fixed /\ y \in Nodes \ (Fixed \cup {BootLimiter}) /\ x # y
      /\ L[x] = Empty /\ L[y] = Empty
  BY <1>3, <1>4, FixedFacts
<1>6. /\ s \in Seq(Buffers) /\ Pair(s) /\ g \in Seq(Buffers) /\ Pair(g)
      /\ Members(s) \cap Members(g) = {}
      /\ (Members(s) \cup Members(g)) \cap (BuffersInUse(L) \cup {0, 1, 2, 3}) = {}
  BY <1>1, <1>2, FreshPairs
<1> HIDE DEF x, y, s, g
<1>7. StripPlaced(L, W, x, y, s, g)
  BY <1>1, <1>2, <1>5, <1>6, JoinedFacts
<1> HIDE DEF W
<1>8. W \in Views /\ Feasible(L, W, {})
  <2>1. W \in Views /\ \A n \in Nodes \ {x, y} : W[n].type = L[n].type /\ W[n].out = L[n].out
    BY <1>7 DEF StripPlaced
  <2>2. ASSUME NEW n \in Nodes, L[n] # Empty
        PROVE  W[n] # Empty /\ Len(W[n].out) >= Len(L[n].out)
    <3>1. n \in Nodes \ {x, y}
      BY <1>5, <2>2
    <3>2. W[n] \in Slot /\ L[n] \in Slot
      BY <1>1, <2>1 DEF Views
    <3>3. Len(L[n].out) \in Nat /\ W[n].out = L[n].out /\ W[n].type = L[n].type
      BY <2>1, <3>1, <3>2, SlotFacts
    <3>4. W[n] # Empty
      BY <2>2, <3>2, <3>3, SlotFacts
    <3> QED
      BY <3>3, <3>4
  <2> QED
    BY <2>1, <2>2 DEF Feasible
<1>9. Typed' /\ Live' = W /\ target' = W
  BY <1>1, <1>2, <1>8, ExactStep DEF L
<1>10. NodesApart(W)
  BY <1>1, <1>7, AddKeepsNodesApart
<1>11. StripsApart(W, strips')
  <2>1. StripsApart(W, strips \cup {<<x, y>>})
    BY <1>1, <1>7, AddKeepsStripsApart
  <2> QED
    BY <1>2, <1>4, <2>1
<1>12. ASSUME ~misfired PROVE Whole(W, strips')
  <2>1. Whole(L, strips)
    BY <1>12 DEF SessionInv, L
  <2>2. Whole(W, strips \cup {<<x, y>>})
    BY <1>1, <1>7, <2>1, AddKeepsWhole
  <2> QED
    BY <1>2, <1>4, <2>2
<1>13. limiterName' = BootLimiter /\ misfired' \in BOOLEAN /\ misfired' = misfired
  BY <1>2 DEF SessionInv
<1> QED
  BY <1>9, <1>10, <1>11, <1>12, <1>13 DEF SessionInv, Typed, Kinds

\* Removing a strip keeps the invariant, and arrives at its target unless the limiter
\* switch has removed a sampler before.
LEMMA RemoveStep ==
  ASSUME SessionInv, RemoveNodes
  PROVE  SessionInv' /\ (~misfired => Live' = target')
<1>1. PICK p \in strips : /\ ApplyReconciled(Without(Live, Members(p)))
                          /\ strips' = strips \ {p}
                          /\ UNCHANGED <<limiterName, misfired>>
  BY DEF RemoveNodes
<1> DEFINE L == Live
           x == p[1]
           y == p[2]
           W == Without(L, Members(<<x, y>>))
           lost == Lost(L, x, y)
<1>2. /\ Typed /\ L \in Views /\ NodesApart(L) /\ StripsApart(L, strips)
  BY InvView
<1>3. p = <<x, y>> /\ x \in Nodes /\ y \in Nodes
  BY <1>2 DEF StripsApart
<1>4. ApplyReconciled(W)
  BY <1>1, <1>3
<1> HIDE DEF L
<1>5. StripWithout(L, W, x, y) /\ Feasible(L, W, lost)
  BY <1>2, <1>3, WithoutFacts, RemovalFeasible
<1> HIDE DEF W, lost
<1>6. W \in [Nodes -> Slot]
  BY <1>5 DEF StripWithout, Views
<1>7. /\ Typed' /\ target' = W /\ Live' \in Views
      /\ \A n \in Nodes : Near(Live'[n], W[n], lost)
  BY <1>2, <1>4, <1>5, <1>6, ApplyFacts DEF L, Views
<1> DEFINE D == Live'
<1> HIDE DEF D
<1>8. D \in Views /\ \A n \in Nodes : Near(D[n], W[n], Lost(L, x, y))
  BY <1>7 DEF D, lost
<1>9. StripGone(L, D, x, y)
  BY <1>2, <1>3, <1>5, <1>8, RemovalLeaves
<1>10. NodesApart(D) /\ StripsApart(D, strips \ {p})
  BY <1>2, <1>9, RemovalKeepsNodesApart, RemovalKeepsStripsApart
<1>11. ASSUME ~misfired PROVE D = W /\ Whole(D, strips \ {p})
  <2>1. Whole(L, strips)
    BY <1>11 DEF SessionInv, L
  <2>2. D = W
    BY <1>2, <1>5, <1>8, <2>1, RemovalExact
  <2>3. Whole(W, strips \ {p})
    BY <1>2, <1>5, <2>1, RemovalKeepsWhole
  <2> QED
    BY <2>2, <2>3
<1>12. limiterName' = BootLimiter /\ misfired' \in BOOLEAN /\ misfired' = misfired
       /\ strips' = strips \ {p}
  BY <1>1 DEF SessionInv
<1> QED
  BY <1>7, <1>10, <1>11, <1>12 DEF SessionInv, Typed, Kinds, D

\* Taking the limiter out keeps the invariant.
LEMMA TakeStep ==
  ASSUME SessionInv, TakeLimiterOut
  PROVE  SessionInv'
<1> DEFINE L == Live
           W == [EqWrites(L, Master) EXCEPT ![1] = Empty]
           lost == LimiterLost(L)
<1>1. /\ Typed /\ L \in Views /\ NodesApart(L) /\ StripsApart(L, strips) /\ limiterName = 1
      /\ \A n \in Nodes : L[n].type = types[n]
  BY InvView
<1>2. /\ ApplyReconciled(W)
      /\ misfired' = (misfired \/ types[1] # "LIMITER")
      /\ limiterName' = limiterName /\ strips' = strips
  BY <1>1 DEF TakeLimiterOut
<1> HIDE DEF L
<1>3. LimiterRemoved(L, W) /\ Feasible(L, W, lost)
  BY <1>1, LimiterRemovedFacts
<1> HIDE DEF W, lost
<1>4. W \in [Nodes -> Slot]
  BY <1>3 DEF LimiterRemoved, Views
<1>5. /\ Typed' /\ target' = W /\ Live' \in Views
      /\ \A n \in Nodes : Near(Live'[n], W[n], lost)
  BY <1>1, <1>2, <1>3, <1>4, ApplyFacts DEF L, Views
<1> DEFINE D == Live'
<1> HIDE DEF D
<1>6. D \in Views /\ \A n \in Nodes : Near(D[n], W[n], LimiterLost(L))
  BY <1>5 DEF D, lost
<1>7. LimiterGone(L, D)
  BY <1>1, <1>3, <1>6, LimiterGoneFacts
<1>8. NodesApart(D) /\ StripsApart(D, strips)
  BY <1>1, <1>7, LimiterGoneApart
<1>9. ASSUME ~misfired' PROVE Whole(D, strips)
  <2>1. ~misfired /\ types[1] = "LIMITER"
    BY <1>2, <1>9
  <2>2. Whole(L, strips)
    BY <2>1 DEF SessionInv, L
  <2>3. L[1].type = "LIMITER"
    BY <1>1, <2>1, FixedFacts
  <2> QED
    BY <1>1, <1>7, <1>8, <2>2, <2>3, LimiterGoneWhole
<1>10. limiterName' = BootLimiter /\ misfired' \in BOOLEAN
  BY <1>2 DEF SessionInv
<1> QED
  BY <1>2, <1>5, <1>8, <1>9, <1>10 DEF SessionInv, Typed, Kinds, D

\* Putting the limiter back keeps the invariant and arrives at its target.
LEMMA PutStep ==
  ASSUME SessionInv, PutLimiterBack
  PROVE  SessionInv' /\ Live' = target'
<1> DEFINE L == Live
           slot == Lowest(FreeSlots(L))
           q == LowestTwo(FreeBuffers(L))
           W == [EqWrites(L, q) EXCEPT ![1] = [type |-> "LIMITER", in |-> q, out |-> Master]]
<1>1. /\ Typed /\ L \in Views /\ NodesApart(L) /\ StripsApart(L, strips) /\ limiterName = 1
      /\ \A n \in Nodes : L[n].type = types[n]
  BY InvView
<1>2. /\ types[1] = "EMPTY" /\ FreeSlots(L) # {} /\ Cardinality(FreeBuffers(L)) >= 2
      /\ ApplyReconciled([EqWrites(L, q) EXCEPT
                            ![slot] = [type |-> "LIMITER", in |-> q, out |-> Master]])
      /\ limiterName' = slot /\ strips' = strips /\ misfired' = misfired
  BY <1>1 DEF PutLimiterBack, LimiterIsLive
<1> HIDE DEF L
<1>3. L[1] = Empty
  <2>1. L[1] \in Slot /\ L[1].type = "EMPTY"
    BY <1>1, <1>2, FixedFacts DEF Views
  <2> QED
    BY <2>1, SlotFacts
<1>4. slot = 1
  <2>1. FreeSlots(L) \subseteq Nodes \ Fixed /\ FreeSlots(L) \subseteq Nat /\ 1 \in FreeSlots(L)
    BY <1>1, <1>3, FreeSlotFacts, FixedFacts
  <2>2. slot \in FreeSlots(L) /\ slot <= 1
    BY <1>2, <2>1, LowestFacts
  <2>3. slot # 0
    BY <2>1, <2>2, FixedFacts
  <2> QED
    BY <2>1, <2>2, <2>3
<1>5. ApplyReconciled(W)
  BY <1>2, <1>4
<1>6. /\ q \in Seq(Buffers) /\ Pair(q)
      /\ Members(q) \cap (BuffersInUse(L) \cup {0, 1, 2, 3}) = {}
  BY <1>1, <1>2, FreshPair
<1> HIDE DEF q, slot
<1>7. LimiterPlaced(L, W, q)
  BY <1>1, <1>3, <1>6, LimiterPlacedFacts
<1> HIDE DEF W
<1>8. W \in Views /\ Feasible(L, W, {})
  <2>1. /\ W \in Views /\ Len(W[0].out) = 2 /\ W[0].type = L[0].type
        /\ \A n \in Nodes \ {0, 1} : W[n] = L[n]
    BY <1>7 DEF LimiterPlaced, Pair
  <2>2. Len(L[0].out) = 2
    BY <1>1, FixedFacts DEF NodesApart
  <2>3. ASSUME NEW n \in Nodes, L[n] # Empty
        PROVE  W[n] # Empty /\ Len(W[n].out) >= Len(L[n].out)
    <3>1. W[n] \in Slot /\ L[n] \in Slot
      BY <1>1, <2>1 DEF Views
    <3>2. CASE n = 0
      <4>1. W[0] # Empty
        BY <2>1, <2>3, <3>1, <3>2, SlotFacts
      <4> QED
        BY <2>1, <2>2, <3>2, <4>1
    <3>3. CASE n # 0
      <4>1. W[n] = L[n]
        BY <1>3, <2>1, <2>3, <3>3
      <4>2. Len(L[n].out) \in Nat
        BY <3>1, SlotFacts
      <4> QED
        BY <2>3, <4>1, <4>2
    <3> QED
      BY <3>2, <3>3
  <2> QED
    BY <2>1, <2>3 DEF Feasible
<1>9. Typed' /\ Live' = W /\ target' = W
  BY <1>1, <1>5, <1>8, ExactStep DEF L
<1>10. NodesApart(W) /\ StripsApart(W, strips)
  BY <1>1, <1>7, LimiterKeepsApart
<1>11. ASSUME ~misfired PROVE Whole(W, strips)
  <2>1. Whole(L, strips)
    BY <1>11 DEF SessionInv, L
  <2> QED
    BY <1>1, <1>7, <2>1, LimiterKeepsWhole
<1>12. limiterName' = BootLimiter /\ misfired' \in BOOLEAN
  BY <1>2, <1>4, FixedFacts DEF SessionInv
<1> QED
  BY <1>2, <1>9, <1>10, <1>11, <1>12 DEF SessionInv, Typed, Kinds

\* The invariant is inductive.
LEMMA SessionStep ==
  SessionInv /\ [SessionNext]_sessionVars => SessionInv'
<1> SUFFICES ASSUME SessionInv, [SessionNext]_sessionVars PROVE SessionInv'
  OBVIOUS
<1>1. CASE AddChannelStrip
  BY <1>1, AddStep
<1>2. CASE RemoveNodes
  BY <1>2, RemoveStep
<1>3. CASE TakeLimiterOut
  BY <1>3, TakeStep
<1>4. CASE PutLimiterBack
  BY <1>4, PutStep
<1>5. CASE UNCHANGED sessionVars
  BY <1>5 DEF sessionVars, SessionInv, Live
<1> QED
  BY <1>1, <1>2, <1>3, <1>4, <1>5 DEF SessionNext

\* The invariant holds throughout every session.
THEOREM SessionStaysWhole == SessionSpec => []SessionInv
<1>1. SessionInit => SessionInv
  BY StartsAtBoot
<1> QED
  BY <1>1, SessionStep, PTL DEF SessionSpec

-----------------------------------------------------------------------------
\* Type correctness: the graph stays well formed and the console knows only slots that
\* exist.
THEOREM SessionTypes == SessionSpec => []SessionTypeOK
<1>1. SessionInv => SessionTypeOK
  <2> SUFFICES ASSUME SessionInv PROVE SessionTypeOK
    OBVIOUS
  <2>1. strips \subseteq Nodes \X Nodes
    BY DEF SessionInv, StripsApart
  <2> QED
    BY <2>1, FixedFacts DEF SessionInv, SessionTypeOK
<1> QED
  BY <1>1, SessionStaysWhole, PTL

\* Whatever was added, removed and switched, no two nodes write the same buffer
\* (free_buffers, remove_nodes).
THEOREM EveryBufferHasOneWriter == SessionSpec => []OneWriterPerBuffer
<1>1. SessionInv => OneWriterPerBuffer
  BY DEF SessionInv, NodesApart, OneWriterPerBuffer, Outs
<1> QED
  BY <1>1, SessionStaysWhole, PTL

\* A limiter in the graph reads what the EQ writes and drives both sides of the master,
\* as long as the switch has not removed another node (set_master_limiter).
THEOREM ChainHolds == SessionSpec => []LimiterInChain
<1>1. SessionInv => LimiterInChain
  <2> SUFFICES ASSUME SessionInv, NEW n \in Nodes, types[n] = "LIMITER", ~misfired
               PROVE  Live[n].in = Live[Eq].out /\ Live[n].out = Master
    BY DEF LimiterInChain
  <2>1. Live[n].type = "LIMITER"
    BY InvView
  <2>2. n = BootLimiter
    BY <2>1, InvView DEF NodesApart
  <2> QED
    BY <2>1, <2>2 DEF SessionInv, Whole, ChainWhole
<1> QED
  BY <1>1, SessionStaysWhole, PTL

\* Nodes, buffers and bus inputs are exactly those of the strips and the limiter there
\* are: what remove_nodes and set_master_limiter free is all that was taken.
THEOREM NothingIsLeaked == SessionSpec => []NothingLeaks
<1>1. SessionInv => NothingLeaks
  <2> SUFFICES ASSUME SessionInv, ~misfired PROVE NothingLeaks
    BY DEF NothingLeaks
  <2>1. LimiterInPath <=> Live[BootLimiter].type = "LIMITER"
    BY InvView, FixedFacts DEF LimiterInPath, NodesApart
  <2>2. Limiters(Live) = IF LimiterInPath THEN 1 ELSE 0
    BY <2>1 DEF Limiters
  <2>3. CountsExact(Live, strips)
    BY DEF SessionInv, Whole
  <2>4. \A n \in {CueSumL, CueSumR} : Len(Live[n].in) = 1 + Cardinality(strips)
    <3>1. CueSum(1) = CueSumL /\ CueSum(2) = CueSumR
      BY DEF CueSum
    <3> QED
      BY <2>3, <3>1 DEF CountsExact
  <2> QED
    BY <2>2, <2>3, <2>4 DEF CountsExact, NothingLeaks
<1> QED
  BY <1>1, SessionStaysWhole, PTL

\* Every strip has its gain stage on its sampler and each side of its output on the bus,
\* once (add_channel_strip).
THEOREM StripsAreHeard == SessionSpec => []StripsReachTheBus
<1>1. SessionInv => StripsReachTheBus
  <2> SUFFICES ASSUME SessionInv, ~misfired, NEW s \in strips
               PROVE  /\ types[s[1]] = "SAMPLER" /\ types[s[2]] = "GAIN"
                      /\ Live[s[2]].in = Live[s[1]].out
                      /\ \A side \in {1, 2} :
                           LET bus == Live[<<CueSumL, CueSumR>>[side]].in
                           IN  Cardinality({j \in DOMAIN bus :
                                              bus[j] = Live[s[2]].out[side]}) = 1
    BY DEF StripsReachTheBus
  <2>1. s[1] \in Nodes /\ s[2] \in Nodes /\ Live[s[2]].type = "GAIN"
    BY DEF SessionInv, StripsApart
  <2>2. Live[s[1]].type = "SAMPLER" /\ Live[s[2]].in = Live[s[1]].out
    BY DEF SessionInv, Whole, StripsWhole
  <2>3. ASSUME NEW side \in {1, 2}
        PROVE  LET bus == Live[<<CueSumL, CueSumR>>[side]].in
               IN  Cardinality({j \in DOMAIN bus : bus[j] = Live[s[2]].out[side]}) = 1
    <3> DEFINE bus == Live[<<CueSumL, CueSumR>>[side]].in
               b == Live[s[2]].out[side]
               J == {j \in DOMAIN bus : bus[j] = b}
    <3>1. /\ \A i, j \in DOMAIN bus : bus[i] = bus[j] => i = j
          /\ b \in Members(bus)
      BY DEF SessionInv, Whole, BusesWhole, CueSum
    <3> HIDE DEF bus, b
    <3>2. PICK i \in DOMAIN bus : bus[i] = b
      BY <3>1 DEF Members
    <3>3. J = {i}
      BY <3>1, <3>2
    <3>4. Cardinality({i}) = 1
      BY FS_Singleton
    <3>5. Cardinality(J) = 1
      BY <3>3, <3>4, Zenon
    <3> QED
      BY <3>5 DEF bus, b
  <2> QED
    BY <2>1, <2>2, <2>3, InvView
<1> QED
  BY <1>1, SessionStaysWhole, PTL

\* The commands of an edit, run one after another, lead to the graph they were computed
\* for (GraphReconciler::reconcile, apply_reconciled).
THEOREM EditsReachTheirTarget == SessionSpec => ReconcileReaches
<1>1. SessionInv /\ [SessionNext]_sessionVars
        => [TakeLimiterOut \/ misfired \/ Live' = target']_sessionVars
  <2> SUFFICES ASSUME SessionInv, SessionNext
               PROVE  TakeLimiterOut \/ misfired \/ Live' = target'
    OBVIOUS
  <2>1. CASE AddChannelStrip
    BY <2>1, AddStep
  <2>2. CASE RemoveNodes
    BY <2>2, RemoveStep
  <2>3. CASE PutLimiterBack
    BY <2>3, PutStep
  <2> QED
    BY <2>1, <2>2, <2>3 DEF SessionNext
<1> QED
  BY <1>1, SessionStaysWhole, PTL DEF SessionSpec, ReconcileReaches
=============================================================================
