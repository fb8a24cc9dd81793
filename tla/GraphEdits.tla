------------------------------ MODULE GraphEdits ------------------------------
(***************************************************************************)
(* The edits a topology command makes to the conductor's own copy of the   *)
(* graph, TopologyManager::current_topology.  The audio thread applies     *)
(* every one of them again to the staged side of its double buffer, with   *)
(* arms of its own (StagedEdits), and the two replicas agree only as long  *)
(* as the two sets of arms do the same thing.  A node reads the buffers    *)
(* in[0..nin-1] and writes the buffers out[0..nout-1]; slots at and above  *)
(* a count are stale and kept, as in the fixed-size arrays of NodeRouting. *)
(* Sidechains, delays, positions and host assignments are left out: no     *)
(* edit below reads them.                                                  *)
(***************************************************************************)
EXTENDS Integers

CONSTANTS
    MaxNodes,      \* MAX_NODES: length of the node array
    MaxChannels,   \* MAX_CHANNELS: input (output) slots of one node
    MaxBuffers     \* MAX_BUFFERS: virtual buffers

ASSUME SizeAssumption ==
    /\ MaxNodes \in Nat \ {0}
    /\ MaxChannels \in Nat \ {0}
    /\ MaxBuffers \in Nat \ {0}

Nodes    == 0 .. MaxNodes - 1
Channels == 0 .. MaxChannels - 1
Buffers  == 0 .. MaxBuffers - 1

\* BufferId(0) is what every cleared slot holds.
NoBuffer == 0

Routing == [in   : [Channels -> Buffers], nin  : 0 .. MaxChannels,
            out  : [Channels -> Buffers], nout : 0 .. MaxChannels]

Graph == [routing : [Nodes -> Routing], count : 0 .. MaxNodes]

Unrouted == [in  |-> [c \in Channels |-> NoBuffer], nin  |-> 0,
             out |-> [c \in Channels |-> NoBuffer], nout |-> 0]

EmptyGraph == [routing |-> [n \in Nodes |-> Unrouted], count |-> 0]

AtLeast(a, b) == IF a >= b THEN a ELSE b

-----------------------------------------------------------------------------
\* The buffers a node really uses: its slots below the counts.
Reads(r)  == {r.in[c]  : c \in {d \in Channels : d < r.nin}}
Writes(r) == {r.out[c] : c \in {d \in Channels : d < r.nout}}

\* A graph whose node n alone is wired anew.
Rewired(g, n, r) == [routing |-> [g.routing EXCEPT ![n] = r], count |-> g.count]

\* AddNode: only the counts are reset, the slots keep what they held.
AddNodeTo(g, n) ==
    LET r == g.routing[n] IN
    [routing |-> [g.routing EXCEPT
                    ![n] = [in |-> r.in, nin |-> 0, out |-> r.out, nout |-> 0]],
     count   |-> AtLeast(g.count, n + 1)]

SetInput(g, n, c, b) ==
    LET r == g.routing[n] IN
    Rewired(g, n, [in  |-> [r.in EXCEPT ![c] = b], nin  |-> AtLeast(r.nin, c + 1),
                   out |-> r.out,                  nout |-> r.nout])

SetOutput(g, n, c, b) ==
    LET r == g.routing[n] IN
    Rewired(g, n, [in  |-> r.in,                    nin  |-> r.nin,
                   out |-> [r.out EXCEPT ![c] = b], nout |-> AtLeast(r.nout, c + 1)])

\* Disconnect: the inputs above slot c move down by one.
Moved(r, c) ==
    [d \in Channels |->
       IF c <= d /\ d < r.nin - 1 THEN r.in[d + 1]
       ELSE IF d = r.nin - 1 THEN NoBuffer ELSE r.in[d]]

DropInput(g, n, c) ==
    LET r == g.routing[n] IN
    IF c >= r.nin THEN g
    ELSE Rewired(g, n, [in  |-> Moved(r, c), nin  |-> r.nin - 1,
                        out |-> r.out,       nout |-> r.nout])

\* node_count after a removal: one past the last occupied index below it.
CountOf(occupied, count) ==
    LET last == {i \in occupied : /\ i < count
                                  /\ \A j \in occupied : j < count => j <= i}
    IN  IF last = {} THEN 0 ELSE (CHOOSE i \in last : TRUE) + 1

\* RemoveNode: the node loses its wiring, and every other node loses each
\* slot that named one of its buffers.  The counts of the others stay.
Detach(r, cleared) ==
    [in   |-> [c \in Channels |->
                 IF c < r.nin  /\ r.in[c]  \in cleared THEN NoBuffer ELSE r.in[c]],
     nin  |-> r.nin,
     out  |-> [c \in Channels |->
                 IF c < r.nout /\ r.out[c] \in cleared THEN NoBuffer ELSE r.out[c]],
     nout |-> r.nout]

RemoveNodeFrom(g, n, occupied) ==
    LET cleared == (Reads(g.routing[n]) \cup Writes(g.routing[n])) \ {NoBuffer}
    IN  [routing |-> [m \in Nodes |-> IF m = n THEN Unrouted
                                               ELSE Detach(g.routing[m], cleared)],
         count   |-> CountOf(occupied, g.count)]
=============================================================================
