----------------------------- MODULE StagedEdits -----------------------------
(***************************************************************************)
(* The audio thread's own copy of the edits of GraphEdits: what each arm   *)
(* of TopologyCoordinator::apply_mutation does to the wiring of the staged *)
(* side.  It is written from those arms alone, one assignment after the    *)
(* other as they stand there, so that the agreement of the two replicas is *)
(* something to check.                                                     *)
(***************************************************************************)
EXTENDS GraphEdits

\* AddNode: the counts of the node are reset, and the graph reaches it.
StagedAddNode(g, n) ==
    LET r == g.routing[n] IN
    [routing |-> [g.routing EXCEPT
                    ![n] = [in |-> r.in, nin |-> 0, out |-> r.out, nout |-> 0]],
     count   |-> IF n >= g.count THEN n + 1 ELSE g.count]

StagedUpdateEdge(g, n, c, b) ==
    LET r == g.routing[n] IN
    Rewired(g, n, [in  |-> [r.in EXCEPT ![c] = b],
                   nin |-> IF c >= r.nin THEN c + 1 ELSE r.nin,
                   out |-> r.out, nout |-> r.nout])

StagedUpdateOutputEdge(g, n, c, b) ==
    LET r == g.routing[n] IN
    Rewired(g, n, [in   |-> r.in, nin |-> r.nin,
                   out  |-> [r.out EXCEPT ![c] = b],
                   nout |-> IF c >= r.nout THEN c + 1 ELSE r.nout])

\* Mutated form: the slot is pointed at buffer 0 and stays an input, which is
\* what Disconnect did on both sides before.
StagedDisconnectZeroing(g, n, c) == StagedUpdateEdge(g, n, c, NoBuffer)

\* Disconnect: the loop over the later inputs, then the slot it vacates.
StagedDisconnect(g, n, c) ==
    LET r       == g.routing[n]
        left    == r.nin - 1
        shifted == [d \in Channels |-> IF d \in c .. left - 1 THEN r.in[d + 1]
                                                              ELSE r.in[d]]
    IN  IF c > left THEN g
        ELSE Rewired(g, n, [in  |-> [shifted EXCEPT ![left] = NoBuffer], nin |-> left,
                            out |-> r.out, nout |-> r.nout])

\* The loop that goes down from a count to the first installed processor.
OneAfterLast(installed, count) ==
    CHOOSE k \in 0 .. count : /\ k = 0 \/ k - 1 \in installed
                              /\ \A i \in k .. count - 1 : i \notin installed

\* One direction of a node that is not removed: what it lists of the buffers
\* to clear becomes buffer 0.
Without(slots, used, lost) ==
    [c \in Channels |-> IF c \in 0 .. used - 1 /\ slots[c] \in lost
                        THEN NoBuffer ELSE slots[c]]

\* What a node lists in one direction.
Listed(slots, used) == {slots[c] : c \in 0 .. used - 1}

\* RemoveNode: every buffer the node lists, other than buffer 0, is cleared
\* from the nodes that stay, and the count follows the node array.
StagedRemoveNode(g, n, installed) ==
    LET gone == g.routing[n]
        lost == (Listed(gone.out, gone.nout) \cup Listed(gone.in, gone.nin))
                  \ {NoBuffer}
        Kept(r) == [in  |-> Without(r.in, r.nin, lost),   nin  |-> r.nin,
                    out |-> Without(r.out, r.nout, lost), nout |-> r.nout]
    IN  [routing |-> [m \in Nodes |-> IF m = n THEN Unrouted ELSE Kept(g.routing[m])],
         count   |-> OneAfterLast(installed, g.count)]
=============================================================================
