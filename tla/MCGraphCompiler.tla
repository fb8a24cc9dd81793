---------------------------- MODULE MCGraphCompiler ----------------------------
(***************************************************************************)
(* Graphs for TLC to compile.  `Sharing`: every wiring over a few common   *)
(* buffers, in-place nodes, feedback and several writers included.         *)
(* `Mixing`: a buffer per node, read by any of the others, and latencies   *)
(* to compensate.  Any nodes are bypassed in both; a bypassed node has no  *)
(* latency (sync_node_latencies).  `Illegal`: graphs that the slot and the *)
(* range check refuse.                                                     *)
(***************************************************************************)
EXTENDS GraphCompiler

CONSTANTS
    Common,     \* the buffers of Sharing
    Latencies   \* the latencies a node of Mixing may have

Graphs(reads, writes, latencies) ==
    {[reads |-> r, writes |-> w, slots |-> [n \in Nodes |-> Cardinality(r[n])],
      bypass |-> s, latency |-> [n \in Nodes |-> IF n \in s THEN 0 ELSE l[n]]] :
        r \in reads, w \in writes, s \in SUBSET Nodes, l \in latencies}

Sharing == Graphs([Nodes -> SUBSET Common], [Nodes -> SUBSET Common],
                  {[n \in Nodes |-> 0]})

Mixing ==
    LET own == CHOOSE w \in [Nodes -> Buffers] :
                   \A m, n \in Nodes : w[m] = w[n] => m = n
        inputs == {r \in [Nodes -> SUBSET Buffers] : \A n \in Nodes : own[n] \notin r[n]}
    IN  Graphs(inputs, {[n \in Nodes |-> {own[n]}]}, [Nodes -> Latencies])

Alike(r, slots) ==
    [reads |-> [n \in Nodes |-> r], writes |-> [n \in Nodes |-> {}],
     slots |-> [n \in Nodes |-> slots], bypass |-> {},
     latency |-> [n \in Nodes |-> 0]]

Illegal == {Alike({NoSuchBuffer}, 1), Alike(Buffers, MaxChannels + 1)}

AllGraphs == {Sharing, Mixing, Illegal}
=============================================================================
