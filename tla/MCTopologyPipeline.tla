--------------------------- MODULE MCTopologyPipeline ---------------------------
(***************************************************************************)
(* The instance of TopologyPipeline that TLC checks: two nodes of two      *)
(* channels and a buffer besides buffer 0.  Its wires make an output and   *)
(* an input of the two nodes meet at buffer 1, so that removing one node   *)
(* clears a slot of the other; reach the second slot, so that              *)
(* disconnecting the first shifts it down; and name a node and a buffer    *)
(* past the end.                                                           *)
(***************************************************************************)
EXTENDS TopologyPipeline

MCWires == {<<0, 0, 1>>, <<1, 1, 1>>, <<2, 0, 0>>, <<0, 0, 2>>}
=============================================================================
