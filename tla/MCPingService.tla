--------------------------- MODULE MCPingService ---------------------------
(***************************************************************************)
(* Instances of PingService for TLC.                                       *)
(***************************************************************************)
EXTENDS PingService, TLC

Symmetry == Permutations(Requests) \cup Permutations(Keys)
=============================================================================
