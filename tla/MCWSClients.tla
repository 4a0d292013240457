---------------------------- MODULE MCWSClients ----------------------------
(***************************************************************************)
(* Instances of WSClients for TLC.                                         *)
(***************************************************************************)
EXTENDS WSClients, TLC

\* Nothing tells connections, or robots, apart.
Symmetry == Permutations(Conns) \cup Permutations(Robots)
=============================================================================
