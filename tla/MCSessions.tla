----------------------------- MODULE MCSessions -----------------------------
(***************************************************************************)
(* Two tabs, in one browser or in two.                                     *)
(***************************************************************************)
EXTENDS Sessions, TLC

MCPairs == 1 .. 16
Symmetry == Permutations(Tabs) \cup Permutations(Jars)
=============================================================================
