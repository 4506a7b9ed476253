------------------------------- MODULE MCConsole -------------------------------
(* Instances of Console for TLC. *)
EXTENDS Console, TLC
TabSymmetry == Permutations(Workspace) \cup Permutations(Slots)
=============================================================================
