----------------------------- MODULE MCSchedules -----------------------------
(* Instances of Schedules for TLC.  The runs with symmetry check no liveness. *)
EXTENDS Schedules, TLC

Interchangeable == Permutations(Ids)
=============================================================================
