--------------------------- MODULE MCServerRuntime ---------------------------
(* Instances of ServerRuntime for TLC. *)
EXTENDS ServerRuntime, TLC

\* Each process name 1..Processes is used lowest first; workers are alike.
WorkerSymmetry == Permutations(Worker)
=============================================================================
