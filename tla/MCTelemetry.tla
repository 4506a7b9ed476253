---------------------------- MODULE MCTelemetry ----------------------------
(* Small instances of Telemetry: three or four events of different kinds.  *)
EXTENDS Telemetry

CONSTANTS plain, file, file2, end

KindOf(e) == CASE e \in {file, file2} -> "file" [] e = end -> "end" [] OTHER -> "plain"
MCKind == [e \in Events |-> KindOf(e)]
=============================================================================
