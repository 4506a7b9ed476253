---------------------------- MODULE MCDesktopFiles ----------------------------
(* An instance of DesktopFiles for TLC: one local user. *)
EXTENDS DesktopFiles

CONSTANTS local
NoMembership == [u \in {local} |-> {}]
=============================================================================
