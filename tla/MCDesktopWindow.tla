--------------------------- MODULE MCDesktopWindow ---------------------------
(* Instances of DesktopWindow for TLC. *)
EXTENDS DesktopWindow
=============================================================================
