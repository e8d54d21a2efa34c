-------------------------- MODULE MCControlClient --------------------------
(* Small instance of ControlClient for TLC. *)
EXTENDS ControlClient

CONSTANTS c1, c2

MCCallers == {c1, c2}
=============================================================================
