----------------------------- MODULE MCNetwork -----------------------------
(* One dial and one lookup that share a network.                            *)
EXTENDS Network
=============================================================================
