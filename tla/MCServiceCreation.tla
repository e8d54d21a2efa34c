------------------------- MODULE MCServiceCreation -------------------------
(* Two calls of NewService on one driver, with one key name to compete for. *)
EXTENDS ServiceCreation, TLC

\* The calls are interchangeable: the constants and properties name none.
Symmetry == Permutations(Creators)
=============================================================================
