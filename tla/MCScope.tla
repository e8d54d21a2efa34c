------------------------------ MODULE MCScope ------------------------------
(* Small instance of Scope for TLC. *)
EXTENDS Scope

CONSTANTS t1, t2, t3, r1, r2, r3

MCThreads == {t1, t2, t3}
MCResources == {r1, r2, r3}
MCSubscribed == {r3}
MCFailing == {r1}
=============================================================================
