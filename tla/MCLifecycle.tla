---------------------------- MODULE MCLifecycle ----------------------------
EXTENDS Lifecycle

CONSTANTS u1, u2

MCUsers == {u1, u2}
=============================================================================
