-------------------------- MODULE MCServiceAccept --------------------------
EXTENDS ServiceAccept

CONSTANTS a1, a2, a3

MCAcceptors == {a1, a2, a3}
=============================================================================
