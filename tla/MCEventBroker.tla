--------------------------- MODULE MCEventBroker ---------------------------
(* The event broker with two publishers and two subscribers, one of which   *)
(* asks for a single buffered event.                                        *)
EXTENDS EventBroker, TLC

CONSTANTS s1, s2

MCBuffer == s1 :> 1 @@ s2 :> 2
=============================================================================
