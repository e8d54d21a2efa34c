----------------------------- MODULE Ownership -----------------------------
(***************************************************************************)
(* What a scope promises its users, without goroutines, locks or sweeps:   *)
(* a resource is owned from its acquisition until it is closed or          *)
(* released; closing the scope ends with nothing owned; what comes later   *)
(* is closed at once.  Scope.tla implements it (Scope!OwnershipKept), and  *)
(* so do the epochs of OutboundGate.tla and the network of Network.tla,    *)
(* which use a scope at this grain (ProxyProofs, NetworkProofs).           *)
(***************************************************************************)
CONSTANTS
    Resources,
    AtOnce      \* the resources whose holders close them in one step

VARIABLES
    phase,      \* "open", "closing", "done"
    state       \* of every resource: "new", "owned", "leaving", "released", "closed"

avars == <<phase, state>>

Init ==
    /\ phase = "open"
    /\ state = [r \in Resources |-> "new"]

Becomes(r, s) == state' = [state EXCEPT ![r] = s] /\ UNCHANGED phase

Acquire(r) == phase = "open" /\ state[r] = "new" /\ Becomes(r, "owned")

\* "scope rejects late acquisitions": they are closed instead.
Refuse(r) == phase # "open" /\ state[r] = "new" /\ Becomes(r, "closed")

\* The holder starts to close a resource of an open scope, which forgets it.
Leave(r) == phase = "open" /\ state[r] = "owned" /\ Becomes(r, "leaving")

\* A resource is closed, by its holder or by the scope that is being closed.
Shut(r) ==
    /\ state[r] = "leaving" \/ (state[r] = "owned" /\ phase = "closing")
    /\ Becomes(r, "closed")

\* The holder keeps the resource: the scope will never close it.
Release(r) == phase = "open" /\ state[r] = "owned" /\ Becomes(r, "released")

\* Leave and Shut without a moment between them.
Drop(r) == phase = "open" /\ state[r] = "owned" /\ Becomes(r, "closed")

BeginClose == phase = "open" /\ phase' = "closing" /\ UNCHANGED state

EndClose ==
    /\ phase = "closing"
    /\ \A r \in Resources : state[r] # "owned"
    /\ phase' = "done"
    /\ UNCHANGED state

Next ==
    \/ \E r \in Resources : Acquire(r) \/ Refuse(r) \/ Leave(r) \/ Shut(r) \/ Release(r)
    \/ \E r \in AtOnce : Drop(r)
    \/ BeginClose \/ EndClose

Spec == Init /\ [][Next]_avars
=============================================================================
