--------------------------- MODULE ServiceAccept ---------------------------
(***************************************************************************)
(* Accepted connections of an onion service (service.go): listener.Accept, *)
(* the bookkeeping in Service.accepted and Service.scope, the closing of   *)
(* one connection by the application or by the scope, and Service.close    *)
(* with and without draining.  Driver.Close may close the scope at any     *)
(* time.                                                                   *)
(***************************************************************************)
EXTENDS Naturals, FiniteSets

CONSTANTS
    Acceptors       \* goroutines that accept and serve one connection after the other

VARIABLES
    listener,       \* the backing listener is open
    stopping,       \* Service.stopping
    accepting,      \* Service.accepting
    accepted,       \* Service.accepted, a connection named by its acceptor
    woken,          \* the acceptedChanged channel waitAccepted holds is closed
    connScope,      \* Service.scope: "open", "closing", "done"
    at,             \* position of every acceptor
    conn,           \* its connection, see Status
    closer,         \* position of Service.close
    drain, drained  \* it was called by Drain; its wait ended with nothing left

service == <<stopping, accepting, accepted, woken>>
closing == <<closer, drain, drained>>
acceptVars == <<listener, service, connScope, at, conn, closing>>

(* "raw": returned by the backing listener; "kept": in accepted only;       *)
(* "live": registered in the scope; "doomed": in the slice of scope.Close;  *)
(* "claimed", "closing": its resource.Close is running, begun by the        *)
(* application after, before that slice was taken; "shut": the connection   *)
(* is closed but still in accepted; then "closed".  A doomed connection     *)
(* that is shut by the sweep is "swept" meanwhile.                          *)
Status == {"none", "raw", "kept", "live", "doomed", "closing", "claimed", "shut", "claimedShut", "swept", "closed"}

AcceptInit ==
    /\ listener = TRUE
    /\ stopping = FALSE /\ accepting = 0 /\ accepted = {} /\ woken = FALSE
    /\ connScope = "open"
    /\ at = [a \in Acceptors |-> "idle"]
    /\ conn = [a \in Acceptors |-> "none"]
    /\ closer = "idle" /\ drain = FALSE /\ drained = FALSE

AcceptGoto(a, label) == at' = [at EXCEPT ![a] = label]
Set(a, status) == conn' = [conn EXCEPT ![a] = status]

\* signalAcceptedLocked closes the channel a waiter holds.
SignalForgotten == UNCHANGED woken
Signal == woken' = TRUE

-----------------------------------------------------------------------------
(* serviceListener.Accept and trackAccepted.                                *)

AcceptEnter(a) ==
    /\ at[a] = "idle"
    /\ ~stopping
    /\ conn[a] \in {"none", "closed"}
    /\ Set(a, "none")
    /\ accepting' = accepting + 1
    /\ Signal
    /\ AcceptGoto(a, "accept")
    /\ UNCHANGED <<listener, stopping, accepted, connScope, closing>>

\* The backing Accept returns a connection, or fails on a closed listener.
AcceptConn(a) ==
    /\ at[a] = "accept"
    /\ \/ listener /\ Set(a, "raw") /\ AcceptGoto(a, "leave")
       \/ ~listener /\ AcceptGoto(a, "leave") /\ UNCHANGED conn
    /\ UNCHANGED <<listener, service, connScope, closing>>

\* Both results of the backing Accept give the count back.
LeftWithConn(a) == IF conn[a] = "raw" THEN accepting - 1 ELSE accepting
Left(a) == accepting - 1

AcceptLeave(a) ==
    /\ at[a] = "leave"
    /\ accepting' = Left(a)
    /\ Signal
    /\ AcceptGoto(a, IF conn[a] = "raw" THEN "track" ELSE "idle")
    /\ UNCHANGED <<listener, stopping, accepted, connScope, conn, closing>>

\* The test under which trackAccepted keeps a connection.
KeepsAlways == TRUE
Keeps == ~stopping

\* It closes the others.
Refused == "closed"

Track(a) ==
    /\ at[a] = "track"
    /\ \/ /\ Keeps
          /\ accepted' = accepted \cup {a}
          /\ Signal
          /\ Set(a, "kept")
          /\ AcceptGoto(a, "register")
       \/ /\ ~Keeps
          /\ Set(a, Refused)
          /\ AcceptGoto(a, "idle")
          /\ UNCHANGED <<accepted, woken>>
    /\ UNCHANGED <<listener, stopping, accepting, connScope, closing>>

\* scope.add: a closed scope runs closeRaw at once, and so does the error path.
LateStatusLive == "live"
LateStatus == "shut"

RegisterConn(a) ==
    /\ at[a] = "register"
    /\ Set(a, IF connScope = "open" THEN "live" ELSE LateStatus)
    /\ AcceptGoto(a, "idle")
    /\ UNCHANGED <<listener, service, connScope, closing>>

-----------------------------------------------------------------------------
(* Closing one connection: resource.Close and closeRaw.                     *)

\* The application closes: the resource leaves the scope ...
ConnClose(a) ==
    /\ at[a] = "idle"
    /\ conn[a] \in {"live", "doomed"}
    /\ Set(a, IF conn[a] = "live" THEN "closing" ELSE "claimed")
    /\ UNCHANGED <<listener, service, connScope, at, closing>>

\* ... the connection is closed ...
RawClose(a) ==
    /\ conn[a] \in {"closing", "claimed"}
    /\ Set(a, IF conn[a] = "closing" THEN "shut" ELSE "claimedShut")
    /\ UNCHANGED <<listener, service, connScope, at, closing>>

\* (or by the loop of scope.Close)
SweepClose(a) ==
    /\ conn[a] = "doomed"
    /\ Set(a, "swept")
    /\ UNCHANGED <<listener, service, connScope, at, closing>>

\* ... and is taken out of accepted.
RawForget(a) ==
    /\ conn[a] \in {"shut", "claimedShut", "swept"}
    /\ accepted' = accepted \ {a}
    /\ Signal
    /\ Set(a, "closed")
    /\ UNCHANGED <<listener, stopping, accepting, connScope, at, closing>>

-----------------------------------------------------------------------------
(* Service.close, and the scope.                                            *)

\* Close or Drain: no new Accept; Tor withdraws the onion meanwhile.
CloseStop(d) ==
    /\ closer = "idle"
    /\ closer' = "listeners"
    /\ drain' = d
    /\ stopping' = TRUE
    /\ Signal
    /\ UNCHANGED <<listener, accepting, accepted, connScope, at, conn, drained>>

\* The backing listeners are closed.  If DEL_ONION failed, nothing is waited for.
CloseListeners ==
    /\ closer = "listeners"
    /\ listener' = FALSE
    /\ \/ closer' = IF drain THEN "wait" ELSE "scope"
       \/ closer' = "scope"
    /\ UNCHANGED <<service, connScope, at, conn, drain, drained>>

\* waitAccepted: done, or take the channel under acceptedMu and sleep on it.
NothingAccepting == accepting = 0
NothingAccepted == accepted = {} /\ accepting = 0

DrainCheck ==
    /\ closer = "wait"
    /\ \/ NothingAccepted /\ closer' = "scope" /\ drained' = TRUE /\ UNCHANGED woken
       \/ ~NothingAccepted /\ closer' = "sleep" /\ woken' = FALSE /\ UNCHANGED drained
    /\ UNCHANGED <<listener, stopping, accepting, accepted, connScope, at, conn, drain>>

DrainWake ==
    /\ closer = "sleep" /\ woken
    /\ closer' = "wait"
    /\ UNCHANGED <<listener, service, connScope, at, conn, drain, drained>>

\* The context of Drain ends: the remaining connections are closed.
DrainExpire ==
    /\ closer = "sleep"
    /\ closer' = "scope"
    /\ UNCHANGED <<listener, service, connScope, at, conn, drain, drained>>

\* scope.Close, by Service.close or by Driver.Close, takes its slice; the
\* listeners are resources of the scope too.
Dooms == [a \in Acceptors |-> IF conn[a] = "live" THEN "doomed" ELSE conn[a]]

ScopeClose ==
    /\ connScope = "open"
    /\ connScope' = "closing"
    /\ conn' = Dooms
    /\ listener' = FALSE
    /\ UNCHANGED <<service, at, closing>>

CloseScope == closer = "scope" /\ ScopeClose
DriverClosesScope == ScopeClose

\* The loop is over when every connection of the slice has been closed.
Swept == \A a \in Acceptors : conn[a] \notin {"doomed", "claimed", "claimedShut", "swept"}

SweepEnd ==
    /\ connScope = "closing"
    /\ Swept
    /\ connScope' = "done"
    /\ UNCHANGED <<listener, service, at, conn, closing>>

CloseReturn ==
    /\ closer = "scope" /\ connScope = "done"
    /\ closer' = "done"
    /\ UNCHANGED <<listener, service, connScope, at, conn, drain, drained>>

-----------------------------------------------------------------------------
\* Steps of goroutines that are not waiting for the network or the application.
Run(a) ==
    \/ AcceptLeave(a) \/ Track(a) \/ RegisterConn(a)
    \/ RawClose(a) \/ SweepClose(a) \/ RawForget(a)
    \/ ~listener /\ AcceptConn(a)

CloserStep == CloseListeners \/ DrainCheck \/ DrainWake \/ CloseScope \/ CloseReturn \/ SweepEnd

Finished == closer = "done" /\ UNCHANGED acceptVars

AcceptNext ==
    \/ \E a \in Acceptors : Run(a) \/ AcceptEnter(a) \/ AcceptConn(a) \/ ConnClose(a)
    \/ \E d \in BOOLEAN : CloseStop(d)
    \/ CloserStep \/ DrainExpire \/ DriverClosesScope
    \/ Finished

AcceptSpec == AcceptInit /\ [][AcceptNext]_acceptVars

(* Goroutines that can run do, and the application closes the connections   *)
(* it was given: that is what Drain waits for.  No deadline is assumed.     *)
FairSpec ==
    /\ AcceptSpec
    /\ \A a \in Acceptors : WF_acceptVars(Run(a)) /\ WF_acceptVars(ConnClose(a))
    /\ WF_acceptVars(CloserStep)

-----------------------------------------------------------------------------
\* The type of the state, with the bookkeeping that Drain relies on: accepting
\* counts the goroutines inside the backing Accept, and accepted holds exactly
\* the connections that are kept and not yet closed.
TypeOK ==
    /\ listener \in BOOLEAN /\ stopping \in BOOLEAN /\ woken \in BOOLEAN
    /\ accepting = Cardinality({a \in Acceptors : at[a] \in {"accept", "leave"}})
    /\ accepted = {a \in Acceptors : conn[a] \notin {"none", "raw", "closed"}}
    /\ connScope \in {"open", "closing", "done"}
    /\ at \in [Acceptors -> {"idle", "accept", "leave", "track", "register"}]
    /\ conn \in [Acceptors -> Status]
    /\ closer \in {"idle", "listeners", "wait", "sleep", "scope", "done"}
    /\ drain \in BOOLEAN /\ drained \in BOOLEAN

\* The application still holds an open connection.
Open(a) == conn[a] \in {"live", "doomed"}

\* "Drain withdraws the service, closes its listeners, and waits for accepted
\* connections to close" (service.go:522): once its wait is over by itself, no
\* connection is open and none can appear, whatever Accept was doing.  When
\* Service.close returns, drained or not, the application holds no open
\* connection: the scope refuses those that were still being tracked.
ClosedStaysEmpty ==
    /\ drained => \A a \in Acceptors : ~Open(a) /\ conn[a] \notin {"kept", "closing", "claimed"}
    /\ closer = "done" => \A a \in Acceptors : ~Open(a)

\* Close and Drain return once the application has closed its connections: no
\* wakeup is lost between the check of waitAccepted and its wait.  A connection
\* that the backing listener returned meanwhile is closed in the end by the
\* goroutine that holds it (service.go:585, 682, 690).
CloseReturns ==
    /\ stopping ~> closer = "done"
    /\ connScope = "done" ~> \A a \in Acceptors : conn[a] \in {"none", "closed"}
=============================================================================
