------------------------------ MODULE Network ------------------------------
(***************************************************************************)
(* A client network (network.go): every Dial and every lookup is a         *)
(* socksOperation with a context, a SOCKS client and the connections its   *)
(* Dialer opened.  The client is external: it may return while its Dialer  *)
(* is still at work.  Network.Close and Driver.Close close the scope of    *)
(* the network at any time.  A call of resource.Close is one step here;    *)
(* Scope.tla models its interior.                                          *)
(***************************************************************************)
CONSTANTS
    Dials,      \* calls of Network.Dial
    Lookups     \* calls of LookupIP or LookupAddr

ASSUME NetworkAssumption == Dials \cap Lookups = {}

Ops == Dials \cup Lookups

VARIABLES
    driver,     \* Driver.Close: "open", "closed" (the flag is set), "waiting" (for the network), "done"
    reg,        \* the network in Driver.resources: "none", "in", taken out by "app" or "driver"
    net,        \* the scope of the network: "none" (not created), "open", "closing", "done"
    pc,         \* position of every call
    ctx,        \* its context: "live", "expired" (caller or timeout), "cancelled" (scope), "over"
    oper,       \* registration of that context in the scope: "none", "live", "closed"
    dialer,     \* position of the Dialer the SOCKS client runs for the call
    conn,       \* its connection: "none", "raw", "open" (registered in the scope), "closed"
    ended,      \* socksOperation.ended
    listed,     \* the connection is in socksOperation.connections
    hook,       \* AfterFunc on the context: "none", "armed", "fired", "stopped", "ran"
    ok          \* what the call returns, so far

vars == <<driver, reg, net, pc, ctx, oper, dialer, conn, ended, listed, hook, ok>>
call == <<pc, ok>>
operation == <<ended, listed, hook>>

Init ==
    /\ driver = "open" /\ reg = "none" /\ net = "none"
    /\ pc = [o \in Ops |-> "idle"]
    /\ ctx = [o \in Ops |-> "live"]
    /\ oper = [o \in Ops |-> "none"]
    /\ dialer = [o \in Ops |-> "off"]
    /\ conn = [o \in Ops |-> "none"]
    /\ ended = [o \in Ops |-> FALSE]
    /\ listed = [o \in Ops |-> FALSE]
    /\ hook = [o \in Ops |-> "none"]
    /\ ok = [o \in Ops |-> FALSE]

Goto(o, label) == pc' = [pc EXCEPT ![o] = label]
DialerAt(o, label) == dialer' = [dialer EXCEPT ![o] = label]
Set(o, status) == conn' = [conn EXCEPT ![o] = status]
CloseConn(o) == Set(o, "closed")

\* The context ends: its AfterFunc, unless stopped, starts a goroutine.
EndCtx(o, why) ==
    /\ ctx' = [ctx EXCEPT ![o] = IF @ = "live" THEN why ELSE @]
    /\ hook' = [hook EXCEPT ![o] = IF @ = "armed" THEN "fired" ELSE @]

-----------------------------------------------------------------------------
(* Creation and closing.                                                    *)

\* NewNetwork holds Driver.mu from the test of Driver.closed to the registration.
CreatesAlways == TRUE
Creates == driver = "open"

NewNetwork ==
    /\ net = "none"
    /\ Creates
    /\ net' = "open"
    /\ reg' = "in"
    /\ UNCHANGED <<driver, call, ctx, oper, dialer, conn, operation>>

\* The registration leaves Driver.resources: resource.Close, called by
\* Network.Close or by the loop of Driver.resources.Close ...
Unregister(who) ==
    /\ reg = "in"
    /\ reg' = who
    /\ UNCHANGED <<driver, net, call, ctx, oper, dialer, conn, operation>>

NetClose == Unregister("app")
DriverSweep == driver = "waiting" /\ Unregister("driver")

\* ... and then closes the network's scope: the critical section of scope.Close.
ScopeClose ==
    /\ reg \in {"app", "driver"}
    /\ net = "open"
    /\ net' = "closing"
    /\ UNCHANGED <<driver, reg, call, ctx, oper, dialer, conn, operation>>

DriverClose ==
    /\ driver = "open"
    /\ driver' = "closed"
    /\ UNCHANGED <<reg, net, call, ctx, oper, dialer, conn, operation>>

\* Driver.resources.Close waits for what its snapshot holds, and for no more: a
\* network that Network.Close has taken out is left to Network.Close.
DriverSnapshot ==
    /\ driver = "closed"
    /\ driver' = IF reg = "in" THEN "waiting" ELSE "done"
    /\ UNCHANGED <<reg, net, call, ctx, oper, dialer, conn, operation>>

DriverDone ==
    /\ driver = "waiting"
    /\ net = "done"
    /\ driver' = "done"
    /\ UNCHANGED <<reg, net, call, ctx, oper, dialer, conn, operation>>

\* The loop of scope.Close: contexts are cancelled, connections closed.
SweepOperation(o) ==
    /\ net = "closing"
    /\ oper[o] = "live"
    /\ oper' = [oper EXCEPT ![o] = "closed"]
    /\ EndCtx(o, "cancelled")
    /\ UNCHANGED <<driver, reg, net, call, dialer, conn, ended, listed>>

SweepConn(o) ==
    /\ net = "closing"
    /\ conn[o] = "open"
    /\ CloseConn(o)
    /\ UNCHANGED <<driver, reg, net, call, ctx, oper, dialer, operation>>

SweepEnd ==
    /\ net = "closing"
    /\ \A o \in Ops : oper[o] # "live" /\ conn[o] # "open"
    /\ net' = "done"
    /\ UNCHANGED <<driver, reg, call, ctx, oper, dialer, conn, operation>>

-----------------------------------------------------------------------------
(* Dial, LookupIP and LookupAddr.                                           *)

\* Network.operation first looks at the context of the scope.
Begin(o) ==
    /\ pc[o] = "idle"
    /\ net # "none"
    /\ Goto(o, IF net = "open" THEN "register" ELSE "done")
    /\ UNCHANGED <<driver, reg, net, ctx, oper, dialer, conn, operation, ok>>

\* scope.operation: a scope closed meanwhile returns a cancelled context.  The
\* token of an isolated connection may be unobtainable.
Register(o) ==
    /\ pc[o] = "register"
    /\ \/ /\ net = "open"
          /\ oper' = [oper EXCEPT ![o] = "live"]
          /\ UNCHANGED ctx
       \/ /\ net # "open"
          /\ ctx' = [ctx EXCEPT ![o] = "cancelled"]
          /\ UNCHANGED oper
    /\ Goto(o, "call") \/ Goto(o, "finish")
    /\ UNCHANGED <<driver, reg, net, dialer, conn, operation, ok>>

\* The SOCKS client reports an error at any moment, or it succeeds over the
\* connection its Dialer returned.
ClientFails(o) ==
    /\ pc[o] = "call"
    /\ Goto(o, "end")
    /\ UNCHANGED <<driver, reg, net, ctx, oper, dialer, conn, operation, ok>>

ClientSucceeds(o) ==
    /\ pc[o] = "call"
    /\ dialer[o] = "back" /\ listed[o]
    /\ Goto(o, "judge")
    /\ UNCHANGED <<driver, reg, net, ctx, oper, dialer, conn, operation, ok>>

\* A result that comes after the end of the context is an error.  For Dial,
\* clearing the deadline may fail; LookupIP may find no address of its family.
JudgeDial(o) ==
    /\ o \in Dials
    /\ pc[o] = "judge"
    /\ \/ /\ ctx[o] = "live"
          /\ ok' = [ok EXCEPT ![o] = TRUE]
          /\ Goto(o, "end")
       \/ /\ Goto(o, "drop")
          /\ UNCHANGED ok
    /\ UNCHANGED <<driver, reg, net, ctx, oper, dialer, conn, operation>>

JudgeLookup(o) ==
    /\ o \in Lookups
    /\ pc[o] = "judge"
    /\ \E found \in BOOLEAN :
         /\ found => ctx[o] = "live"
         /\ ok' = [ok EXCEPT ![o] = found]
    /\ Goto(o, "end")
    /\ UNCHANGED <<driver, reg, net, ctx, oper, dialer, conn, operation>>

Drop(o) ==
    /\ pc[o] = "drop"
    /\ CloseConn(o)
    /\ Goto(o, "end")
    /\ UNCHANGED <<driver, reg, net, ctx, oper, dialer, operation, ok>>

\* socksOperation.end: mark the operation ended ...
End(o) ==
    /\ pc[o] = "end"
    /\ ended' = [ended EXCEPT ![o] = TRUE]
    /\ Goto(o, "stop")
    /\ UNCHANGED <<driver, reg, net, ctx, oper, dialer, conn, listed, hook, ok>>

\* ... keep its context from closing connections ...
StoppedNothing(o) == hook[o]
Stopped(o) == IF hook[o] = "armed" THEN "stopped" ELSE hook[o]

\* (Dial alone hands its connection to the caller, if it succeeded)
Hands(o) == o \in Dials /\ ok[o]

\* The argument of end.
SuccessAlways(o) == o \in Dials
Success(o) == Hands(o)

Stop(o) ==
    /\ pc[o] = "stop"
    /\ hook' = [hook EXCEPT ![o] = Stopped(o)]
    /\ Goto(o, IF Success(o) THEN "finish" ELSE "release")
    /\ UNCHANGED <<driver, reg, net, ctx, oper, dialer, conn, ended, listed, ok>>

\* ... close them, unless the caller gets the connection ...
Release(o) ==
    /\ pc[o] = "release"
    /\ IF listed[o] THEN CloseConn(o) ELSE UNCHANGED conn
    /\ Goto(o, "finish")
    /\ UNCHANGED <<driver, reg, net, ctx, oper, dialer, operation, ok>>

\* ... and finish the context, which leaves the scope.
Finish(o) ==
    /\ pc[o] = "finish"
    /\ EndCtx(o, "over")
    /\ oper' = [oper EXCEPT ![o] = IF @ = "live" THEN "closed" ELSE @]
    /\ Goto(o, "done")
    /\ UNCHANGED <<driver, reg, net, dialer, conn, ended, listed, ok>>

\* The caller's context ends, or DialTimeout passes.
Expire(o) ==
    /\ pc[o] \notin {"idle", "register", "done"}
    /\ ctx[o] = "live"
    /\ EndCtx(o, "expired")
    /\ UNCHANGED <<driver, reg, net, call, oper, dialer, conn, ended, listed>>

\* The goroutine of AfterFunc closes the connection.
HookRun(o) ==
    /\ hook[o] = "fired"
    /\ hook' = [hook EXCEPT ![o] = "ran"]
    /\ CloseConn(o)
    /\ UNCHANGED <<driver, reg, net, call, ctx, oper, dialer, ended, listed>>

\* The application closes the connection Dial returned.
AppClose(o) ==
    /\ pc[o] = "done" /\ Hands(o)
    /\ conn[o] = "open"
    /\ CloseConn(o)
    /\ UNCHANGED <<driver, reg, net, call, ctx, oper, dialer, operation>>

-----------------------------------------------------------------------------
(* The Dialer.  It may outlive the call of the SOCKS client.                *)

DialerStart(o) ==
    /\ pc[o] = "call" /\ dialer[o] = "off"
    /\ DialerAt(o, "dial")
    /\ UNCHANGED <<driver, reg, net, call, ctx, oper, conn, operation>>

\* The sandbox's DialContext returns a connection, or not.
DialReturns(o) ==
    /\ dialer[o] = "dial"
    /\ \/ Set(o, "raw") /\ DialerAt(o, "track")
       \/ DialerAt(o, "back") /\ UNCHANGED conn
    /\ UNCHANGED <<driver, reg, net, call, ctx, oper, operation>>

\* scope.track: a closed scope closes the connection.
TrackedAlways == "open"
Tracked == IF net = "open" THEN "open" ELSE "closed"

Track(o) ==
    /\ dialer[o] = "track"
    /\ Set(o, Tracked)
    /\ DialerAt(o, IF Tracked = "open" THEN "enlist" ELSE "back")
    /\ UNCHANGED <<driver, reg, net, call, ctx, oper, operation>>

\* Under the operation's mutex: an ended operation takes no connection.
Takes(o) == ~ended[o]

\* AfterFunc starts its goroutine at once if the context has ended already.
Armed(o) == IF ctx[o] = "live" THEN "armed" ELSE "fired"

Enlist(o) ==
    /\ dialer[o] = "enlist"
    /\ \/ /\ Takes(o)
          /\ listed' = [listed EXCEPT ![o] = TRUE]
          /\ hook' = [hook EXCEPT ![o] = Armed(o)]
          /\ DialerAt(o, "back")
       \/ /\ ~Takes(o)
          /\ DialerAt(o, "refuse")
          /\ UNCHANGED <<listed, hook>>
    /\ UNCHANGED <<driver, reg, net, call, ctx, oper, conn, ended>>

Refuse(o) ==
    /\ dialer[o] = "refuse"
    /\ CloseConn(o)
    /\ DialerAt(o, "back")
    /\ UNCHANGED <<driver, reg, net, call, ctx, oper, operation>>

-----------------------------------------------------------------------------
CallStep(o) ==
    \/ Register(o) \/ JudgeDial(o) \/ JudgeLookup(o) \/ Drop(o)
    \/ End(o) \/ Stop(o) \/ Release(o) \/ Finish(o)
ClientReturns(o) == ClientFails(o) \/ ClientSucceeds(o)
DialerStep(o) == Track(o) \/ Enlist(o) \/ Refuse(o) \/ HookRun(o)
Sweep == SweepEnd \/ \E o \in Ops : SweepOperation(o) \/ SweepConn(o)

Finished ==
    /\ driver = "done" /\ net \in {"none", "done"}
    /\ \A o \in Ops : pc[o] = "done" \/ net = "none"
    /\ UNCHANGED vars

Next ==
    \/ NewNetwork \/ NetClose \/ ScopeClose \/ Sweep
    \/ DriverClose \/ DriverSnapshot \/ DriverSweep \/ DriverDone
    \/ \E o \in Ops : \/ Begin(o) \/ CallStep(o) \/ ClientReturns(o) \/ Expire(o) \/ AppClose(o)
                      \/ DialerStart(o) \/ DialReturns(o) \/ DialerStep(o)
    \/ Finished

Spec == Init /\ [][Next]_vars

(* Goroutines that can run do.  DialTimeout ends every context, and both the *)
(* SOCKS client and the sandbox's DialContext return once it has ended.  No  *)
(* goroutine runs for ever, so it is enough to ask that not all of them stop *)
(* while one can run.                                                        *)
Obliged ==
    \/ ScopeClose \/ Sweep \/ DriverSnapshot \/ DriverSweep \/ DriverDone
    \/ \E o \in Ops :
         \/ CallStep(o) \/ DialerStep(o) \/ Expire(o)
         \/ ctx[o] # "live" /\ (ClientReturns(o) \/ DialReturns(o))

FairSpec == Spec /\ WF_vars(Obliged)

-----------------------------------------------------------------------------
\* When closing is complete, no connection and no context of the network is
\* left, late dials included; and Driver.Close leaves no network behind, even
\* one created while it ran, but for one that a Network.Close of the application
\* has in hand (network.go:47, 58, 131; driver.go:608).
NothingOutlivesNetwork ==
    /\ net = "done" => \A o \in Ops : conn[o] # "open" /\ oper[o] # "live"
    /\ driver = "done" => net \in {"none", "done"} \/ reg = "app"

\* A connection that Dial has returned is closed by the application, by the
\* closing network, or because the context ended while Dial was still running;
\* never because Dial itself is over (network.go:142, 156, 164).
ReturnedConnectionKept ==
    [][\A o \in Ops : (pc[o] = "done" /\ Hands(o) /\ conn[o] = "open" /\ conn'[o] # "open") =>
           AppClose(o) \/ net = "closing" \/ ctx[o] = "expired"]_vars

\* Every Dial and lookup returns, and unless it handed a connection to its
\* caller every connection opened for it is closed, also by a Dialer that was
\* still at work when the call returned (network.go:136, 159).  Driver.Close gets
\* past its networks, whatever they are doing, and all of them close.  So of the
\* calls that are made, all come to this rest and stay there.
Released(o) == Hands(o) \/ (conn[o] \in {"none", "closed"} /\ dialer[o] \in {"off", "back"})

OperationsRelease ==
    <>[](/\ \A o \in Ops : pc[o] # "idle" => pc[o] = "done" /\ Released(o)
         /\ driver # "open" => driver = "done" /\ net \in {"none", "done"})
=============================================================================
