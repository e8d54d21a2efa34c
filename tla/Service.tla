------------------------------ MODULE Service ------------------------------
(***************************************************************************)
(* One onion service of service.go after NewService: Listen, RemovePort,   *)
(* listener.Close and Service.Close change the port mapping under          *)
(* Service.mu, Tor holds the acknowledged mapping, and Driver.Close (run   *)
(* by the application, by the monitor, or by a service call whose control  *)
(* command failed) closes the service's scope.  What becomes of descriptor *)
(* events is in ServiceCreation.                                           *)
(***************************************************************************)
EXTENDS Naturals

CONSTANTS
    Apps,           \* goroutines using the service
    Closers,        \* goroutines that call Driver.Close: application, monitor
    Nobody,
    Ports,          \* virtual ports reserved at creation
    MaxBacking,     \* bound on the backing listeners ever made
    Faults          \* control outcomes besides success: "reject", "lost"

ASSUME ServiceAssumption ==
    /\ Apps \cap Closers = {} /\ Nobody \notin Apps \cup Closers \cup Ports
    /\ MaxBacking \in Nat
    /\ \E f \in [Ports -> 1 .. MaxBacking] : \A p, q \in Ports : p # q => f[p] # f[q]
    /\ Faults \subseteq {"reject", "lost"}

Threads == Apps \cup Closers
Backings == 1 .. MaxBacking     \* 0 stands for a nil listener

VARIABLES
    mu,             \* holder of Service.mu
    svcOnce,        \* Service.once: "new", "running", "done"
    closing,        \* Service.closing
    backing, claimed, gen,  \* the servicePort of each virtual port
    made, open,     \* backing listeners created, and those still open
    active,         \* Service.active
    torUp, torMap,  \* Tor serves the onion; the mapping it acknowledged
    scope,          \* Service.scope: "open", "closing", "done"
    key,            \* Service.key is still in memory
    control,        \* the control connection is usable
    dOnce, runner,  \* Driver.closeOnce and the goroutine inside it
    dclosed,        \* Driver.closed
    pc, cont,       \* position, and continuation of a nested Driver.Close
    op,             \* the request a goroutine is executing
    handle          \* the serviceListener a goroutine holds

binding == <<backing, claimed, gen>>
listeners == <<made, open>>
tor == <<torUp, torMap>>
driver == <<dOnce, runner, dclosed>>
vars == <<mu, svcOnce, closing, binding, listeners, active, tor, scope, key,
          control, driver, pc, cont, op, handle>>

NoHandle == [port |-> Nobody, gen |-> 0]
NoOp == [kind |-> "none", port |-> Nobody, cand |-> 0, was |-> FALSE]

\* As NewService returns: every reserved port has a backing listener of its
\* own that Tor forwards to, and nobody has claimed it.
Init ==
    /\ mu = Nobody /\ svcOnce = "new" /\ closing = FALSE
    /\ backing = CHOOSE f \in [Ports -> Backings] : \A p, q \in Ports : p # q => f[p] # f[q]
    /\ open = {backing[p] : p \in Ports}
    /\ made = open
    /\ claimed = [p \in Ports |-> FALSE]
    /\ gen = [p \in Ports |-> 1]
    /\ active = TRUE
    /\ torUp = TRUE /\ torMap = backing
    /\ scope = "open" /\ key = TRUE
    /\ control = TRUE
    /\ dOnce = "new" /\ runner = Nobody /\ dclosed = FALSE
    /\ pc = [t \in Threads |-> "idle"]
    /\ cont = [t \in Threads |-> "idle"]
    /\ op = [t \in Threads |-> NoOp]
    /\ handle = [t \in Threads |-> NoHandle]

Goto(t, label) == pc' = [pc EXCEPT ![t] = label]

-----------------------------------------------------------------------------
(* Control commands (Driver.command).  Beside success Tor may reject a      *)
(* command, or Do may fail without an answer ("lost": a deadline, a lost    *)
(* connection, an unusable reply): the command may or may not have been     *)
(* executed, and the channel is usually, not always, dead.                  *)

Refused == dclosed \/ ~control

\* DEL_ONION
Del(t, ok, failed) ==
    \/ /\ ~Refused
       /\ torUp' = FALSE
       /\ Goto(t, ok)
       /\ UNCHANGED control
    \/ /\ Refused \/ "reject" \in Faults
       /\ Goto(t, failed)
       /\ UNCHANGED <<torUp, control>>
    \/ /\ ~Refused /\ "lost" \in Faults
       /\ control' \in BOOLEAN
       /\ torUp' \in {torUp, FALSE}
       /\ Goto(t, failed)

\* ADD_ONION with a mapping
Add(t, mapping, ok, rejected, failed) ==
    \/ /\ ~Refused
       /\ torUp' = TRUE /\ torMap' = mapping
       /\ Goto(t, ok)
       /\ UNCHANGED control
    \/ /\ ~Refused /\ "reject" \in Faults
       /\ Goto(t, rejected)
       /\ UNCHANGED <<tor, control>>
    \/ /\ Refused
       /\ Goto(t, failed)
       /\ UNCHANGED <<tor, control>>
    \/ /\ ~Refused /\ "lost" \in Faults
       /\ control' \in BOOLEAN
       /\ \/ torUp' = TRUE /\ torMap' = mapping
          \/ UNCHANGED tor
       /\ Goto(t, failed)

\* Where a call whose command has an unknown outcome goes: Driver.Close.
IgnoreUnknown == "fail"
OnUnknown == "dclose"

-----------------------------------------------------------------------------
(* Listen and removePort.                                                   *)

Usable == ~closing /\ scope = "open"

\* replaceMappingsLocked starts by withdrawing an onion that is up.
Withdraw == IF active THEN "del" ELSE "reset"

\* Listen on a port that has a listener: claim it.
ListenClaim(t, p) ==
    /\ pc[t] = "idle" /\ handle[t] = NoHandle
    /\ mu = Nobody
    /\ Usable
    /\ ~claimed[p] /\ backing[p] # 0
    /\ claimed' = [claimed EXCEPT ![p] = TRUE]
    /\ handle' = [handle EXCEPT ![t] = [port |-> p, gen |-> gen[p]]]
    /\ UNCHANGED <<mu, svcOnce, closing, backing, gen, listeners, active, tor, scope, key,
                   control, driver, pc, cont, op>>

\* newBacking: a listener nobody else has.
FreshBacking == CHOOSE b \in Backings : b \notin made

\* Listen on a withdrawn port: make a listener and ask Tor for a mapping with it.
ListenReopen(t, p) ==
    /\ pc[t] = "idle" /\ handle[t] = NoHandle
    /\ mu = Nobody
    /\ Usable
    /\ backing[p] = 0
    /\ mu' = t
    /\ Backings # made
    /\ LET b == FreshBacking IN
         /\ made' = made \cup {b}
         /\ open' = open \cup {b}
         /\ op' = [op EXCEPT ![t] = [kind |-> "listen", port |-> p, cand |-> b, was |-> active]]
    /\ Goto(t, Withdraw)
    /\ UNCHANGED <<svcOnce, closing, binding, active, tor, scope, key, control, driver, cont, handle>>

\* Whether removePort has something to withdraw.  RemovePort passes
\* generation 0; listener.Close passes the generation it was opened with.
WithdrawsAny(p, g) == backing[p] # 0
Withdraws(p, g) == backing[p] # 0 /\ (g = 0 \/ gen[p] = g)

\* The listeners that stay open while Tor is asked to withdraw the port.
ReleasedEarly(p) == open \ {backing[p]}
HeldUntilAck(p) == open

\* removePort takes the lock; with nothing to withdraw it returns at once.
RemovePort(t, p, g, kind) ==
    /\ pc[t] = "idle"
    /\ mu = Nobody
    /\ Usable
    /\ Withdraws(p, g)
    /\ mu' = t
    /\ open' = HeldUntilAck(p)
    /\ op' = [op EXCEPT ![t] = [kind |-> kind, port |-> p, cand |-> 0, was |-> active]]
    /\ Goto(t, Withdraw)
    /\ UNCHANGED <<svcOnce, closing, binding, made, active, tor, scope, key, control, driver, cont, handle>>

\* listener.Close of a stale or unmapped listener: nothing to withdraw.
DropHandle(t) ==
    /\ pc[t] = "idle" /\ handle[t] # NoHandle
    /\ mu = Nobody
    /\ Usable
    /\ ~Withdraws(handle[t].port, handle[t].gen)
    /\ handle' = [handle EXCEPT ![t] = NoHandle]
    /\ UNCHANGED <<mu, svcOnce, closing, binding, listeners, active, tor, scope, key,
                   control, driver, pc, cont, op>>

ListenerClose(t) == handle[t] # NoHandle /\ RemovePort(t, handle[t].port, handle[t].gen, "close")

Desired(t) == [backing EXCEPT ![op[t].port] = op[t].cand]

\* replaceMappingsLocked: withdraw the onion; a failure closes the driver.
RemapDel(t) ==
    /\ pc[t] = "del"
    /\ Del(t, "reset", OnUnknown)
    /\ cont' = [cont EXCEPT ![t] = "fail"]
    /\ UNCHANGED <<mu, svcOnce, closing, binding, listeners, active, torMap,
                   scope, key, driver, op, handle>>

\* The onion is down; an empty mapping is complete.
RemapReset(t) ==
    /\ pc[t] = "reset"
    /\ active' = FALSE
    /\ Goto(t, IF \A p \in Ports : Desired(t)[p] = 0 THEN "commit" ELSE "add")
    /\ UNCHANGED <<mu, svcOnce, closing, binding, listeners, tor, scope, key, control, driver, cont, op, handle>>

\* Ask for the new mapping; Tor's rejection leads to a rollback if the onion
\* was up before, an unknown outcome closes the driver.
RemapAdd(t) ==
    /\ pc[t] = "add"
    /\ Add(t, Desired(t), "commit", IF op[t].was THEN "rollback" ELSE "fail", OnUnknown)
    /\ cont' = [cont EXCEPT ![t] = "fail"]
    /\ UNCHANGED <<mu, svcOnce, closing, binding, listeners, active,
                   scope, key, driver, op, handle>>

RemapRollback(t) ==
    /\ pc[t] = "rollback"
    /\ Add(t, backing, "restored", OnUnknown, OnUnknown)
    /\ cont' = [cont EXCEPT ![t] = "fail"]
    /\ UNCHANGED <<mu, svcOnce, closing, binding, listeners, active,
                   scope, key, driver, op, handle>>

\* The old mapping is back; the request still fails.
RemapRestored(t) ==
    /\ pc[t] = "restored"
    /\ active' = TRUE
    /\ Goto(t, "fail")
    /\ UNCHANGED <<mu, svcOnce, closing, binding, listeners, tor, scope, key, control, driver, cont, op, handle>>

\* Tor acknowledged the mapping: release the withdrawn listener, or install
\* and claim the new one.  Then unlock.
Commit(t) ==
    /\ pc[t] = "commit"
    /\ LET p == op[t].port IN
       /\ active' = (\E q \in Ports : Desired(t)[q] # 0)
       /\ backing' = Desired(t)
       /\ IF op[t].kind = "listen"
          THEN /\ claimed' = [claimed EXCEPT ![p] = TRUE]
               /\ gen' = [gen EXCEPT ![p] = @ + 1]
               /\ handle' = [handle EXCEPT ![t] = [port |-> p, gen |-> gen[p] + 1]]
               /\ UNCHANGED open
          ELSE /\ open' = open \ {backing[p]}
               /\ claimed' = [claimed EXCEPT ![p] = FALSE]
               /\ gen' = [gen EXCEPT ![p] = @ + 1]
               /\ handle' = [handle EXCEPT ![t] = IF op[t].kind = "close" THEN NoHandle ELSE @]
    /\ mu' = Nobody
    /\ op' = [op EXCEPT ![t] = NoOp]
    /\ Goto(t, "idle")
    /\ UNCHANGED <<svcOnce, closing, made, tor, scope, key, control, driver, cont>>

\* The request failed: the candidate is closed, the binding is as before.
FailRequest(t) ==
    /\ pc[t] = "fail"
    /\ open' = open \ {op[t].cand}
    /\ mu' = Nobody
    /\ op' = [op EXCEPT ![t] = NoOp]
    /\ Goto(t, "idle")
    /\ UNCHANGED <<svcOnce, closing, binding, made, active, tor, scope, key, control, driver, cont, handle>>

-----------------------------------------------------------------------------
(* Service.Close.                                                           *)

CallClose(t) ==
    /\ pc[t] = "idle"
    /\ \/ svcOnce = "new" /\ svcOnce' = "running" /\ Goto(t, "slock")
       \/ svcOnce = "running" /\ Goto(t, "sonce") /\ UNCHANGED svcOnce
    /\ UNCHANGED <<mu, closing, binding, listeners, active, tor, scope, key, control, driver, cont, op, handle>>

WaitOnce(t) ==
    /\ pc[t] = "sonce" /\ svcOnce = "done"
    /\ Goto(t, "idle")
    /\ UNCHANGED <<mu, svcOnce, closing, binding, listeners, active, tor, scope, key, control, driver, cont, op, handle>>

\* Stop new calls; withdraw the onion unless the driver is closing anyway.
CloseLock(t) ==
    /\ pc[t] = "slock"
    /\ mu = Nobody
    /\ mu' = t
    /\ closing' = TRUE
    /\ Goto(t, IF active /\ ~dclosed THEN "sdel" ELSE "srelease")
    /\ UNCHANGED <<svcOnce, binding, listeners, active, tor, scope, key, control, driver, cont, op, handle>>

CloseDel(t) ==
    /\ pc[t] = "sdel"
    /\ Del(t, "srelease", "dclose")
    /\ cont' = [cont EXCEPT ![t] = "srelease"]
    /\ UNCHANGED <<mu, svcOnce, closing, binding, listeners, active, torMap,
                   scope, key, driver, op, handle>>

\* What the lock holds once close lets go of it.
UnlockForgotten(t) == t
Unlock(t) == Nobody

\* Release every backing listener, unlock, and close the scope.
CloseRelease(t) ==
    /\ pc[t] = "srelease"
    /\ active' = FALSE
    /\ open' = open \ {backing[p] : p \in Ports}
    /\ gen' = [p \in Ports |-> IF backing[p] # 0 THEN gen[p] + 1 ELSE gen[p]]
    /\ backing' = [p \in Ports |-> 0]
    /\ claimed' = [p \in Ports |-> FALSE]
    /\ mu' = Unlock(t)
    /\ Goto(t, "scope")
    /\ UNCHANGED <<svcOnce, closing, made, tor, scope, key, control, driver, cont, op, handle>>

CloseReturn(t) ==
    /\ pc[t] = "sdone"
    /\ svcOnce' = "done"
    /\ Goto(t, "idle")
    /\ UNCHANGED <<mu, closing, binding, listeners, active, tor, scope, key, control, driver, cont, op, handle>>

-----------------------------------------------------------------------------
(* Driver.Close, and the service's scope inside Driver.resources.           *)

CallDriverClose(t) ==
    /\ pc[t] = "idle" /\ dOnce # "done"
    /\ Goto(t, "dclose")
    /\ cont' = [cont EXCEPT ![t] = "idle"]
    /\ UNCHANGED <<mu, svcOnce, closing, binding, listeners, active, tor, scope, key, control, driver, op, handle>>

\* closeOnce.Do: the first caller runs the body, the others wait for it.
DriverClose(t) ==
    /\ pc[t] = "dclose"
    /\ \/ /\ dOnce = "new"
          /\ dOnce' = "running" /\ runner' = t /\ dclosed' = TRUE
          /\ Goto(t, "snap")
       \/ /\ dOnce = "done"
          /\ Goto(t, cont[t])
          /\ UNCHANGED driver
    /\ UNCHANGED <<mu, svcOnce, closing, binding, listeners, active, tor, scope, key, control, cont, op, handle>>

\* Driver.resources.Close visits the service unless Service.close has taken
\* its registration out.
DriverSnapshot(t) ==
    /\ pc[t] = "snap"
    /\ Goto(t, IF scope = "open" THEN "scope" ELSE "dstop")
    /\ UNCHANGED <<mu, svcOnce, closing, binding, listeners, active, tor, scope, key, control, driver, cont, op, handle>>

AfterScope(t) == IF t = runner THEN "dstop" ELSE "sdone"

\* scope.Close: the context is cancelled and the listeners are closed; a
\* second caller waits.
ScopeClose(t) ==
    /\ pc[t] = "scope"
    /\ \/ /\ scope = "open"
          /\ scope' = "closing"
          /\ open' = {}
          /\ Goto(t, "key")
       \/ /\ scope = "done"
          /\ Goto(t, AfterScope(t))
          /\ UNCHANGED <<scope, open>>
    /\ UNCHANGED <<mu, svcOnce, closing, binding, made, active, tor, key, control, driver, cont, op, handle>>

\* The closer registered last by NewService clears the key under Service.mu.
ClearKey(t) ==
    /\ pc[t] = "key"
    /\ mu = Nobody
    /\ key' = FALSE
    /\ scope' = "done"
    /\ Goto(t, AfterScope(t))
    /\ UNCHANGED <<mu, svcOnce, closing, binding, listeners, active, tor, control, driver, cont, op, handle>>

\* The rest of Driver.Close: the control connection and Tor go away.
DriverStop(t) ==
    /\ pc[t] = "dstop"
    /\ control' = FALSE
    /\ torUp' = FALSE
    /\ dOnce' = "done" /\ runner' = Nobody
    /\ Goto(t, cont[t])
    /\ UNCHANGED <<mu, svcOnce, closing, binding, listeners, active, torMap,
                   scope, key, dclosed, cont, op, handle>>

-----------------------------------------------------------------------------
\* The steps of a call after it has been made.
Step(t) ==
    \/ RemapDel(t) \/ RemapReset(t) \/ RemapAdd(t) \/ RemapRollback(t) \/ RemapRestored(t)
    \/ Commit(t) \/ FailRequest(t)
    \/ WaitOnce(t) \/ CloseLock(t) \/ CloseDel(t) \/ CloseRelease(t) \/ CloseReturn(t)
    \/ DriverClose(t) \/ DriverSnapshot(t) \/ ScopeClose(t) \/ ClearKey(t) \/ DriverStop(t)

Finished ==
    /\ svcOnce = "done" /\ (dOnce = "done" \/ Closers = {})
    /\ \A t \in Threads : pc[t] = "idle"
    /\ UNCHANGED vars

Next ==
    \/ \E t \in Apps : \/ CallClose(t) \/ ListenerClose(t) \/ DropHandle(t)
                       \/ \E p \in Ports : ListenClaim(t, p) \/ ListenReopen(t, p) \/ RemovePort(t, p, 0, "remove")
    \/ \E t \in Threads : Step(t)
    \/ \E t \in Closers : CallDriverClose(t)
    \/ Finished

Spec == Init /\ [][Next]_vars

\* A goroutine inside a call keeps running; control commands return because
\* Driver.command gives them a deadline.  A goroutine blocked on Service.mu
\* gets it in the end: sync.Mutex hands over to a waiter that starves.
FairSpec == Spec /\ \A t \in Threads : SF_vars(Step(t))

-----------------------------------------------------------------------------
\* "Tor acknowledges the new mapping before the old backing listener is
\* released" (service.go:365): until the driver closes, every endpoint Tor
\* forwards to is a listener the service still owns.
TorTargetsOpen ==
    (torUp /\ ~dclosed) => \A p \in Ports : torMap[p] # 0 => torMap[p] \in open

\* Between calls, the service and Tor agree on whether the onion is up and on
\* its mapping, after rejections, rollbacks and lost replies alike; if they
\* do not, the driver is closing.
ServiceAgreesWithTor ==
    (mu = Nobody /\ ~closing /\ ~dclosed) =>
        /\ active = torUp
        /\ active => torMap = backing

\* "Closing a returned listener removes only that virtual port" and only its
\* own incarnation of it (service.go:21): a claimed listener goes away when
\* its holder closes it, by RemovePort, or with the service.
ClaimReleasedByOwner ==
    [][\A t \in Apps : \A p \in Ports :
         (/\ handle[t] = [port |-> p, gen |-> gen[p]]
          /\ backing[p] # 0 /\ backing'[p] # backing[p]) =>
            closing \/ mu = t \/ op[mu].kind = "remove"]_vars

\* "Close is concurrent-safe and idempotent" (driver.go:599): a call of
\* Driver.Close returns.
DriverCloseReturns == dOnce = "running" ~> dOnce = "done"

\* However Listen, RemovePort, listener.Close and Service.Close overlap, and
\* whatever Tor answers, they never wait for one another for ever: every call
\* returns unless the driver is closing (service.go:297, 365, 529).
CallsReturn == \A t \in Apps : pc[t] # "idle" ~> (pc[t] = "idle" \/ dclosed)
=============================================================================
