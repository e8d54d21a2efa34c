---------------------------- MODULE OutboundGate ----------------------------
(***************************************************************************)
(* The outbound gate of proxy.go: SetOutbound replaces the network (an     *)
(* "epoch", identified here by its generation), proxy sessions dial        *)
(* through the epoch they picked, networks report that they went away, and *)
(* Driver.Close closes the gate for good.  An epoch owns a scope; its      *)
(* resources are the two sides of every session and the context of every   *)
(* pending dial.  Scope.tla models the scope itself at a finer grain.      *)
(***************************************************************************)
EXTENDS Naturals

CONSTANTS
    Sessions,       \* handlers of accepted proxy connections, one dial each
    Setters,        \* goroutines calling SetOutbound
    Closer,         \* the goroutine running Driver.Close
    LatchOutboundErrors,    \* failurePolicy; FALSE is RetrySameNetwork
    MaxGeneration   \* bound on the number of replacements

ASSUME GateAssumption ==
    /\ MaxGeneration \in Nat
    /\ Closer \notin Setters

ASSUME PolicyAssumption == LatchOutboundErrors \in BOOLEAN

Gen == 1 .. MaxGeneration
Controllers == Setters \cup {Closer}
Kinds == {"in", "op", "out"}    \* inbound side, dial context, outbound side

VARIABLES
    gateClosed, current, generation,    \* outboundGate; current = 0 is a nil epoch
    scope,          \* "none" (not created), "open", "closing", "done", per epoch
    cb,             \* the network's notification: "off", "on" (subscribed), "wait"
    latched,        \* generations of the published events with Latched set
    pc, ep,         \* position and epoch of every session
    next,           \* where a session goes once it has closed its sides
    cancelled,      \* the handler's own context: timeout or proxy shutdown
    res,            \* registrations of a session in its epoch, see Status
    cpc, want, ce   \* position, request and retiring epoch of every controller

vars == <<gateClosed, current, generation, scope, cb, latched,
          pc, ep, next, cancelled, res, cpc, want, ce>>
gate == <<gateClosed, current, generation>>
session == <<pc, ep, next, cancelled>>
controller == <<cpc, want, ce>>

(* A resource is "live" while registered, "doomed" from the moment the      *)
(* scope's Close put it in its slice, "closing"/"claimed" while its session *)
(* closes it (before/after that moment), "raw" if dialled but not           *)
(* registered.                                                              *)
Status == {"none", "raw", "live", "doomed", "closing", "claimed", "closed"}

Init ==
    /\ gateClosed = FALSE /\ current = 0 /\ generation = 0
    /\ scope = [g \in Gen |-> "none"]
    /\ cb = [g \in Gen |-> "off"]
    /\ latched = {}
    /\ pc = [s \in Sessions |-> "start"]
    /\ ep = [s \in Sessions |-> 0]
    /\ next = [s \in Sessions |-> "finish"]
    /\ cancelled = [s \in Sessions |-> FALSE]
    /\ res = [s \in Sessions |-> [k \in Kinds |-> "none"]]
    /\ cpc = [c \in Controllers |-> "idle"]
    /\ want = [c \in Controllers |-> "nil"]
    /\ ce = [c \in Controllers |-> 0]

-----------------------------------------------------------------------------
(* The epoch's scope.                                                       *)

IsOpen(g) == scope[g] = "open"

\* The slice scope.Close takes: whatever is registered in the epoch now.
Doomed(g) ==
    [s \in Sessions |-> [k \in Kinds |->
        IF ep[s] = g /\ res[s][k] = "live" THEN "doomed" ELSE res[s][k]]]

\* epoch.Close up to its unlock; a second caller only waits for "done".
CloseScope(g) ==
    IF IsOpen(g)
    THEN scope' = [scope EXCEPT ![g] = "closing"] /\ res' = Doomed(g)
    ELSE UNCHANGED <<scope, res>>

\* The loop of scope.Close closes one resource of its slice ...
SweepOne(s, k) ==
    /\ res[s][k] = "doomed"
    /\ res' = [res EXCEPT ![s][k] = "closed"]
    /\ UNCHANGED <<gate, scope, cb, latched, session, controller>>

\* ... and ends when all of them are closed, by whomever.
SweptAfterSessions(g) == \A s \in Sessions : ep[s] = g => pc[s] = "end"
Swept(g) == \A s \in Sessions : ep[s] = g =>
                \A k \in Kinds : res[s][k] \notin {"doomed", "claimed"}

SweepEnd(g) ==
    /\ scope[g] = "closing"
    /\ Swept(g)
    /\ scope' = [scope EXCEPT ![g] = "done"]
    /\ UNCHANGED <<gate, cb, latched, session, res, controller>>

-----------------------------------------------------------------------------
(* outboundGate.dial and the session around it (proxyServer.handle).        *)

Goto(s, label) == pc' = [pc EXCEPT ![s] = label]
Set(s, k, status) == res' = [res EXCEPT ![s][k] = status]

\* The context of the dial: the handler's, cancelled with the epoch's scope.
CtxErr(s) == cancelled[s] \/ res[s]["op"] = "closed"

\* outboundGate.state().Available, and the first test of dial.
Available(g) == ~gateClosed /\ current = g /\ IsOpen(g)

\* dial reads the current epoch under the mutex and refuses if there is none.
DialPick(s) ==
    /\ pc[s] = "start"
    /\ \/ /\ current \in Gen /\ Available(current)
          /\ ep' = [ep EXCEPT ![s] = current]
          /\ Goto(s, "add")
       \/ /\ ~(current \in Gen /\ Available(current))
          /\ Goto(s, "end")
          /\ UNCHANGED ep
    /\ UNCHANGED <<gate, scope, cb, latched, next, cancelled, res, controller>>

\* scope.add: what becomes of a closer handed to the epoch (scope.go:38).
AdmittedAlways(g) == "live"
Admitted(g) == IF IsOpen(g) THEN "live" ELSE "closed"

\* e.add(inc): a closed epoch closes inc and the dial is refused.
AddIn(s) ==
    /\ pc[s] = "add"
    /\ Set(s, "in", Admitted(ep[s]))
    /\ Goto(s, IF Admitted(ep[s]) = "live" THEN "operation" ELSE "finish")
    /\ UNCHANGED <<gate, scope, cb, latched, ep, next, cancelled, controller>>

\* e.operation(ctx): a closed epoch returns a cancelled context.
Operation(s) ==
    /\ pc[s] = "operation"
    /\ Set(s, "op", Admitted(ep[s]))
    /\ Goto(s, "check")
    /\ UNCHANGED <<gate, scope, cb, latched, ep, next, cancelled, controller>>

\* The context test before network.Dial.
CheckCtx(s) ==
    /\ pc[s] = "check"
    /\ Goto(s, IF CtxErr(s) THEN "close" ELSE "dial")
    /\ UNCHANGED <<gate, scope, cb, latched, ep, next, cancelled, res, controller>>

\* The handler's timeout fires, or the proxy shuts down; seen where the
\* context is read.
Cancel(s) ==
    /\ pc[s] \in {"check", "dial", "recheck", "judge"}
    /\ ~cancelled[s]
    /\ cancelled' = [cancelled EXCEPT ![s] = TRUE]
    /\ UNCHANGED <<gate, scope, cb, latched, pc, ep, next, res, controller>>

\* network.Dial returns a connection, possibly long after it was cancelled.
DialConn(s) ==
    /\ pc[s] = "dial"
    /\ Set(s, "out", "raw")
    /\ Goto(s, "track")
    /\ UNCHANGED <<gate, scope, cb, latched, ep, next, cancelled, controller>>

\* network.Dial returns neither a connection nor an error: inc is closed,
\* then the epoch is latched.
DialNil(s) ==
    /\ pc[s] = "dial"
    /\ Goto(s, "close")
    /\ next' = [next EXCEPT ![s] = "latch"]
    /\ UNCHANGED <<gate, scope, cb, latched, ep, cancelled, res, controller>>

\* outboundGate.failed latches on net.ErrClosed and, by policy, on any other
\* network failure.  Under RetrySameNetwork such a failure is like "other".
Latches(failure) == failure = "closed" \/ (LatchOutboundErrors /\ failure = "network")

\* network.Dial fails: inc is closed, then gate.failed judges the error.
DialErr(s) ==
    /\ pc[s] = "dial"
    /\ \E failure \in {"closed", "network", "other"} :
         next' = [next EXCEPT ![s] = IF Latches(failure) THEN "judge" ELSE "finish"]
    /\ Goto(s, "close")
    /\ UNCHANGED <<gate, scope, cb, latched, ep, cancelled, res, controller>>

\* A failure of a dial whose context ended says nothing about the network.
Judge(s) ==
    /\ pc[s] = "judge"
    /\ Goto(s, IF CtxErr(s) THEN "finish" ELSE "latch")
    /\ UNCHANGED <<gate, scope, cb, latched, ep, next, cancelled, res, controller>>

\* e.track(out): a closed epoch closes the late connection.
TrackOut(s) ==
    /\ pc[s] = "track"
    /\ Set(s, "out", Admitted(ep[s]))
    /\ Goto(s, IF Admitted(ep[s]) = "live" THEN "recheck" ELSE "close")
    /\ UNCHANGED <<gate, scope, cb, latched, ep, next, cancelled, controller>>

\* The last context test of dial.  On success the deferred finish drops the
\* operation and the session starts to relay.
Recheck(s) ==
    /\ pc[s] = "recheck"
    /\ \/ /\ CtxErr(s)
          /\ Goto(s, "close")
          /\ UNCHANGED res
       \/ /\ ~CtxErr(s)
          /\ Goto(s, "relay")
          /\ Set(s, "op", "closed")
    /\ UNCHANGED <<gate, scope, cb, latched, ep, next, cancelled, controller>>

\* The relay ends.  The copy that returns first closes both sides when it
\* failed, before the failure is judged; a failure of the other one is judged
\* before the deferred Close.
RelayEnd(s) ==
    /\ pc[s] = "relay"
    /\ \E failure \in {"closed", "network", "other"} : \E first \in BOOLEAN :
         LET latch == failure = "network" /\ Latches(failure) IN
         /\ Goto(s, IF latch /\ ~first THEN "latch" ELSE "close")
         /\ next' = [next EXCEPT ![s] = IF latch /\ first THEN "latch" ELSE "finish"]
    /\ UNCHANGED <<gate, scope, cb, latched, ep, cancelled, res, controller>>

\* resource.Close of a side by its own session: it leaves the scope ...
CloseSideBegin(s, k) ==
    /\ pc[s] = "close"
    /\ k \in {"in", "out"}
    /\ \A j \in Kinds : res[s][j] \notin {"closing", "claimed"}
    /\ res[s][k] \in {"live", "doomed"}
    /\ Set(s, k, IF res[s][k] = "live" THEN "closing" ELSE "claimed")
    /\ UNCHANGED <<gate, scope, cb, latched, session, controller>>

\* ... and then the connection is closed.
CloseSideEnd(s, k) ==
    /\ res[s][k] \in {"closing", "claimed"}
    /\ Set(s, k, "closed")
    /\ UNCHANGED <<gate, scope, cb, latched, session, controller>>

CloseSidesDone(s) ==
    /\ pc[s] = "close"
    /\ \A k \in {"in", "out"} : res[s][k] \in {"none", "closed"}
    /\ Goto(s, next[s])
    /\ next' = [next EXCEPT ![s] = "finish"]
    /\ UNCHANGED <<gate, scope, cb, latched, ep, cancelled, res, controller>>

\* The epoch that gate.failed closes: the one the session dialled through.
LatchCurrent(s) == IF current = 0 THEN ep[s] ELSE current
LatchTarget(s) == ep[s]

\* The epoch is closed, and only then is the Latched event published; the
\* deferred closes follow.
Latch(s) ==
    /\ pc[s] = "latch"
    /\ CloseScope(LatchTarget(s))
    /\ Goto(s, "latched")
    /\ UNCHANGED <<gate, cb, latched, ep, next, cancelled, controller>>

LatchPublish(s) ==
    /\ pc[s] = "latched"
    /\ scope[ep[s]] = "done"
    /\ latched' = latched \cup {ep[s]}
    /\ Goto(s, "close")
    /\ UNCHANGED <<gate, scope, cb, ep, next, cancelled, res, controller>>

\* The deferred finish of dial, and the handler's return, which ends its context.
Finish(s) ==
    /\ pc[s] = "finish"
    /\ IF res[s]["op"] \in {"live", "doomed"} THEN Set(s, "op", "closed") ELSE UNCHANGED res
    /\ Goto(s, "end")
    /\ cancelled' = [cancelled EXCEPT ![s] = FALSE]
    /\ UNCHANGED <<gate, scope, cb, latched, ep, next, controller>>

-----------------------------------------------------------------------------
(* outboundGate.replace and outboundGate.Close, under gate.change.          *)

CGoto(c, label) == cpc' = [cpc EXCEPT ![c] = label]
ChangeUnguarded == TRUE
ChangeFree == \A c \in Controllers : cpc[c] \in {"idle", "closed"}

\* Take gate.change, then detach the epoch under gate.mu.  A replacement of a
\* closed gate returns ErrClosed and changes nothing.
Detach(c, w) ==
    /\ ChangeFree
    /\ cpc[c] = "idle"
    /\ current' = 0
    /\ want' = [want EXCEPT ![c] = w]
    /\ ce' = [ce EXCEPT ![c] = current]
    /\ CGoto(c, IF current = 0 THEN "proceed" ELSE "retire")
    /\ UNCHANGED <<scope, cb, latched, session, res>>

Replace(c, w) ==
    /\ Detach(c, w)
    /\ ~gateClosed
    /\ generation < MaxGeneration
    /\ generation' = generation + 1
    /\ UNCHANGED gateClosed

CloseGate(c) ==
    /\ Detach(c, "close")
    /\ gateClosed' = TRUE
    /\ UNCHANGED generation

\* epoch.retire: close the scope, wait for it, unsubscribe.
Retire(c) ==
    /\ cpc[c] = "retire"
    /\ CloseScope(ce[c])
    /\ CGoto(c, "retired")
    /\ UNCHANGED <<gate, cb, latched, session, want, ce>>

\* If a connection of the old epoch failed to close, replace stops here and
\* the gate stays blocked.
Retired(c) ==
    /\ cpc[c] = "retired"
    /\ scope[ce[c]] = "done"
    /\ cb' = [cb EXCEPT ![ce[c]] = IF @ = "on" THEN "off" ELSE @]
    /\ \/ CGoto(c, "proceed") /\ UNCHANGED latched
       \/ /\ want[c] # "close"
          /\ ce[c] < generation
          /\ latched' = latched \cup {generation}
          /\ CGoto(c, "idle")
    /\ UNCHANGED <<gate, scope, session, res, want, ce>>

Proceed(c) ==
    /\ cpc[c] = "proceed"
    /\ CGoto(c, CASE want[c] = "close" -> "closed"
                  [] want[c] = "nil"   -> "idle"
                  [] want[c] = "net"   -> "attach")
    /\ UNCHANGED <<gate, scope, cb, latched, session, res, want, ce>>

\* A new epoch, and its subscriptions to the network.
Attach(c) ==
    /\ cpc[c] = "attach"
    /\ scope' = [scope EXCEPT ![generation] = "open"]
    /\ cb' = [cb EXCEPT ![generation] = "on"]
    /\ CGoto(c, "vet")
    /\ UNCHANGED <<gate, latched, session, res, want, ce>>

RejectContinues(c) ==
    /\ cpc[c] = "vet"
    /\ latched' = latched \cup {generation}
    /\ CGoto(c, "install")
    /\ UNCHANGED <<gate, scope, cb, session, res, want, ce>>

\* A failed subscription, a network that is down, or an epoch that a
\* notification has closed meanwhile: report, retire, return.
Reject(c) ==
    /\ cpc[c] = "vet"
    /\ latched' = latched \cup {generation}
    /\ want' = [want EXCEPT ![c] = "nil"]
    /\ ce' = [ce EXCEPT ![c] = generation]
    /\ CGoto(c, "retire")
    /\ UNCHANGED <<gate, scope, cb, session, res>>

Accept(c) ==
    /\ cpc[c] = "vet"
    /\ IsOpen(generation)
    /\ CGoto(c, "install")
    /\ UNCHANGED <<gate, scope, cb, latched, session, res, want, ce>>

Install(c) ==
    /\ cpc[c] = "install"
    /\ current' = generation
    /\ CGoto(c, "idle")
    /\ UNCHANGED <<gateClosed, generation, scope, cb, latched, session, res, want, ce>>

-----------------------------------------------------------------------------
(* attachmentObserver.Close and epoch.Down: the network went away.          *)

Notify(g) ==
    /\ cb[g] = "on"
    /\ CloseScope(g)
    /\ cb' = [cb EXCEPT ![g] = "wait"]
    /\ UNCHANGED <<gate, latched, session, controller>>

NotifyPublish(g) ==
    /\ cb[g] = "wait"
    /\ scope[g] = "done"
    /\ latched' = latched \cup {g}
    /\ cb' = [cb EXCEPT ![g] = "off"]
    /\ UNCHANGED <<gate, scope, session, res, controller>>

-----------------------------------------------------------------------------
\* Steps that a goroutine takes without waiting for the outside world.
SessionStep(s) ==
    \/ AddIn(s) \/ Operation(s) \/ CheckCtx(s) \/ Judge(s) \/ TrackOut(s) \/ Recheck(s)
    \/ CloseSidesDone(s) \/ Latch(s) \/ LatchPublish(s) \/ Finish(s)
    \/ \E k \in Kinds : CloseSideBegin(s, k) \/ CloseSideEnd(s, k)
DialReturn(s) == DialConn(s) \/ DialNil(s) \/ DialErr(s)
ControllerStep(c) ==
    Retire(c) \/ Retired(c) \/ Proceed(c) \/ Attach(c) \/ Reject(c) \/ Accept(c) \/ Install(c)

\* Everything but the start of a dial, which is up to the proxy server.
Running ==
    \/ \E s \in Sessions : \/ Cancel(s) \/ SessionStep(s) \/ DialReturn(s) \/ RelayEnd(s)
                           \/ \E k \in Kinds : SweepOne(s, k)
    \/ \E c \in Setters : \E w \in {"nil", "net"} : Replace(c, w)
    \/ CloseGate(Closer)
    \/ \E c \in Controllers : ControllerStep(c)
    \/ \E g \in Gen : SweepEnd(g) \/ Notify(g) \/ NotifyPublish(g)

Finished ==
    /\ \A s \in Sessions : pc[s] = "end"
    /\ ChangeFree /\ cpc[Closer] = "closed"
    /\ UNCHANGED vars

Next == (\E s \in Sessions : DialPick(s)) \/ Running \/ Finished

Spec == Init /\ [][Next]_vars

(* The steps that are bound to happen: a goroutine that can run keeps       *)
(* running.  network.Dial returns once its context ends, which the          *)
(* handler's timeout ensures; a relay ends once both of its connections are *)
(* closed.  Nothing obliges the application to call SetOutbound or Close,   *)
(* or a network to go down.                                                 *)
Obliged ==
    \/ \E s \in Sessions :
         \/ SessionStep(s)
         \/ pc[s] = "dial" /\ Cancel(s)
         \/ CtxErr(s) /\ DialReturn(s)
         \/ res[s]["in"] = "closed" /\ res[s]["out"] = "closed" /\ RelayEnd(s)
         \/ \E k \in Kinds : SweepOne(s, k)
    \/ \E c \in Controllers : ControllerStep(c)
    \/ \E g \in Gen : SweepEnd(g) \/ NotifyPublish(g)

-----------------------------------------------------------------------------
\* While an epoch is installed, and after gate.Close, every other epoch is
\* completely shut: traffic never flows through two networks or through a
\* closed gate, whatever SetOutbound, failures, notifications and Close overlap
\* (proxy.go:87, 131, 136).
EpochsDoNotOverlap ==
    /\ cpc[Closer] = "closed" => current = 0
    /\ (current # 0 \/ cpc[Closer] = "closed") =>
           \A g \in Gen : g # current => scope[g] \in {"none", "done"}

\* When the scope of an epoch is done, none of its sessions holds a connection
\* that nobody is closing, late dials included (proxy.go:162, 192).
ClosedEpochHoldsNothing ==
    \A s \in Sessions : (ep[s] \in Gen /\ scope[ep[s]] = "done") =>
        \A k \in Kinds : res[s][k] \notin {"live", "doomed", "claimed"}

\* "Latched reports that explicit SetOutbound is required before Tor can make
\* another outgoing connection" (events.go): no generation is available after
\* a Latched event for it has been published.
LatchedStaysBlocked == \A g \in latched : ~Available(g)

\* An epoch that was closed is never reopened, and a failure latches only the
\* epoch it happened in: a step that closes the scope of the installed epoch
\* comes from that epoch (its network, its sessions) or from its replacement.
OnlyOwnFailuresLatch ==
    [][\A g \in Gen :
         /\ scope[g] = "done" => scope'[g] = "done"
         /\ (Available(g) /\ scope'[g] # "open") =>
               \/ cb[g] = "on" /\ cb'[g] = "wait"
               \/ \E s \in Sessions : ep[s] = g /\ pc[s] = "latch" /\ pc'[s] = "latched"]_vars

\* SetOutbound and gate.Close return, and neither waits for a pending dial; once
\* an epoch is closed, each of its sessions ends and both of its connections are
\* closed (proxy.go:69, 131, 162).  So when the application has made its last
\* call, all of this is over for good.
RetiredEpochsDrain ==
    <>[](/\ \A c \in Controllers : cpc[c] \in {"idle", "closed"}
         /\ \A s \in Sessions : (ep[s] \in Gen /\ ~IsOpen(ep[s])) =>
                pc[s] = "end" /\ \A k \in Kinds : res[s][k] \in {"none", "closed"})
=============================================================================
