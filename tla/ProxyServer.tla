---------------------------- MODULE ProxyServer ----------------------------
(***************************************************************************)
(* The SOCKS proxy that Tor's traffic leaves through (proxyServer of       *)
(* proxy.go), composed with the outbound gate: the accept loop, the        *)
(* connection limit, the scope of the inbound connections, the handlers    *)
(* around outboundGate.dial, and Close.  A session of OutboundGate is the  *)
(* handler of one inbound connection.                                      *)
(***************************************************************************)
EXTENDS OutboundGate, FiniteSets

CONSTANT Limit      \* capacity of proxyServer.limit
CONSTANT Nobody     \* the accept loop has no connection in hand

ASSUME ProxyAssumption ==
    /\ Limit \in Nat \ {0}
    /\ Sessions \subseteq Nat /\ Nobody \notin Sessions

VARIABLES
    listening,      \* proxyServer.listener is open
    pscope,         \* proxyServer.scope: "open", "closing", "done"
    accept, hand,   \* position of serve, and the connection it has in hand
    slots,          \* elements in proxyServer.limit
    stage,          \* of every handler: "free", then "accepted" ("gone" if refused), "shake", "dial", ...
    inc,            \* inbound connection: "none", "raw", "open" (tracked), "closed"
    ppc             \* position of proxyServer.Close

pvars == <<listening, pscope, accept, hand, slots, stage, inc, ppc>>
allVars == <<vars, pvars>>

ProxyInit ==
    /\ Init
    /\ listening = TRUE
    /\ pscope = "open"
    /\ accept = "accept" /\ hand = Nobody
    /\ slots = 0
    /\ stage = [s \in Sessions |-> "free"]
    /\ inc = [s \in Sessions |-> "none"]
    /\ ppc = "idle"

Stage(s, label) == stage' = [stage EXCEPT ![s] = label]
CloseInc(s) == inc' = [inc EXCEPT ![s] = "closed"]

\* Closed by the proxy's scope or handler, or as a resource of the epoch.
IncClosed(s) == inc[s] = "closed" \/ res[s]["in"] = "closed"

-----------------------------------------------------------------------------
(* serve                                                                     *)

\* Sessions are numbered in the order in which their connections arrive.
Arrives(s) == stage[s] = "free" /\ \A t \in Sessions : t < s => stage[t] # "free"

Accepts(s) ==
    /\ accept = "accept"
    /\ listening
    /\ Arrives(s)
    /\ hand' = s
    /\ inc' = [inc EXCEPT ![s] = "raw"]
    /\ Stage(s, "accepted")
    /\ accept' = "limit"
    /\ UNCHANGED <<vars, listening, pscope, slots, ppc>>

\* Accept fails on a closed listener, and may fail at any time.
AcceptFails ==
    /\ accept = "accept"
    /\ accept' = "done"
    /\ UNCHANGED <<vars, listening, pscope, hand, slots, stage, inc, ppc>>

\* A connection above the limit is closed and the loop goes on.
Room == slots < Limit

TakeSlot ==
    /\ accept = "limit"
    /\ Room
    /\ slots' = slots + 1
    /\ accept' = "track"
    /\ UNCHANGED <<vars, listening, pscope, hand, stage, inc, ppc>>

OverLimit ==
    /\ accept = "limit"
    /\ ~Room
    /\ CloseInc(hand)
    /\ Stage(hand, "gone")
    /\ hand' = Nobody
    /\ accept' = "accept"
    /\ UNCHANGED <<vars, listening, pscope, slots, ppc>>

\* scope.track, wg.Add, and the handler's goroutine.
Track ==
    /\ accept = "track"
    /\ pscope = "open"
    /\ inc' = [inc EXCEPT ![hand] = "open"]
    /\ Stage(hand, "shake")
    /\ hand' = Nobody
    /\ accept' = "accept"
    /\ UNCHANGED <<vars, listening, pscope, slots, ppc>>

\* A closed scope closes the connection; the slot goes back and the loop ends.
SlotsAfterRefusalKept == slots
SlotsAfterRefusal == slots - 1

TrackRefused ==
    /\ accept = "track"
    /\ pscope # "open"
    /\ CloseInc(hand)
    /\ slots' = SlotsAfterRefusal
    /\ Stage(hand, "gone")
    /\ hand' = Nobody
    /\ accept' = "done"
    /\ UNCHANGED <<vars, listening, pscope, ppc>>

-----------------------------------------------------------------------------
(* handle                                                                    *)

\* authenticate and readConnect: the peer is let through to gate.dial ...
ShakeDone(s) ==
    /\ stage[s] = "shake"
    /\ ~IncClosed(s)
    /\ Stage(s, "dial")
    /\ UNCHANGED <<vars, listening, pscope, accept, hand, slots, inc, ppc>>

\* ... or is refused, is silent until the timeout, or was disconnected.
ShakeFails(s) ==
    /\ stage[s] = "shake"
    /\ Stage(s, "return")
    /\ UNCHANGED <<vars, listening, pscope, accept, hand, slots, inc, ppc>>

Dial(s) ==
    /\ stage[s] = "dial"
    /\ DialPick(s)
    /\ UNCHANGED pvars

\* The context ends before the relay starts: AfterFunc closes the connection.
AfterFunc(s) ==
    /\ cancelled[s]
    /\ stage[s] \in {"shake", "dial"}
    /\ pc[s] \in {"start", "add", "operation", "check", "dial", "track", "recheck", "judge"}
    /\ ~IncClosed(s)
    /\ CloseInc(s)
    /\ UNCHANGED <<vars, listening, pscope, accept, hand, slots, stage, ppc>>

\* gate.dial and the relay are over: handle returns ...
HandleReturns(s) ==
    /\ stage[s] = "dial"
    /\ pc[s] = "end"
    /\ Stage(s, "return")
    /\ UNCHANGED <<vars, listening, pscope, accept, hand, slots, inc, ppc>>

\* ... and the deferred functions close the connection, ...
CloseTracked(s) ==
    /\ stage[s] = "return"
    /\ CloseInc(s)
    /\ Stage(s, "leave")
    /\ UNCHANGED <<vars, listening, pscope, accept, hand, slots, ppc>>

\* ... give the slot back and leave the WaitGroup.
Leave(s) ==
    /\ stage[s] = "leave"
    /\ slots' = slots - 1
    /\ Stage(s, "gone")
    /\ UNCHANGED <<vars, listening, pscope, accept, hand, inc, ppc>>

-----------------------------------------------------------------------------
(* proxyServer.Close.  Driver.Close calls it after it has closed the gate.   *)

\* scope.Close cancels the contexts of the handlers ...
CloseProxy ==
    /\ ppc = "idle"
    /\ cpc[Closer] = "closed"
    /\ pscope' = "closing"
    /\ cancelled' = [s \in Sessions |-> cancelled[s] \/ stage[s] \in {"shake", "dial"}]
    /\ ppc' = "scope"
    /\ UNCHANGED <<gate, scope, cb, latched, pc, ep, next, res, controller,
                   listening, accept, hand, slots, stage, inc>>

\* ... and closes their connections ...
SweepInc(s) ==
    /\ pscope = "closing"
    /\ inc[s] = "open"
    /\ CloseInc(s)
    /\ UNCHANGED <<vars, listening, pscope, accept, hand, slots, stage, ppc>>

\* ... before the listener is closed.
ListeningAfterCloseStill == TRUE
ListeningAfterClose == FALSE

CloseListener ==
    /\ ppc = "scope"
    /\ \A s \in Sessions : inc[s] # "open"
    /\ pscope' = "done"
    /\ listening' = ListeningAfterClose
    /\ ppc' = "wait"
    /\ UNCHANGED <<vars, accept, hand, slots, stage, inc>>

\* <-p.done, then wg.Wait.
Handlers == {s \in Sessions : stage[s] \in {"shake", "dial", "return", "leave"}}
AllGoneEarly == accept = "done"
AllGone == accept = "done" /\ Handlers = {}

ProxyClosed ==
    /\ ppc = "wait"
    /\ AllGone
    /\ ppc' = "closed"
    /\ UNCHANGED <<vars, listening, pscope, accept, hand, slots, stage, inc>>

-----------------------------------------------------------------------------
ServeStep == TakeSlot \/ OverLimit \/ Track \/ TrackRefused
HandlerStep(s) == Dial(s) \/ HandleReturns(s) \/ CloseTracked(s) \/ Leave(s)
CloseStep == CloseListener \/ ProxyClosed \/ \E s \in Sessions : SweepInc(s)

\* The application is done with the driver.
ProxyFinished == ppc = "closed" /\ UNCHANGED allVars

ProxyNext ==
    \/ Running /\ UNCHANGED pvars
    \/ \E s \in Sessions : Accepts(s) \/ ShakeDone(s) \/ ShakeFails(s) \/ HandlerStep(s) \/ AfterFunc(s)
    \/ AcceptFails \/ ServeStep \/ CloseProxy \/ CloseStep
    \/ ProxyFinished

ProxySpec == ProxyInit /\ [][ProxyNext]_allVars

(* As in OutboundGate.  The timeout of a handler ends the handshake.  Every *)
(* goroutine takes finitely many steps, so it is enough to ask that the     *)
(* server does not stop while one of them can run.                          *)
ProxyObliged ==
    \/ Obliged /\ UNCHANGED pvars
    \/ (~listening /\ AcceptFails) \/ ServeStep \/ CloseStep
    \/ \E s \in Sessions : HandlerStep(s) \/ ShakeDone(s) \/ ShakeFails(s)

FairProxySpec == ProxySpec /\ WF_allVars(ProxyObliged)

-----------------------------------------------------------------------------
(* Properties                                                                *)

\* The type of the server's state, and the use of its limit: a slot is held for
\* every running handler and for the connection between the limit and track,
\* on every path through serve and the deferred functions, and never more than
\* Limit.
SlotsMatchHandlers ==
    /\ listening \in BOOLEAN /\ pscope \in {"open", "closing", "done"}
    /\ accept \in {"accept", "limit", "track", "done"} /\ hand \in Sessions \cup {Nobody}
    /\ stage \in [Sessions -> {"free", "accepted", "shake", "dial", "return", "leave", "gone"}]
    /\ inc \in [Sessions -> {"none", "raw", "open", "closed"}]
    /\ ppc \in {"idle", "scope", "wait", "closed"}
    /\ slots = Cardinality(Handlers) + (IF accept = "track" THEN 1 ELSE 0)
    /\ slots <= Limit

\* When proxyServer.Close has returned, the accept loop and every handler are
\* gone, and every connection the server ever accepted or dialled is closed, the
\* one accepted while the scope was closing included.
NothingOutlivesProxy ==
    ppc = "closed" =>
        /\ accept = "done" /\ slots = 0
        /\ \A s \in Sessions :
              /\ stage[s] \in {"free", "gone"}
              /\ inc[s] \in {"none", "closed"}
              /\ \A k \in Kinds : res[s][k] \in {"none", "closed"}

\* proxyServer.Close returns, whatever dials are pending and relays running, and
\* a handler that starts always ends and frees its slot once the server closes.
ProxyCloseReturns == <>[](ppc \in {"idle", "closed"})
=============================================================================
