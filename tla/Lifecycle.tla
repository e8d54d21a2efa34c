----------------------------- MODULE Lifecycle -----------------------------
(***************************************************************************)
(* Start, the process waiter, the monitor and Driver.Close of driver.go:   *)
(* the order in which a driver acquires a sandbox, a working directory, a  *)
(* proxy, a Tor process and a control connection, and gives them back,     *)
(* whichever stage of Start fails, whichever part dies first, and whoever  *)
(* calls Close.  Service.tla and OutboundGate.tla look inside the steps    *)
(* that close the application's resources and the gate.                    *)
(***************************************************************************)
EXTENDS Naturals

CONSTANTS
    Users       \* goroutines that call Close once Start has returned

VARIABLES
    start,      \* stage of Start, then "failing", "failed" or "started"
    box,        \* sandbox: "none", "held", "closed"
    work,       \* working directory: "none", "present", "removed"
    gate,       \* outbound gate: "blocked", "open", "closed"
    resources,  \* Driver.resources is open
    proxy,      \* proxy server: "none", "up", "stopped" (its listener died), "closed"
    proc,       \* Tor: "none", "running", "exited", "reaped" (processDone is closed)
    link,       \* control connection: "none", "open", "dead"
    verified,   \* Tor has confirmed the mandatory upstream proxy
    network,    \* Tor's networking is enabled
    closed,     \* Driver.closed
    step,       \* position inside closeOnce
    closeErr,   \* shutdown stages recorded by recordCloseError
    monitor,    \* "off", "select", "cause", "publish", "close", "end"
    err,        \* Driver.err is set
    lost,       \* a part died before Close was called
    user        \* Close calls of the users: "idle", "wait", "returned"

held == <<box, work, proxy>>
torParts == <<proc, link, verified, network>>
closer == <<closed, step, closeErr>>
watch == <<monitor, err>>
lifeVars == <<start, held, gate, resources, torParts, closer, watch, lost, user>>

LifeInit ==
    /\ start = "acquire"
    /\ box = "none" /\ work = "none" /\ gate = "blocked" /\ resources = TRUE
    /\ proxy = "none" /\ proc = "none" /\ link = "none"
    /\ verified = FALSE /\ network = FALSE
    /\ closed = FALSE /\ step = "new" /\ closeErr = {}
    /\ monitor = "off" /\ err = FALSE /\ lost = FALSE
    /\ user = [u \in Users |-> "idle"]

-----------------------------------------------------------------------------
(* Start.                                                                   *)

Stage(here, there) == start = here /\ start' = there

Acquire ==
    /\ Stage("acquire", "workdir")
    /\ box' = "held"
    /\ UNCHANGED <<work, proxy, gate, resources, torParts, closer, watch, lost, user>>

WorkDir ==
    /\ Stage("workdir", "state")
    /\ work' = "present"
    /\ UNCHANGED <<box, proxy, gate, resources, torParts, closer, watch, lost, user>>

\* A network that cannot be attached leaves the gate blocked and Start goes on.
AttachOutbound ==
    /\ Stage("state", "proxy")
    /\ gate' \in {"blocked", "open"}
    /\ UNCHANGED <<held, resources, torParts, closer, watch, lost, user>>

StartProxy ==
    /\ Stage("proxy", "process")
    /\ proxy' = "up"
    /\ UNCHANGED <<box, work, gate, resources, torParts, closer, watch, lost, user>>

\* Configuration files, then the command; from here the waiter runs.
StartProcess ==
    /\ Stage("process", "connect")
    /\ proc' = "running"
    /\ UNCHANGED <<held, gate, resources, link, verified, network, closer, watch, lost, user>>

\* The control endpoint's file is read while Tor lives; the connection is made.
Connect ==
    /\ Stage("connect", "authenticate")
    /\ proc = "running"
    /\ link' = "open"
    /\ UNCHANGED <<held, gate, resources, proc, verified, network, closer, watch, lost, user>>

\* Authentication, ownership, event subscription: commands without effect here.
Authenticate ==
    /\ Stage("authenticate", "verify")
    /\ link = "open"
    /\ UNCHANGED <<held, gate, resources, torParts, closer, watch, lost, user>>

\* GETCONF Socks5Proxy must name the proxy's listener.
VerifyProxy ==
    /\ Stage("verify", "enable")
    /\ link = "open"
    /\ verified' = TRUE
    /\ UNCHANGED <<held, gate, resources, proc, link, network, closer, watch, lost, user>>

\* SETCONF DisableNetwork=0
EnableNetwork ==
    /\ Stage("enable", "socks")
    /\ link = "open"
    /\ network' = TRUE
    /\ UNCHANGED <<held, gate, resources, proc, link, verified, closer, watch, lost, user>>

\* The SOCKS endpoint is known: the monitor starts and Start returns.
Started ==
    /\ Stage("socks", "started")
    /\ link = "open"
    /\ monitor' = "select"
    /\ UNCHANGED <<held, gate, resources, torParts, closer, err, lost, user>>

Stages == {"acquire", "workdir", "state", "proxy", "process", "connect", "authenticate", "verify", "enable", "socks"}

\* Any stage may fail: a dependency's error, the startup deadline, Tor's exit.
\* The failing SETCONF of the enable stage may have been executed.
AfterFailureReturns == "failed"
AfterFailure == "failing"

StageFails ==
    /\ start \in Stages
    /\ start' = AfterFailure
    /\ network' \in IF start = "enable" THEN BOOLEAN ELSE {network}
    /\ UNCHANGED <<held, gate, resources, proc, link, verified, closer, watch, lost, user>>

-----------------------------------------------------------------------------
(* Driver.Close: closeOnce runs these steps in order, whoever called it.    *)

\* A caller of Close: the first one sets Driver.closed.
CallClose ==
    /\ closed' = TRUE
    /\ step' = IF step = "new" THEN "gate" ELSE step
    /\ UNCHANGED closeErr

FailedStartCloses ==
    /\ start = "failing" /\ step = "new"
    /\ CallClose
    /\ UNCHANGED <<start, held, gate, resources, torParts, watch, lost, user>>

FailedStartReturns ==
    /\ start = "failing" /\ step = "done"
    /\ start' = "failed"
    /\ UNCHANGED <<held, gate, resources, torParts, closer, watch, lost, user>>

UserCloses(u) ==
    /\ start = "started" /\ user[u] = "idle"
    /\ CallClose
    /\ user' = [user EXCEPT ![u] = "wait"]
    /\ UNCHANGED <<start, held, gate, resources, torParts, watch, lost>>

UserReturns(u) ==
    /\ user[u] = "wait" /\ step = "done"
    /\ user' = [user EXCEPT ![u] = "returned"]
    /\ UNCHANGED <<start, held, gate, resources, torParts, closer, watch, lost>>

\* One step of Close; some may record an error of their shutdown stage.
CloseGoto(here, there) == step = here /\ step' = there /\ UNCHANGED closed
Records(failures) == \E f \in {{}, failures} : closeErr' = closeErr \cup f

CloseGate ==
    /\ CloseGoto("gate", "resources")
    /\ gate' = "closed"
    /\ Records({"outbound"})
    /\ UNCHANGED <<start, held, resources, torParts, watch, lost, user>>

\* resources.Close closes every network and service and waits for them, without
\* a deadline.  In a failing Start none exists yet.
CloseResources ==
    /\ CloseGoto("resources", "signal")
    /\ resources' = FALSE
    /\ Records({"resources"})
    /\ UNCHANGED <<start, held, gate, torParts, watch, lost, user>>

\* SIGNAL SHUTDOWN, if there is a control connection; it may fail.
Signal ==
    /\ CloseGoto("signal", "hangup")
    /\ IF link = "open" THEN Records({"control"})
       ELSE closeErr' = IF link = "dead" THEN closeErr \cup {"control"} ELSE closeErr
    /\ UNCHANGED <<start, held, gate, resources, torParts, watch, lost, user>>

\* The control connection is closed.
HangUp ==
    /\ CloseGoto("hangup", IF proc = "none" THEN "proxy" ELSE "grace")
    /\ link' = IF link = "none" THEN link ELSE "dead"
    /\ UNCHANGED <<start, held, gate, resources, proc, verified, network, closeErr, watch, lost, user>>

\* Wait for processDone, or for the shutdown timeout.
Graceful ==
    /\ proc = "reaped"
    /\ CloseGoto("grace", "proxy")
    /\ Records({"graceful"})
    /\ UNCHANGED <<start, held, gate, resources, torParts, watch, lost, user>>

GraceExpiresNever == FALSE
GraceExpires == TRUE

GraceTimeout ==
    /\ GraceExpires
    /\ CloseGoto("grace", "kill")
    /\ closeErr' = closeErr \cup {"graceful"}
    /\ UNCHANGED <<start, held, gate, resources, torParts, watch, lost, user>>

Kill ==
    /\ CloseGoto("kill", "forced")
    /\ \/ /\ proc' = IF proc = "running" THEN "exited" ELSE proc
          /\ UNCHANGED closeErr
       \/ /\ closeErr' = closeErr \cup {"kill"}
          /\ UNCHANGED proc
    /\ UNCHANGED <<start, held, gate, resources, link, verified, network, watch, lost, user>>

ForcedWait ==
    /\ CloseGoto("forced", "proxy")
    /\ \/ proc = "reaped" /\ UNCHANGED closeErr
       \/ closeErr' = closeErr \cup {"forced"}
    /\ UNCHANGED <<start, held, gate, resources, torParts, watch, lost, user>>

CloseProxy ==
    /\ CloseGoto("proxy", "files")
    /\ proxy' = IF proxy = "none" THEN proxy ELSE "closed"
    /\ Records({"proxy"})
    /\ UNCHANGED <<start, box, work, gate, resources, torParts, watch, lost, user>>

\* Close has seen processDone, or no process was ever started.
Reaped == proc = "none" \/ (proc = "reaped" /\ "forced" \notin closeErr)

FilesErrorDropped == {}
FilesError == {"files"}

\* The working directory goes only with a reaped process.
RemoveFiles ==
    /\ CloseGoto("files", "box")
    /\ \/ /\ Reaped /\ work = "present"
          /\ \/ work' = "removed" /\ UNCHANGED closeErr
             \/ closeErr' = closeErr \cup FilesError /\ UNCHANGED work
       \/ ~(Reaped /\ work = "present") /\ UNCHANGED <<work, closeErr>>
    /\ UNCHANGED <<start, box, proxy, gate, resources, torParts, watch, lost, user>>

\* The end of Close: events are closed and Driver.done is signalled.
CloseBox ==
    /\ CloseGoto("box", "done")
    /\ box' = IF box = "none" THEN box ELSE "closed"
    /\ Records({"sandbox"})
    /\ UNCHANGED <<start, work, proxy, gate, resources, torParts, watch, lost, user>>

-----------------------------------------------------------------------------
(* The waiter, and what may go wrong by itself.                             *)

Loses == lost' = (lost \/ ~closed)

\* Tor exits: on SIGNAL SHUTDOWN, when its controller is gone, or by itself.
ProcessExits ==
    /\ proc = "running"
    /\ proc' = "exited"
    /\ Loses
    /\ UNCHANGED <<start, held, gate, resources, link, verified, network, closer, watch, user>>

\* Wait returned and both output streams are at their end: processDone.  A
\* child of Tor that keeps them open delays this.
Reap ==
    /\ proc = "exited"
    /\ proc' = "reaped"
    /\ UNCHANGED <<start, held, gate, resources, link, verified, network, closer, watch, lost, user>>

ControlLost ==
    /\ link = "open"
    /\ link' = "dead"
    /\ Loses
    /\ UNCHANGED <<start, held, gate, resources, proc, verified, network, closer, watch, user>>

ProxyStops ==
    /\ proxy = "up"
    /\ proxy' = "stopped"
    /\ Loses
    /\ UNCHANGED <<start, box, work, gate, resources, torParts, closer, watch, user>>

\* The monitor's select: a part died, or the driver is done.
PartDied == proc = "reaped" \/ link = "dead" \/ proxy \in {"stopped", "closed"}

MonitorSelect ==
    /\ monitor = "select"
    /\ \/ PartDied /\ monitor' = "cause"
       \/ step = "done" /\ monitor' = "end"
    /\ UNCHANGED <<start, held, gate, resources, torParts, closer, err, lost, user>>

\* The cause is recorded unless Close has begun ...
UnexpectedAlways == TRUE
Unexpected == ~closed

MonitorCause ==
    /\ monitor = "cause"
    /\ monitor' = "publish"
    /\ err' = (err \/ Unexpected)
    /\ UNCHANGED <<start, held, gate, resources, torParts, closer, lost, user>>

\* ... the event is published, to a broker that is open until Close ends ...
MonitorPublish ==
    /\ monitor = "publish"
    /\ monitor' = "close"
    /\ UNCHANGED <<start, held, gate, resources, torParts, closer, err, lost, user>>

\* ... and the driver is closed.
MonitorClose ==
    /\ monitor = "close"
    /\ monitor' = "end"
    /\ CallClose
    /\ UNCHANGED <<start, held, gate, resources, torParts, err, lost, user>>

-----------------------------------------------------------------------------
StartStep ==
    \/ Acquire \/ WorkDir \/ AttachOutbound \/ StartProxy \/ StartProcess \/ Connect
    \/ Authenticate \/ VerifyProxy \/ EnableNetwork \/ Started \/ StageFails
    \/ FailedStartCloses \/ FailedStartReturns

CloseStep ==
    \/ CloseGate \/ CloseResources \/ Signal \/ HangUp \/ Graceful \/ GraceTimeout
    \/ Kill \/ ForcedWait \/ CloseProxy \/ RemoveFiles \/ CloseBox

MonitorStep == MonitorSelect \/ MonitorCause \/ MonitorPublish \/ MonitorClose

Environment == ProcessExits \/ Reap \/ ControlLost \/ ProxyStops

\* The driver is closed and every call has returned.
Finished ==
    /\ step = "done" /\ start \in {"failed", "started"}
    /\ UNCHANGED lifeVars

LifeNext ==
    \/ StartStep \/ CloseStep \/ MonitorStep \/ Environment
    \/ \E u \in Users : UserCloses(u) \/ UserReturns(u)
    \/ Finished

LifeSpec == LifeInit /\ [][LifeNext]_lifeVars

(* Goroutines run.  Of the waits in Close, those for Tor have a deadline:   *)
(* nothing is assumed of Tor, it need not exit and processDone need not be  *)
(* closed.  gate.Close and proxy.Close have none; that they return is       *)
(* RetiredEpochsDrain (OutboundGate) and ProxyCloseReturns (ProxyServer).   *)
(* resources.Close has none either, and does not always return (README,     *)
(* Disagreements): it is not fair once there can be services.  The calls to *)
(* the supplied sandbox, files and process are assumed to return.           *)
CloseStepReturns ==
    \/ CloseGate \/ (start = "failing" /\ CloseResources) \/ Signal \/ HangUp \/ Graceful
    \/ GraceTimeout \/ Kill \/ ForcedWait \/ CloseProxy \/ RemoveFiles \/ CloseBox

FairSpec ==
    /\ LifeSpec
    /\ WF_lifeVars(StartStep) /\ WF_lifeVars(CloseStepReturns) /\ WF_lifeVars(MonitorStep)
    /\ \A u \in Users : WF_lifeVars(UserReturns(u))

-----------------------------------------------------------------------------
\* The directory Tor works in is removed only after Tor is gone, whatever timed
\* out before (driver.go:651), and Close "reports a graceful-shutdown timeout and
\* all observable cleanup failures" (driver.go:601): when it returns with a
\* directory or a process left behind, it returns an error.
LeftoversAreReported ==
    /\ work = "removed" => proc \in {"none", "reaped"}
    /\ step = "done" => (work = "present" \/ proc \in {"running", "exited"} => closeErr # {})

\* A failed Start gives everything back before it returns, but for the process
\* and its directory: these may outlast a Kill or a failing removal, and then
\* LeftoversAreReported applies (driver.go:67, 602).
FailedStartReleases ==
    start = "failed" =>
        /\ box # "held" /\ proxy \in {"none", "closed"} /\ link # "open"
        /\ gate = "closed" /\ ~resources

\* Driver.Err says that something was lost, never that Close was called: a
\* driver that was closed while all of its parts lived ends with a nil Err,
\* although closing makes every one of them look dead to the monitor.
ErrMeansLoss == err => lost

\* Close waits for ever for the networks and services of the driver.
StuckInResources == [](step = "resources")

\* When the process, the control connection or the proxy listener is lost, the
\* driver closes, even if Tor neither exits nor reacts; Close returns to every
\* caller; only the closing of its networks and services can hold it up, the
\* one wait without a deadline or a proof of its end.  A failed Start, which has
\* none of them, always returns (driver.go:347, 602, 608).
CloseReturns ==
    /\ (start = "started" /\ (proc = "reaped" \/ link = "dead" \/ proxy = "stopped")) ~>
           (step = "done" \/ StuckInResources)
    /\ \A u \in Users : user[u] = "wait" ~> (user[u] = "returned" \/ StuckInResources)
    /\ start = "failing" ~> start = "failed"
=============================================================================
