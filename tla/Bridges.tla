------------------------------ MODULE Bridges ------------------------------
(***************************************************************************)
(* Driver.SetBridges (driver.go): a sequence of control commands that      *)
(* disables Tor's networking, replaces the bridge configuration, enables   *)
(* networking and refreshes the SOCKS endpoint, with a rollback when a     *)
(* step fails.  Tor's state and what the driver believes of it are kept    *)
(* apart; Driver.Close may run at any time.                                *)
(***************************************************************************)
EXTENDS Naturals

CONSTANTS
    Callers,        \* goroutines calling SetBridges
    Nobody,
    Configs,        \* validated, approved bridge configurations
    UsesBridges,    \* those with UseBridges set; the others use guards
    Faults,         \* how a command may fail, see Command
    MaxListens      \* bound on the SOCKS listeners Tor opens

ASSUME BridgesAssumption ==
    /\ Nobody \notin Callers
    /\ UsesBridges \subseteq Configs
    /\ Faults \subseteq {"reject", "unsent", "lost", "late"}
    /\ MaxListens \in Nat \ {0}

VARIABLES
    torUp, disabled,    \* Tor runs; its DisableNetwork option
    torCfg, given,      \* the bridge configuration Tor holds; history: those it has held
    listen,             \* the SOCKS listener Tor opened last
    cfg, activePT,      \* Driver.cfg (bridges) and Driver.activePT
    socks,              \* Driver.socks
    redacted,           \* configurations torLogWriter redacts
    control,            \* the control connection is usable
    misled,             \* a command was executed and reported as failed, over an open channel
    closing,            \* Driver.Close: "no", "begun", "done"
    mu,                 \* holder of Driver.configMu
    pc, want, old,      \* position and local variables of SetBridges
    last                \* the last completed call: where it failed, from which configuration to which

tor == <<torUp, disabled, torCfg, given, listen>>
view == <<cfg, activePT, socks, redacted>>
channel == <<control, misled>>
local == <<want, old>>
vars == <<tor, view, channel, closing, mu, pc, local, last>>

\* As Start returns.
Init ==
    /\ torUp = TRUE /\ disabled = FALSE
    /\ torCfg \in Configs /\ given = {torCfg} /\ listen = 1
    /\ cfg = torCfg /\ activePT = torCfg /\ socks = listen /\ redacted = {torCfg}
    /\ control = TRUE /\ misled = FALSE /\ closing = "no"
    /\ mu = Nobody
    /\ pc = [t \in Callers |-> "idle"]
    /\ want = [t \in Callers |-> torCfg]
    /\ old = [t \in Callers |-> torCfg]
    /\ last = [failed |-> "no", from |-> torCfg, to |-> torCfg]

Goto(t, label) == pc' = [pc EXCEPT ![t] = label]

-----------------------------------------------------------------------------
(* Control commands: executed and acknowledged; rejected by Tor; not sent   *)
(* because the context ended first; "lost", executed or not, with the       *)
(* channel closed by the client; or "late", executed although Do returns    *)
(* the context's error over an open channel.                                *)

SetDisabled(v) ==
    /\ disabled' = v
    /\ listen' = IF disabled /\ ~v THEN listen + 1 ELSE listen
    /\ UNCHANGED <<torUp, torCfg, given>>

SetConf(c) == torCfg' = c /\ given' = given \cup {c} /\ UNCHANGED <<torUp, disabled, listen>>

\* A command that succeeds; its effect on Tor is given separately.
Answered == control /\ torUp /\ UNCHANGED channel

\* A command that fails without effect.
Ineffective ==
    /\ \/ /\ ~control \/ ~torUp \/ Faults \cap {"reject", "unsent"} # {}
          /\ UNCHANGED channel
       \/ "lost" \in Faults /\ control' = FALSE /\ UNCHANGED misled
    /\ UNCHANGED tor

\* A command that takes effect although Do reports a failure.
Misreported ==
    /\ control /\ torUp
    /\ \/ "lost" \in Faults /\ control' = FALSE /\ UNCHANGED misled
       \/ "late" \in Faults /\ misled' = TRUE /\ UNCHANGED control

\* Driver.command refuses once Driver.closed is set; control.Do does not.
Refused == closing # "no"

-----------------------------------------------------------------------------
\* SetBridges with a configuration that passed validation takes configMu.
LockIgnored == TRUE
LockFree == mu = Nobody

SetBridges(t, c) ==
    /\ pc[t] = "idle"
    /\ LockFree
    /\ mu' = t
    /\ want' = [want EXCEPT ![t] = c]
    /\ old' = [old EXCEPT ![t] = cfg]
    /\ Goto(t, "disable")
    /\ UNCHANGED <<tor, view, channel, closing, last>>

\* The call ends; configMu is released.
Return(t, how) ==
    /\ last' = [failed |-> how, from |-> old[t], to |-> want[t]]
    /\ mu' = Nobody
    /\ Goto(t, "idle")

\* From guards to bridges, a failure to disable networking closes the driver.
MustCloseNever(t) == FALSE
MustClose(t) == want[t] \in UsesBridges /\ old[t] \notin UsesBridges

\* SETCONF DisableNetwork=1
Disable(t) ==
    /\ pc[t] = "disable"
    /\ \/ /\ ~Refused /\ Answered
          /\ SetDisabled(TRUE)
          /\ Goto(t, "redact")
          /\ UNCHANGED <<mu, last>>
       \/ /\ \/ Ineffective
             \/ Refused /\ UNCHANGED <<tor, channel>>
             \/ ~Refused /\ Misreported /\ SetDisabled(TRUE)
          /\ IF MustClose(t)
             THEN Goto(t, "close") /\ UNCHANGED <<mu, last>>
             ELSE Return(t, "disable")
    /\ UNCHANGED <<view, closing, local>>

\* The secrets of both configurations are redacted before Tor sees the new one.
RedactOld(t) == {old[t]}
Redact(t) == {old[t], want[t]}

AddSecrets(t) ==
    /\ pc[t] = "redact"
    /\ redacted' = redacted \cup Redact(t)
    /\ Goto(t, "change")
    /\ UNCHANGED <<tor, cfg, activePT, socks, channel, closing, mu, local, last>>

\* The single SETCONF with the new configuration.
Change(t) ==
    /\ pc[t] = "change"
    /\ \/ /\ ~Refused /\ Answered
          /\ SetConf(want[t])
          /\ Goto(t, "activate")
          /\ UNCHANGED <<mu, last>>
       \/ /\ \/ Ineffective
             \/ Refused /\ UNCHANGED <<tor, channel>>
             \/ ~Refused /\ Misreported /\ SetConf(want[t])
          /\ Return(t, "change")
    /\ UNCHANGED <<view, closing, local>>

\* The transports are published before networking is enabled.
Activated(t) == want[t]

Activate(t) ==
    /\ pc[t] = "activate"
    /\ activePT' = Activated(t)
    /\ Goto(t, "enable")
    /\ UNCHANGED <<tor, cfg, socks, redacted, channel, closing, mu, local, last>>

\* SETCONF DisableNetwork=0
Enable(t) ==
    /\ pc[t] = "enable"
    /\ \/ /\ ~Refused /\ Answered
          /\ listen < MaxListens
          /\ SetDisabled(FALSE)
          /\ Goto(t, "query")
       \/ /\ \/ Ineffective
             \/ Refused /\ UNCHANGED <<tor, channel>>
             \/ ~Refused /\ listen < MaxListens /\ Misreported /\ SetDisabled(FALSE)
          /\ Goto(t, "rollback")
    /\ UNCHANGED <<view, closing, mu, local, last>>

\* GETINFO net/listeners/socks and applySocksReply; the reply may be unusable.
EndpointKept == socks
Endpoint == listen

Query(t) ==
    /\ pc[t] = "query"
    /\ \/ /\ ~Refused /\ Answered
          /\ UNCHANGED tor
          /\ socks' = Endpoint
          /\ Goto(t, "commit")
       \/ /\ Ineffective \/ (Refused /\ UNCHANGED <<tor, channel>>)
          /\ Goto(t, "redisable")
          /\ UNCHANGED socks
    /\ UNCHANGED <<cfg, activePT, redacted, closing, mu, local, last>>

\* Driver.cfg takes over the new configuration: the call succeeds.
Commit(t) ==
    /\ pc[t] = "commit"
    /\ cfg' = want[t]
    /\ Return(t, "no")
    /\ UNCHANGED <<tor, activePT, socks, redacted, channel, closing, local>>

\* After a failed query networking is disabled again, past Driver.command.

Redisable(t) ==
    /\ pc[t] = "redisable"
    /\ \/ /\ Answered
          /\ SetDisabled(TRUE)
          /\ Goto(t, "rollback")
       \/ /\ Ineffective \/ (Misreported /\ SetDisabled(TRUE))
          /\ Goto(t, "rollbackClose")
    /\ UNCHANGED <<view, closing, mu, local, last>>

\* rollbackBridges: on success the old transports are active again, on failure
\* Driver.cfg records the configuration Tor is presumed to hold.
Rollback(t) ==
    /\ pc[t] \in {"rollback", "rollbackClose"}
    /\ LET restored == IF pc[t] = "rollback" THEN "restored" ELSE "restoredClose"
           stuck == IF pc[t] = "rollback" THEN "stuck" ELSE "stuckClose"
       IN \/ Answered /\ SetConf(old[t]) /\ Goto(t, restored)
          \/ (Ineffective \/ (Misreported /\ SetConf(old[t]))) /\ Goto(t, stuck)
    /\ UNCHANGED <<view, closing, mu, local, last>>

RolledBack(t) ==
    /\ pc[t] \in {"restored", "restoredClose", "stuck", "stuckClose"}
    /\ LET success == pc[t] \in {"restored", "restoredClose"} IN
       /\ activePT' = IF success THEN old[t] ELSE want[t]
       /\ cfg' = IF success THEN cfg ELSE want[t]
    /\ IF pc[t] \in {"restored", "stuck"}
       THEN Return(t, "enable")
       ELSE Goto(t, "close") /\ UNCHANGED <<mu, last>>
    /\ UNCHANGED <<tor, socks, redacted, channel, closing, local>>

\* Driver.Close called by SetBridges, or by anybody else, and its end.
CloseCall(t) ==
    /\ pc[t] = "close"
    /\ closing' = IF closing = "no" THEN "begun" ELSE closing
    /\ Goto(t, "closed")
    /\ UNCHANGED <<tor, view, channel, mu, local, last>>

CloseReturn(t) ==
    /\ pc[t] = "closed" /\ closing = "done"
    /\ Return(t, "closed")
    /\ UNCHANGED <<tor, view, channel, closing, local>>

CloseBegin ==
    /\ closing = "no"
    /\ closing' = "begun"
    /\ UNCHANGED <<tor, view, channel, mu, pc, local, last>>

CloseEnd ==
    /\ closing = "begun"
    /\ closing' = "done"
    /\ control' = FALSE
    /\ torUp' = FALSE
    /\ UNCHANGED <<disabled, torCfg, given, listen, view, misled, mu, pc, local, last>>

\* Tor exits by itself, at the latest when its owning controller is gone.
TorExit ==
    /\ torUp
    /\ torUp' = FALSE
    /\ control' = FALSE
    /\ UNCHANGED <<disabled, torCfg, given, listen, view, misled, closing, mu, pc, local, last>>

-----------------------------------------------------------------------------
Step(t) ==
    \/ Disable(t) \/ AddSecrets(t) \/ Change(t) \/ Activate(t) \/ Enable(t) \/ Query(t) \/ Commit(t)
    \/ Redisable(t) \/ Rollback(t) \/ RolledBack(t) \/ CloseCall(t) \/ CloseReturn(t)

Next ==
    \/ \E t \in Callers : Step(t) \/ \E c \in Configs : SetBridges(t, c)
    \/ CloseBegin \/ CloseEnd \/ TorExit

Spec == Init /\ [][Next]_vars

-----------------------------------------------------------------------------
\* The driver and Tor can still talk, and nobody is closing the driver.
Alive == torUp /\ control /\ closing = "no"

\* "Keep every configuration redacted for the process lifetime" (driver.go:472):
\* the log lines of Tor, which can lag behind, are redacted for every bridge
\* configuration it has ever held, also one that a lost, misreported or rolled back
\* command gave it.
RedactedWhileHeld == given \subseteq redacted

\* After a call that returned success, and until the next one starts, Tor runs
\* the configuration the driver reports, networking is enabled, and new streams go
\* to the SOCKS listener Tor really has, whatever failed or was misreported in the
\* calls before.
SuccessIsApplied ==
    (mu = Nobody /\ last.failed = "no" /\ Alive) =>
        (torCfg = cfg /\ activePT = cfg /\ ~disabled /\ socks = listen)

\* "Publish the accepted transport set before networking is enabled" (driver.go:478):
\* whenever networking is enabled, also inside a call, transport events are
\* attributed to the transports Tor runs.  Excepted are the moment in which a call
\* has rolled back and is about to close the driver, and a misreported command.
TransportsKnown ==
    (~disabled /\ ~misled /\ Alive) =>
        (activePT = torCfg \/ \E t \in Callers : pc[t] = "restoredClose")

\* The driver's view of Tor is right between calls and, for what Tor's events are
\* attributed to, inside them.
DriverKnowsTor == SuccessIsApplied /\ TransportsKnown

\* "direct-mode driver remained active after network disable failed"
\* (lifecycle_test.go:1061): when a change from guards to bridges fails, Tor
\* does not go on with direct traffic.  The proviso: no command was executed and
\* yet reported as failed over an open channel (see README, Disagreements).
NoDirectTrafficAfterFailure ==
    (~misled /\ mu = Nobody /\ last.failed # "no" /\ last.to \in UsesBridges /\ last.from \notin UsesBridges /\ Alive) => disabled

=============================================================================
