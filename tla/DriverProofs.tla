---------------------------- MODULE DriverProofs ----------------------------
(***************************************************************************)
(* Proofs about the two modules of driver.go that have no other home:      *)
(* Bridges.tla, for any callers, configurations and faults, and            *)
(* Lifecycle.tla, for any number of goroutines that call Close.  The two   *)
(* state machines share no variable; each theorem is about one of them.    *)
(***************************************************************************)
EXTENDS Bridges, Lifecycle, TLAPS

\* Time for the provers on a slow machine.
USE SMTT(90), ZenonT(60)

Labels ==
    {"idle", "disable", "redact", "change", "activate", "enable", "query", "commit", "redisable",
     "rollback", "rollbackClose", "restored", "restoredClose", "stuck", "stuckClose", "close", "closed"}

\* The values of the variables; SetBridges holds configMu throughout.
TypeInv ==
    /\ torUp \in BOOLEAN /\ disabled \in BOOLEAN /\ control \in BOOLEAN /\ misled \in BOOLEAN
    /\ listen \in Nat /\ socks \in Nat
    /\ torCfg \in Configs /\ cfg \in Configs /\ activePT \in Configs
    /\ redacted \subseteq Configs /\ given \subseteq Configs
    /\ closing \in {"no", "begun", "done"}
    /\ mu \in Callers \cup {Nobody}
    /\ pc \in [Callers -> Labels]
    /\ want \in [Callers -> Configs] /\ old \in [Callers -> Configs]
    /\ last \in [failed : {"no", "disable", "change", "enable", "closed"}, from : Configs, to : Configs]
    /\ \A t \in Callers : pc[t] # "idle" <=> mu = t

\* From its redaction on, every configuration a call may give Tor stays redacted.
RedactInv ==
    /\ RedactedWhileHeld
    /\ \A t \in Callers :
           pc[t] \notin {"idle", "disable", "redact", "close", "closed"} => old[t] \in redacted /\ want[t] \in redacted

\* What a call has achieved at each position, and what the last one left.  No
\* fault can undo it: nobody else gives Tor commands while configMu is held.
AppliedInv ==
    /\ \A t \in Callers :
        /\ pc[t] \in {"activate", "enable", "query", "commit"} => torCfg = want[t]
        /\ pc[t] \in {"enable", "query", "commit"} => activePT = want[t]
        /\ pc[t] \in {"query", "commit"} => ~disabled
        /\ pc[t] = "commit" => socks = listen
    /\ (mu = Nobody /\ last.failed = "no") => torCfg = cfg /\ activePT = cfg /\ ~disabled /\ socks = listen

\* What Tor runs and what its transport events are attributed to while a call rolls
\* back.
TransportInv ==
    /\ \A t \in Callers :
        /\ pc[t] \in {"redisable", "rollback", "rollbackClose"} => torCfg = want[t] /\ activePT = want[t]
        /\ pc[t] \in {"restored", "restoredClose"} => torCfg = old[t]
        /\ pc[t] \in {"stuck", "stuckClose"} => torCfg = want[t] \/ misled \/ ~control
    /\ TransportsKnown

\* Networking is disabled from the first command until the call succeeds, unless
\* a command was misreported, the channel is gone, or the driver is closing.
BlockedInv ==
    /\ \A t \in Callers :
        /\ pc[t] \in {"redact", "change", "activate", "enable"} => disabled
        /\ pc[t] \in {"rollback", "restored", "stuck"} => disabled \/ misled \/ ~control
        /\ pc[t] = "closed" => closing # "no"
    /\ NoDirectTrafficAfterFailure

IInv == TypeInv /\ RedactInv /\ AppliedInv /\ BlockedInv /\ TransportInv

-----------------------------------------------------------------------------
\* As Start returns, the invariant holds.
LEMMA InitIInv == Init => IInv
<1> SUFFICES ASSUME Init PROVE IInv
    OBVIOUS
<1>1. TypeInv
    BY BridgesAssumption, ZenonT(60) DEF Init, TypeInv, Labels
<1>2. RedactInv /\ AppliedInv /\ TransportInv
    BY DEF Init, RedactInv, AppliedInv, RedactedWhileHeld, TransportInv, TransportsKnown
<1>3. BlockedInv
    BY DEF Init, BlockedInv, NoDirectTrafficAfterFailure
<1> QED
    BY <1>1, <1>2, <1>3 DEF IInv

\* Every step keeps the types, and only the holder of configMu is in a call.
LEMMA TypeKept == TypeInv /\ [Next]_vars => TypeInv'
<1> SUFFICES ASSUME TypeInv, [Next]_vars PROVE TypeInv'
    OBVIOUS
<1> USE BridgesAssumption DEF TypeInv, Labels, Goto, tor, view, channel, local
<1>1. ASSUME NEW t \in Callers, Disable(t) PROVE TypeInv'
  <2>1. control' \in BOOLEAN /\ misled' \in BOOLEAN
      BY <1>1, ZenonT(60) DEF Disable, Answered, Ineffective, Misreported
  <2>2. /\ torUp' \in BOOLEAN /\ disabled' \in BOOLEAN
        /\ listen' \in Nat /\ torCfg' \in Configs /\ given' \subseteq Configs
      BY <1>1, ZenonT(60) DEF Disable, SetDisabled, Answered, Ineffective, Misreported
  <2>3. /\ UNCHANGED <<cfg, activePT, socks, closing, want, old>>
        /\ redacted' \subseteq Configs
      BY <1>1 DEF Disable
  <2>4. /\ mu' \in Callers \cup {Nobody}
        /\ pc' \in [Callers -> Labels]
        /\ last' \in [failed : {"no", "disable", "change", "enable", "closed"}, from : Configs, to : Configs]
        /\ \A u \in Callers : pc'[u] # "idle" <=> mu' = u
    <3>1. \/ Goto(t, "redact") /\ UNCHANGED <<mu, last>>
          \/ Goto(t, "close") /\ UNCHANGED <<mu, last>>
          \/ Return(t, "disable")
        BY <1>1, ZenonT(60) DEF Disable
    <3>2. mu = t
        BY <1>1 DEF Disable
    <3> QED
        BY <3>1, <3>2 DEF Return
  <2> QED
      BY <2>1, <2>2, <2>3, <2>4
<1>2. ASSUME NEW t \in Callers, Change(t) PROVE TypeInv'
  <2>1. control' \in BOOLEAN /\ misled' \in BOOLEAN
      BY <1>2, ZenonT(60) DEF Change, Answered, Ineffective, Misreported
  <2>2. /\ torUp' \in BOOLEAN /\ disabled' \in BOOLEAN
        /\ listen' \in Nat /\ torCfg' \in Configs /\ given' \subseteq Configs
      BY <1>2 DEF Change, SetConf, Answered, Ineffective, Misreported
  <2>3. /\ UNCHANGED <<cfg, activePT, socks, closing, want, old>>
        /\ redacted' \subseteq Configs
      BY <1>2 DEF Change
  <2>4. /\ mu' \in Callers \cup {Nobody}
        /\ pc' \in [Callers -> Labels]
        /\ last' \in [failed : {"no", "disable", "change", "enable", "closed"}, from : Configs, to : Configs]
        /\ \A u \in Callers : pc'[u] # "idle" <=> mu' = u
      BY <1>2 DEF Change, Return
  <2> QED
      BY <2>1, <2>2, <2>3, <2>4
<1>3. ASSUME NEW t \in Callers, Activate(t) PROVE TypeInv'
    BY <1>3 DEF Activate, Activated
<1>4. ASSUME NEW t \in Callers, Enable(t) PROVE TypeInv'
  <2>1. control' \in BOOLEAN /\ misled' \in BOOLEAN
      BY <1>4, ZenonT(60) DEF Enable, Answered, Ineffective, Misreported
  <2>2. /\ torUp' \in BOOLEAN /\ disabled' \in BOOLEAN
        /\ listen' \in Nat /\ torCfg' \in Configs /\ given' \subseteq Configs
    <3>1. SetDisabled(FALSE) \/ UNCHANGED tor
        BY <1>4, ZenonT(60) DEF Enable, Ineffective
    <3>2. listen' \in Nat
        BY <3>1 DEF SetDisabled
    <3>3. torUp' \in BOOLEAN /\ disabled' \in BOOLEAN /\ torCfg' \in Configs /\ given' \subseteq Configs
        BY <3>1, ZenonT(60) DEF SetDisabled
    <3> QED
        BY <3>2, <3>3
  <2>3. /\ UNCHANGED <<cfg, activePT, socks, closing, want, old>>
        /\ redacted' \subseteq Configs
      BY <1>4 DEF Enable
  <2>4. /\ mu' \in Callers \cup {Nobody}
        /\ pc' \in [Callers -> Labels]
        /\ last' \in [failed : {"no", "disable", "change", "enable", "closed"}, from : Configs, to : Configs]
        /\ \A u \in Callers : pc'[u] # "idle" <=> mu' = u
      BY <1>4, ZenonT(60) DEF Enable, Return
  <2> QED
      BY <2>1, <2>2, <2>3, <2>4
<1>5. ASSUME NEW t \in Callers, Query(t) PROVE TypeInv'
    BY <1>5, ZenonT(60) DEF Query, Refused, Answered, Ineffective, Endpoint
<1>6. ASSUME NEW t \in Callers, Commit(t) PROVE TypeInv'
    BY <1>6 DEF Commit, Return
<1>7. ASSUME NEW t \in Callers, Redisable(t) PROVE TypeInv'
    BY <1>7, ZenonT(60) DEF Redisable, SetDisabled, Answered, Ineffective, Misreported
<1>8. ASSUME NEW t \in Callers, Rollback(t) PROVE TypeInv'
  <2>1. control' \in BOOLEAN /\ misled' \in BOOLEAN
      BY <1>8, ZenonT(60) DEF Rollback, Answered, Ineffective, Misreported
  <2>2. /\ torUp' \in BOOLEAN /\ disabled' \in BOOLEAN
        /\ listen' \in Nat /\ torCfg' \in Configs /\ given' \subseteq Configs
      BY <1>8 DEF Rollback, SetConf, Answered, Ineffective, Misreported
  <2>3. /\ UNCHANGED <<cfg, activePT, socks, closing, want, old>>
        /\ redacted' \subseteq Configs
      BY <1>8 DEF Rollback
  <2>4. /\ mu' \in Callers \cup {Nobody}
        /\ pc' \in [Callers -> Labels]
        /\ last' \in [failed : {"no", "disable", "change", "enable", "closed"}, from : Configs, to : Configs]
        /\ \A u \in Callers : pc'[u] # "idle" <=> mu' = u
      BY <1>8 DEF Rollback, Return
  <2> QED
      BY <2>1, <2>2, <2>3, <2>4
<1>9. ASSUME NEW t \in Callers, RolledBack(t) PROVE TypeInv'
    BY <1>9 DEF RolledBack, Return
<1>10. ASSUME NEW t \in Callers, CloseCall(t) PROVE TypeInv'
    BY <1>10 DEF CloseCall
<1>11. ASSUME NEW t \in Callers, CloseReturn(t) PROVE TypeInv'
    BY <1>11 DEF CloseReturn, Return
<1>12. ASSUME NEW t \in Callers, NEW c \in Configs, SetBridges(t, c) PROVE TypeInv'
    BY <1>12 DEF SetBridges, LockFree
<1>13. CASE CloseBegin
    BY <1>13 DEF CloseBegin
<1>14. CASE CloseEnd
    BY <1>14, ZenonT(60) DEF CloseEnd
<1>15. CASE TorExit
    BY <1>15, ZenonT(60) DEF TorExit
<1>16. CASE UNCHANGED vars
    BY <1>16 DEF vars
<1>17. ASSUME NEW t \in Callers, AddSecrets(t) PROVE TypeInv'
    BY <1>17 DEF AddSecrets, Redact
<1> HIDE DEF TypeInv, Labels, Goto, tor, view, channel, local
<1> QED
    BY <1>1, <1>2, <1>3, <1>4, <1>5, <1>6, <1>7, <1>8, <1>9, <1>10, <1>11, <1>12, <1>13,
       <1>14, <1>15, <1>16, <1>17 DEF Next, Step

\* Redaction comes before the configuration and is never taken back.
LEMMA RedactKept == TypeInv /\ RedactInv /\ [Next]_vars => RedactInv'
<1> SUFFICES ASSUME TypeInv, RedactInv, [Next]_vars PROVE RedactInv'
    OBVIOUS
<1> USE BridgesAssumption DEF TypeInv, RedactInv, RedactedWhileHeld, Goto, tor, view, channel, local
<1>1. ASSUME NEW t \in Callers, Disable(t) PROVE RedactInv'
    BY <1>1 DEF Disable, SetDisabled, Refused, Answered, Ineffective, Misreported, MustClose, Return
<1>2. ASSUME NEW t \in Callers, Change(t) PROVE RedactInv'
    BY <1>2 DEF Change, SetConf, Refused, Answered, Ineffective, Misreported, Return
<1>3. ASSUME NEW t \in Callers, Activate(t) PROVE RedactInv'
    BY <1>3 DEF Activate, Activated
<1>4. ASSUME NEW t \in Callers, Enable(t) PROVE RedactInv'
    BY <1>4 DEF Enable, SetDisabled, Refused, Answered, Ineffective, Misreported
<1>5. ASSUME NEW t \in Callers, Query(t) PROVE RedactInv'
    BY <1>5 DEF Query, Refused, Answered, Ineffective, Endpoint
<1>6. ASSUME NEW t \in Callers, Commit(t) PROVE RedactInv'
    BY <1>6 DEF Commit, Return
<1>7. ASSUME NEW t \in Callers, Redisable(t) PROVE RedactInv'
    BY <1>7 DEF Redisable, SetDisabled, Answered, Ineffective, Misreported
<1>8. ASSUME NEW t \in Callers, Rollback(t) PROVE RedactInv'
    BY <1>8 DEF Rollback, SetConf, Answered, Ineffective, Misreported
<1>9. ASSUME NEW t \in Callers, RolledBack(t) PROVE RedactInv'
    BY <1>9 DEF RolledBack, Return
<1>10. ASSUME NEW t \in Callers, CloseCall(t) PROVE RedactInv'
    BY <1>10 DEF CloseCall
<1>11. ASSUME NEW t \in Callers, CloseReturn(t) PROVE RedactInv'
    BY <1>11 DEF CloseReturn, Return
<1>12. ASSUME NEW t \in Callers, NEW c \in Configs, SetBridges(t, c) PROVE RedactInv'
    BY <1>12 DEF SetBridges, LockFree
<1>13. CASE CloseBegin
    BY <1>13 DEF CloseBegin
<1>14. CASE CloseEnd
    BY <1>14 DEF CloseEnd
<1>15. CASE TorExit
    BY <1>15 DEF TorExit
<1>16. CASE UNCHANGED vars
    BY <1>16 DEF vars
<1>17. ASSUME NEW t \in Callers, AddSecrets(t) PROVE RedactInv'
    BY <1>17 DEF AddSecrets, Redact
<1> HIDE DEF TypeInv, RedactInv, RedactedWhileHeld, Goto, tor, view, channel, local
<1> QED
    BY <1>1, <1>2, <1>3, <1>4, <1>5, <1>6, <1>7, <1>8, <1>9, <1>10, <1>11, <1>12, <1>13,
       <1>14, <1>15, <1>16, <1>17 DEF Next, Step

\* Every position keeps what the call has achieved.
LEMMA AppliedKept == TypeInv /\ AppliedInv /\ [Next]_vars => AppliedInv'
<1> SUFFICES ASSUME TypeInv, AppliedInv, [Next]_vars PROVE AppliedInv'
    OBVIOUS
<1> USE BridgesAssumption DEF TypeInv, AppliedInv, Goto, tor, view, channel, local
<1>1. ASSUME NEW t \in Callers, Disable(t) PROVE AppliedInv'
    BY <1>1 DEF Disable, SetDisabled, Refused, Answered, Ineffective, Misreported, MustClose, Return
<1>2. ASSUME NEW t \in Callers, Change(t) PROVE AppliedInv'
    BY <1>2 DEF Change, SetConf, Refused, Answered, Ineffective, Misreported, Return
<1>3. ASSUME NEW t \in Callers, Activate(t) PROVE AppliedInv'
    BY <1>3 DEF Activate, Activated
<1>4. ASSUME NEW t \in Callers, Enable(t) PROVE AppliedInv'
    BY <1>4 DEF Enable, SetDisabled, Refused, Answered, Ineffective, Misreported
<1>5. ASSUME NEW t \in Callers, Query(t) PROVE AppliedInv'
    BY <1>5 DEF Query, Refused, Answered, Ineffective, Endpoint
<1>6. ASSUME NEW t \in Callers, Commit(t) PROVE AppliedInv'
    BY <1>6 DEF Commit, Return
<1>7. ASSUME NEW t \in Callers, Redisable(t) PROVE AppliedInv'
    BY <1>7 DEF Redisable, SetDisabled, Answered, Ineffective, Misreported
<1>8. ASSUME NEW t \in Callers, Rollback(t) PROVE AppliedInv'
    BY <1>8 DEF Rollback, SetConf, Answered, Ineffective, Misreported
<1>9. ASSUME NEW t \in Callers, RolledBack(t) PROVE AppliedInv'
    BY <1>9 DEF RolledBack, Return
<1>10. ASSUME NEW t \in Callers, CloseCall(t) PROVE AppliedInv'
    BY <1>10 DEF CloseCall
<1>11. ASSUME NEW t \in Callers, CloseReturn(t) PROVE AppliedInv'
    BY <1>11 DEF CloseReturn, Return
<1>12. ASSUME NEW t \in Callers, NEW c \in Configs, SetBridges(t, c) PROVE AppliedInv'
    BY <1>12 DEF SetBridges, LockFree
<1>13. CASE CloseBegin
    BY <1>13 DEF CloseBegin
<1>14. CASE CloseEnd
    BY <1>14 DEF CloseEnd
<1>15. CASE TorExit
    BY <1>15 DEF TorExit
<1>16. CASE UNCHANGED vars
    BY <1>16 DEF vars
<1>17. ASSUME NEW t \in Callers, AddSecrets(t) PROVE AppliedInv'
    BY <1>17 DEF AddSecrets, Redact
<1> HIDE DEF TypeInv, AppliedInv, Goto, tor, view, channel, local
<1> QED
    BY <1>1, <1>2, <1>3, <1>4, <1>5, <1>6, <1>7, <1>8, <1>9, <1>10, <1>11, <1>12, <1>13,
       <1>14, <1>15, <1>16, <1>17 DEF Next, Step

\* No position of a failing call enables networking unseen.
LEMMA BlockedKept == TypeInv /\ AppliedInv /\ BlockedInv /\ [Next]_vars => BlockedInv'
<1> SUFFICES ASSUME TypeInv, AppliedInv, BlockedInv, [Next]_vars PROVE BlockedInv'
    OBVIOUS
<1> USE BridgesAssumption DEF TypeInv, AppliedInv, BlockedInv, NoDirectTrafficAfterFailure, Alive, Goto, tor, view, channel, local
<1>1. ASSUME NEW t \in Callers, Disable(t) PROVE BlockedInv'
    BY <1>1 DEF Disable, SetDisabled, Refused, Answered, Ineffective, Misreported, MustClose, Return
<1>2. ASSUME NEW t \in Callers, Change(t) PROVE BlockedInv'
    BY <1>2 DEF Change, SetConf, Refused, Answered, Ineffective, Misreported, Return
<1>3. ASSUME NEW t \in Callers, Activate(t) PROVE BlockedInv'
    BY <1>3 DEF Activate, Activated
<1>4. ASSUME NEW t \in Callers, Enable(t) PROVE BlockedInv'
    BY <1>4 DEF Enable, SetDisabled, Refused, Answered, Ineffective, Misreported
<1>5. ASSUME NEW t \in Callers, Query(t) PROVE BlockedInv'
    BY <1>5 DEF Query, Refused, Answered, Ineffective, Endpoint
<1>6. ASSUME NEW t \in Callers, Commit(t) PROVE BlockedInv'
    BY <1>6 DEF Commit, Return
<1>7. ASSUME NEW t \in Callers, Redisable(t) PROVE BlockedInv'
    BY <1>7 DEF Redisable, SetDisabled, Answered, Ineffective, Misreported
<1>8. ASSUME NEW t \in Callers, Rollback(t) PROVE BlockedInv'
    BY <1>8 DEF Rollback, SetConf, Answered, Ineffective, Misreported
<1>9. ASSUME NEW t \in Callers, RolledBack(t) PROVE BlockedInv'
    BY <1>9 DEF RolledBack, Return
<1>10. ASSUME NEW t \in Callers, CloseCall(t) PROVE BlockedInv'
    BY <1>10 DEF CloseCall
<1>11. ASSUME NEW t \in Callers, CloseReturn(t) PROVE BlockedInv'
    BY <1>11 DEF CloseReturn, Return
<1>12. ASSUME NEW t \in Callers, NEW c \in Configs, SetBridges(t, c) PROVE BlockedInv'
    BY <1>12 DEF SetBridges, LockFree
<1>13. CASE CloseBegin
    BY <1>13 DEF CloseBegin
<1>14. CASE CloseEnd
    BY <1>14 DEF CloseEnd
<1>15. CASE TorExit
    BY <1>15 DEF TorExit
<1>16. CASE UNCHANGED vars
    BY <1>16 DEF vars
<1>17. ASSUME NEW t \in Callers, AddSecrets(t) PROVE BlockedInv'
    BY <1>17 DEF AddSecrets, Redact
<1> HIDE DEF TypeInv, AppliedInv, BlockedInv, NoDirectTrafficAfterFailure, Alive, Goto, tor, view, channel, local
<1> QED
    BY <1>1, <1>2, <1>3, <1>4, <1>5, <1>6, <1>7, <1>8, <1>9, <1>10, <1>11, <1>12, <1>13,
       <1>14, <1>15, <1>16, <1>17 DEF Next, Step

\* Rolling back ends with the transports Tor runs, in every way it can end.
LEMMA TransportKept == TypeInv /\ AppliedInv /\ BlockedInv /\ TransportInv /\ [Next]_vars => TransportInv'
<1> SUFFICES ASSUME TypeInv, AppliedInv, BlockedInv, TransportInv, [Next]_vars PROVE TransportInv'
    OBVIOUS
<1> USE BridgesAssumption DEF TypeInv, AppliedInv, BlockedInv, TransportInv,
    TransportsKnown, Alive, Goto, tor, view, channel, local
<1>1. ASSUME NEW t \in Callers, Disable(t) PROVE TransportInv'
    BY <1>1 DEF Disable, SetDisabled, Refused, Answered, Ineffective, Misreported, MustClose, Return
<1>2. ASSUME NEW t \in Callers, Change(t) PROVE TransportInv'
    BY <1>2 DEF Change, SetConf, Refused, Answered, Ineffective, Misreported, Return
<1>3. ASSUME NEW t \in Callers, Activate(t) PROVE TransportInv'
    BY <1>3 DEF Activate, Activated
<1>4. ASSUME NEW t \in Callers, Enable(t) PROVE TransportInv'
    BY <1>4 DEF Enable, SetDisabled, Refused, Answered, Ineffective, Misreported
<1>5. ASSUME NEW t \in Callers, Query(t) PROVE TransportInv'
    BY <1>5 DEF Query, Refused, Answered, Ineffective, Endpoint
<1>6. ASSUME NEW t \in Callers, Commit(t) PROVE TransportInv'
    BY <1>6 DEF Commit, Return
<1>7. ASSUME NEW t \in Callers, Redisable(t) PROVE TransportInv'
    BY <1>7 DEF Redisable, SetDisabled, Answered, Ineffective, Misreported
<1>8. ASSUME NEW t \in Callers, Rollback(t) PROVE TransportInv'
    BY <1>8 DEF Rollback, SetConf, Answered, Ineffective, Misreported
<1>9. ASSUME NEW t \in Callers, RolledBack(t) PROVE TransportInv'
    BY <1>9 DEF RolledBack, Return
<1>10. ASSUME NEW t \in Callers, CloseCall(t) PROVE TransportInv'
    BY <1>10 DEF CloseCall
<1>11. ASSUME NEW t \in Callers, CloseReturn(t) PROVE TransportInv'
    BY <1>11 DEF CloseReturn, Return
<1>12. ASSUME NEW t \in Callers, NEW c \in Configs, SetBridges(t, c) PROVE TransportInv'
    BY <1>12 DEF SetBridges, LockFree
<1>13. CASE CloseBegin
    BY <1>13 DEF CloseBegin
<1>14. CASE CloseEnd
    BY <1>14 DEF CloseEnd
<1>15. CASE TorExit
    BY <1>15 DEF TorExit
<1>16. CASE UNCHANGED vars
    BY <1>16 DEF vars
<1>17. ASSUME NEW t \in Callers, AddSecrets(t) PROVE TransportInv'
    BY <1>17 DEF AddSecrets, Redact
<1> HIDE DEF TypeInv, AppliedInv, BlockedInv, TransportInv,
    TransportsKnown, Alive, Goto, tor, view, channel, local
<1> QED
    BY <1>1, <1>2, <1>3, <1>4, <1>5, <1>6, <1>7, <1>8, <1>9, <1>10, <1>11, <1>12, <1>13,
       <1>14, <1>15, <1>16, <1>17 DEF Next, Step
-----------------------------------------------------------------------------
\* Every step keeps the invariant.
LEMMA StepKeeps == IInv /\ [Next]_vars => IInv'
    BY TypeKept, RedactKept, AppliedKept, BlockedKept, TransportKept DEF IInv

\* The inductive invariant holds.
LEMMA Invariance == Spec => []IInv
    BY InitIInv, StepKeeps, PTL DEF Spec

\* "Keep every configuration redacted for the process lifetime" (driver.go:472):
\* a bridge configuration Tor has ever held is one whose secrets its log lines,
\* however late, cannot show.
THEOREM HeldIsRedacted == Spec => []RedactedWhileHeld
<1>1. IInv => RedactedWhileHeld
    BY DEF IInv, RedactInv
<1> QED
    BY <1>1, Invariance, PTL

\* When SetBridges reports success, Tor runs what the driver says it runs, with
\* networking enabled, whatever failed before (driver.go:451); and while networking
\* is enabled, transport events are attributed to the transports Tor runs, unless a
\* command was misreported or the driver is about to be closed (driver.go:478).
THEOREM SuccessIsReal == Spec => []DriverKnowsTor
<1>1. IInv => DriverKnowsTor
    BY DEF IInv, AppliedInv, TransportInv, SuccessIsApplied, DriverKnowsTor
<1> QED
    BY <1>1, Invariance, PTL

\* A failed change from guards to bridges leaves no direct traffic, if no command
\* was executed and yet reported as failed over an open channel (driver.go:464).
THEOREM FailureIsClosed == Spec => []NoDirectTrafficAfterFailure
<1>1. IInv => NoDirectTrafficAfterFailure
    BY DEF IInv, BlockedInv
<1> QED
    BY <1>1, Invariance, PTL

-----------------------------------------------------------------------------
(* Lifecycle.                                                               *)

\* The positions of Driver.Close that lie behind a given one.
AfterFiles == {"box", "done"}
AfterProxy == AfterFiles \cup {"files"}
AfterWait == AfterProxy \cup {"proxy"}
AfterHangUp == AfterWait \cup {"grace", "kill", "forced"}
AfterResources == AfterHangUp \cup {"signal", "hangup"}
AfterGate == AfterResources \cup {"resources"}

\* The values of the variables the invariants branch on.
LifeType ==
    /\ start \in Stages \cup {"failing", "failed", "started"}
    /\ step \in AfterGate \cup {"new", "gate"}
    /\ box \in {"none", "held", "closed"} /\ work \in {"none", "present", "removed"}
    /\ proxy \in {"none", "up", "stopped", "closed"}
    /\ proc \in {"none", "running", "exited", "reaped"}
    /\ link \in {"none", "open", "dead"}
    /\ monitor \in {"off", "select", "cause", "publish", "close", "end"}

\* Driver.Close begins only when Start is over, and Start fails only after it.
OrderInv ==
    /\ closed <=> step # "new"
    /\ start \in Stages => ~closed /\ monitor = "off"
    /\ start = "failed" => step = "done"
    /\ start \in {"enable", "socks", "started"} => verified

\* What Driver.Close has given back at each position.
ReleaseInv ==
    /\ step \in AfterGate => gate = "closed"
    /\ step \in AfterResources => ~resources
    /\ step \in AfterHangUp => link # "open"
    /\ step \in AfterProxy => proxy \in {"none", "closed"}
    /\ step = "done" => box # "held"

\* What it has reported by then.
ReportInv ==
    /\ step \in AfterWait => (proc \in {"none", "reaped"} \/ closeErr # {})
    /\ step \in AfterFiles /\ work = "present" => closeErr # {}
    /\ work = "removed" => step \in AfterFiles /\ proc \in {"none", "reaped"}

\* SETCONF DisableNetwork=0 is sent only after GETCONF Socks5Proxy has named the
\* proxy's listener (driver.go:293-301).
NetworkVerified == network => verified

\* A part that is dead although nobody has called Close was lost.
LossInv ==
    /\ ~closed /\ (proc \in {"exited", "reaped"} \/ link = "dead" \/ proxy \in {"stopped", "closed"}) => lost
    /\ ~closed /\ monitor = "cause" => lost
    /\ err => lost

LifeInv == LifeType /\ OrderInv /\ ReleaseInv /\ ReportInv /\ LossInv /\ NetworkVerified

\* Every stage of Start, every step of Driver.Close and of the monitor, and every
\* death of a part keeps the invariant (driver.go:150-346, 348-374, 602-668).
LEMMA LifeInductive == LifeInv /\ [LifeNext]_lifeVars => LifeInv'
<1> SUFFICES ASSUME LifeInv, [LifeNext]_lifeVars PROVE LifeInv'
    OBVIOUS
<1> USE DEF LifeInv, LifeType, OrderInv, ReleaseInv, ReportInv, LossInv, NetworkVerified, Stages,
   AfterFiles, AfterProxy, AfterWait, AfterHangUp, AfterResources, AfterGate, held, torParts,
   closer, watch
<1>1. CASE Acquire
    BY <1>1 DEF Acquire, Stage
<1>2. CASE WorkDir
    BY <1>2 DEF WorkDir, Stage
<1>3. CASE AttachOutbound
    BY <1>3 DEF AttachOutbound, Stage
<1>4. CASE StartProxy
    BY <1>4 DEF StartProxy, Stage
<1>5. CASE StartProcess
    BY <1>5 DEF StartProcess, Stage
<1>6. CASE Connect
    BY <1>6 DEF Connect, Stage
<1>7. CASE Authenticate
    BY <1>7 DEF Authenticate, Stage
<1>8. CASE VerifyProxy
    BY <1>8 DEF VerifyProxy, Stage
<1>9. CASE EnableNetwork
    BY <1>9 DEF EnableNetwork, Stage
<1>10. CASE Started
    BY <1>10 DEF Started, Stage
<1>11. CASE StageFails
    BY <1>11 DEF StageFails, AfterFailure
<1>12. CASE FailedStartCloses
    BY <1>12 DEF FailedStartCloses, CallClose
<1>13. CASE FailedStartReturns
    BY <1>13 DEF FailedStartReturns
<1>14. CASE CloseGate
    BY <1>14 DEF CloseGate, CloseGoto, Records
<1>15. CASE CloseResources
    BY <1>15 DEF CloseResources, CloseGoto, Records
<1>16. CASE Signal
    BY <1>16 DEF Signal, CloseGoto, Records
<1>17. CASE HangUp
    BY <1>17 DEF HangUp, CloseGoto
<1>18. CASE Graceful
    BY <1>18 DEF Graceful, CloseGoto, Records
<1>19. CASE GraceTimeout
    BY <1>19 DEF GraceTimeout, CloseGoto
<1>20. CASE Kill
    BY <1>20 DEF Kill, CloseGoto
<1>21. CASE ForcedWait
    BY <1>21 DEF ForcedWait, CloseGoto
<1>22. CASE CloseProxy
    BY <1>22 DEF CloseProxy, CloseGoto, Records
<1>23. CASE RemoveFiles
    BY <1>23 DEF RemoveFiles, CloseGoto, Reaped, FilesError
<1>24. CASE CloseBox
    BY <1>24 DEF CloseBox, CloseGoto, Records
<1>25. CASE MonitorSelect
    BY <1>25 DEF MonitorSelect, PartDied
<1>26. CASE MonitorCause
  <2>1. err' <=> (err \/ ~closed)
      BY <1>26, ZenonT(60) DEF MonitorCause, Unexpected
  <2> QED
      BY <1>26, <2>1 DEF MonitorCause
<1>27. CASE MonitorPublish
    BY <1>27 DEF MonitorPublish
<1>28. CASE MonitorClose
    BY <1>28 DEF MonitorClose, CallClose
<1>29. CASE ProcessExits
  <2>1. lost' <=> (lost \/ ~closed)
      BY <1>29, ZenonT(60) DEF ProcessExits, Loses
  <2> QED
      BY <1>29, <2>1 DEF ProcessExits
<1>30. CASE Reap
    BY <1>30 DEF Reap
<1>31. CASE ControlLost
  <2>1. lost' <=> (lost \/ ~closed)
      BY <1>31, ZenonT(60) DEF ControlLost, Loses
  <2> QED
      BY <1>31, <2>1 DEF ControlLost
<1>32. CASE ProxyStops
  <2>1. lost' <=> (lost \/ ~closed)
      BY <1>32, ZenonT(60) DEF ProxyStops, Loses
  <2> QED
      BY <1>32, <2>1 DEF ProxyStops
<1>33. ASSUME NEW u \in Users, UserCloses(u) PROVE LifeInv'
    BY <1>33 DEF UserCloses, CallClose
<1>34. ASSUME NEW u \in Users, UserReturns(u) PROVE LifeInv'
    BY <1>34 DEF UserReturns
<1>35. CASE UNCHANGED lifeVars
    BY <1>35 DEF lifeVars
<1> HIDE DEF LifeInv, LifeType, OrderInv, ReleaseInv, ReportInv, LossInv, NetworkVerified, Stages,
   AfterFiles, AfterProxy, AfterWait, AfterHangUp, AfterResources, AfterGate, held, torParts,
   closer, watch
<1> QED
    BY <1>1, <1>2, <1>3, <1>4, <1>5, <1>6, <1>7, <1>8, <1>9, <1>10, <1>11, <1>12, <1>13, <1>14, <1>15,
       <1>16, <1>17, <1>18, <1>19, <1>20, <1>21, <1>22, <1>23, <1>24, <1>25, <1>26, <1>27, <1>28,
       <1>29, <1>30, <1>31, <1>32, <1>33, <1>34, <1>35
       DEF LifeNext, StartStep, CloseStep, MonitorStep, Environment, Finished

\* A driver that Start has not touched satisfies the invariant.
LEMMA LifeInitially == LifeInit => LifeInv
BY DEF LifeInit, LifeInv, LifeType, OrderInv, ReleaseInv, ReportInv, LossInv, NetworkVerified,
   Stages, AfterFiles,
       AfterProxy, AfterWait, AfterHangUp, AfterResources, AfterGate

\* The inductive invariant holds.
LEMMA LifeInvariant == LifeSpec => []LifeInv
BY LifeInitially, LifeInductive, PTL DEF LifeSpec

\* Driver.Close removes the working directory only when Tor is gone, and reports an
\* error whenever it leaves a directory or a process behind (driver.go:601, 651).
THEOREM Reported == LifeSpec => []LeftoversAreReported
<1>1. LifeInv => LeftoversAreReported
    BY DEF LifeInv, ReportInv, AfterFiles, AfterProxy, AfterWait, LeftoversAreReported
<1> QED
    BY LifeInvariant, <1>1, PTL

\* A Start that fails at any stage has given everything back when it returns: its
\* deferred Close has run to the end.
THEOREM StartReleases == LifeSpec => []FailedStartReleases
<1>1. LifeInv => FailedStartReleases
    BY DEF LifeInv, OrderInv, ReleaseInv, FailedStartReleases, AfterFiles,
       AfterProxy, AfterWait, AfterHangUp, AfterResources, AfterGate
<1> QED
    BY LifeInvariant, <1>1, PTL

\* Driver.Err is set only if a part died before anybody called Close, although
\* Close makes every part look dead to the monitor (driver.go:348).
THEOREM LossOnly == LifeSpec => []ErrMeansLoss
<1>1. LifeInv => ErrMeansLoss
    BY DEF LifeInv, LossInv, ErrMeansLoss
<1> QED
    BY LifeInvariant, <1>1, PTL

\* Tor's networking is enabled only after Tor has confirmed the mandatory proxy
\* (driver.go:293-301), also when the enabling command failed half-way.
THEOREM VerifiedFirst == LifeSpec => []NetworkVerified
<1>1. LifeInv => NetworkVerified
    BY DEF LifeInv
<1> QED
    BY LifeInvariant, <1>1, PTL
=============================================================================
