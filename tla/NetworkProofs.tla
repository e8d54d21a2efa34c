--------------------------- MODULE NetworkProofs ---------------------------
(***************************************************************************)
(* Proofs about Network.tla for any number of dials and lookups.           *)
(***************************************************************************)
EXTENDS Network, TLAPS

\* Time for the provers on a slow machine.
USE SMTT(90), ZenonT(60)

Labels == {"idle", "register", "call", "judge", "drop", "end", "stop", "release", "finish", "done"}

\* The values of the variables.
TypeInv ==
    /\ driver \in {"open", "closed", "waiting", "done"}
    /\ reg \in {"none", "in", "app", "driver"}
    /\ net \in {"none", "open", "closing", "done"}
    /\ pc \in [Ops -> Labels]
    /\ ctx \in [Ops -> {"live", "expired", "cancelled", "over"}]
    /\ oper \in [Ops -> {"none", "live", "closed"}]
    /\ dialer \in [Ops -> {"off", "dial", "track", "enlist", "refuse", "back"}]
    /\ conn \in [Ops -> {"none", "raw", "open", "closed"}]
    /\ ended \in [Ops -> BOOLEAN]
    /\ listed \in [Ops -> BOOLEAN]
    /\ hook \in [Ops -> {"none", "armed", "fired", "stopped", "ran"}]
    /\ ok \in [Ops -> BOOLEAN]

\* A call and its Dialer: the Dialer starts inside the call of the SOCKS client
\* and may outlive it, but not a success; what it does after the end is refused.
DialerInv ==
    \A o \in Ops :
        /\ pc[o] \in {"idle", "register"} => dialer[o] = "off"
        /\ pc[o] \in {"stop", "release", "finish", "done"} => ended[o] \/ dialer[o] = "off"
        /\ pc[o] = "judge" \/ ok[o] => dialer[o] = "back"
        /\ hook[o] # "none" => dialer[o] = "back"

\* A context and its AfterFunc: nothing is armed when the call lets its context
\* end, so an AfterFunc runs only because the context ended before.
HookInv ==
    \A o \in Ops :
        /\ hook[o] = "armed" => ctx[o] = "live"
        /\ pc[o] \in {"release", "finish", "done"} => hook[o] # "armed"
        /\ hook[o] = "fired" => ctx[o] \in {"expired", "cancelled"}
        /\ ctx[o] = "over" => pc[o] = "done"

\* The network and its scope: a registered network is open, and Driver.Close takes
\* one out only while it waits for it; only the closing scope cancels a context,
\* and a closed one owns nothing.
ScopeInv ==
    /\ net = "none" <=> reg = "none"
    /\ reg = "in" => net = "open"
    /\ reg = "driver" => driver \in {"waiting", "done"}
    /\ driver = "waiting" => net # "none"
    /\ driver = "done" => net \in {"none", "done"} \/ reg = "app"
    /\ \A o \in Ops :
        /\ pc[o] # "idle" => net # "none"
        /\ ctx[o] = "cancelled" => net \in {"closing", "done"}
        /\ net = "done" => conn[o] # "open" /\ oper[o] # "live"

IInv == TypeInv /\ DialerInv /\ HookInv /\ ScopeInv

-----------------------------------------------------------------------------
\* The initial state satisfies the invariant.
LEMMA InitIInv == Init => IInv
    BY DEF Init, IInv, TypeInv, Labels, DialerInv, HookInv, ScopeInv

\* Every step keeps the types.
LEMMA TypeKept == TypeInv /\ [Next]_vars => TypeInv'
<1> SUFFICES ASSUME TypeInv, [Next]_vars PROVE TypeInv'
    OBVIOUS
<1> USE NetworkAssumption DEF TypeInv, Labels, Goto, DialerAt, call, operation
<1>1. CASE NewNetwork
    BY <1>1 DEF NewNetwork, Creates
<1>2. CASE NetClose
    BY <1>2 DEF NetClose, Unregister
<1>3. CASE DriverClose
    BY <1>3 DEF DriverClose
<1>4. CASE DriverSweep
    BY <1>4 DEF DriverSweep, Unregister
<1>5. CASE DriverDone
    BY <1>5 DEF DriverDone
<1>6. CASE SweepEnd
    BY <1>6 DEF SweepEnd
<1>7. ASSUME NEW o \in Ops, SweepOperation(o) PROVE TypeInv'
    BY <1>7 DEF SweepOperation, EndCtx
<1>8. ASSUME NEW o \in Ops, SweepConn(o) PROVE TypeInv'
    BY <1>8 DEF SweepConn, CloseConn, Set
<1>9. ASSUME NEW o \in Ops, Begin(o) PROVE TypeInv'
    BY <1>9 DEF Begin
<1>10. ASSUME NEW o \in Ops, Register(o) PROVE TypeInv'
    BY <1>10 DEF Register
<1>11. ASSUME NEW o \in Ops, JudgeDial(o) PROVE TypeInv'
    BY <1>11, ZenonT(60) DEF JudgeDial
<1>12. ASSUME NEW o \in Ops, JudgeLookup(o) PROVE TypeInv'
    BY <1>12 DEF JudgeLookup
<1>13. ASSUME NEW o \in Ops, Drop(o) PROVE TypeInv'
    BY <1>13 DEF Drop, CloseConn, Set
<1>14. ASSUME NEW o \in Ops, End(o) PROVE TypeInv'
    BY <1>14 DEF End
<1>15. ASSUME NEW o \in Ops, Stop(o) PROVE TypeInv'
    BY <1>15 DEF Stop, Stopped
<1>16. ASSUME NEW o \in Ops, Release(o) PROVE TypeInv'
    BY <1>16 DEF Release, CloseConn, Set
<1>17. ASSUME NEW o \in Ops, Finish(o) PROVE TypeInv'
    BY <1>17 DEF Finish, EndCtx
<1>18. ASSUME NEW o \in Ops, ClientFails(o) PROVE TypeInv'
    BY <1>18 DEF ClientFails
<1>19. ASSUME NEW o \in Ops, ClientSucceeds(o) PROVE TypeInv'
    BY <1>19 DEF ClientSucceeds
<1>20. ASSUME NEW o \in Ops, Expire(o) PROVE TypeInv'
    BY <1>20 DEF Expire, EndCtx
<1>21. ASSUME NEW o \in Ops, AppClose(o) PROVE TypeInv'
    BY <1>21 DEF AppClose, CloseConn, Set
<1>22. ASSUME NEW o \in Ops, DialerStart(o) PROVE TypeInv'
    BY <1>22 DEF DialerStart
<1>23. ASSUME NEW o \in Ops, DialReturns(o) PROVE TypeInv'
    BY <1>23 DEF DialReturns, Set
<1>24. ASSUME NEW o \in Ops, Track(o) PROVE TypeInv'
    BY <1>24 DEF Track, Set, Tracked
<1>25. ASSUME NEW o \in Ops, Enlist(o) PROVE TypeInv'
    BY <1>25, ZenonT(60) DEF Enlist, Takes, Armed
<1>26. ASSUME NEW o \in Ops, Refuse(o) PROVE TypeInv'
    BY <1>26 DEF Refuse, CloseConn, Set
<1>27. ASSUME NEW o \in Ops, HookRun(o) PROVE TypeInv'
    BY <1>27 DEF HookRun, CloseConn, Set
<1>28. CASE ScopeClose
    BY <1>28 DEF ScopeClose
<1>29. CASE DriverSnapshot
    BY <1>29 DEF DriverSnapshot
<1>30. CASE UNCHANGED vars
    BY <1>30 DEF vars
<1> HIDE DEF TypeInv, Labels, Goto, DialerAt, call, operation
<1> QED
    BY <1>1, <1>2, <1>3, <1>4, <1>5, <1>6, <1>7, <1>8, <1>9, <1>10, <1>11, <1>12, <1>13,
       <1>14, <1>15, <1>16, <1>17, <1>18, <1>19, <1>20, <1>21, <1>22, <1>23, <1>24, <1>25,
       <1>26, <1>27, <1>28, <1>29, <1>30 DEF Next, Sweep, CallStep, ClientReturns, DialerStep, Finished

\* A call ends its operation before it goes on without its Dialer.
LEMMA DialerKept == TypeInv /\ DialerInv /\ [Next]_vars => DialerInv'
<1> SUFFICES ASSUME TypeInv, DialerInv, [Next]_vars PROVE DialerInv'
    OBVIOUS
<1> USE NetworkAssumption DEF TypeInv, DialerInv, Goto, DialerAt, call, operation
<1>1. CASE NewNetwork
    BY <1>1 DEF NewNetwork, Creates
<1>2. CASE NetClose
    BY <1>2 DEF NetClose, Unregister
<1>3. CASE DriverClose
    BY <1>3 DEF DriverClose
<1>4. CASE DriverSweep
    BY <1>4 DEF DriverSweep, Unregister
<1>5. CASE DriverDone
    BY <1>5 DEF DriverDone
<1>6. CASE SweepEnd
    BY <1>6 DEF SweepEnd
<1>7. ASSUME NEW o \in Ops, SweepOperation(o) PROVE DialerInv'
    BY <1>7 DEF SweepOperation, EndCtx
<1>8. ASSUME NEW o \in Ops, SweepConn(o) PROVE DialerInv'
    BY <1>8 DEF SweepConn, CloseConn, Set
<1>9. ASSUME NEW o \in Ops, Begin(o) PROVE DialerInv'
    BY <1>9 DEF Begin
<1>10. ASSUME NEW o \in Ops, Register(o) PROVE DialerInv'
    BY <1>10 DEF Register
<1>11. ASSUME NEW o \in Ops, JudgeDial(o) PROVE DialerInv'
    BY <1>11 DEF JudgeDial
<1>12. ASSUME NEW o \in Ops, JudgeLookup(o) PROVE DialerInv'
    BY <1>12 DEF JudgeLookup
<1>13. ASSUME NEW o \in Ops, Drop(o) PROVE DialerInv'
    BY <1>13 DEF Drop, CloseConn, Set
<1>14. ASSUME NEW o \in Ops, End(o) PROVE DialerInv'
    BY <1>14 DEF End
<1>15. ASSUME NEW o \in Ops, Stop(o) PROVE DialerInv'
    BY <1>15 DEF Stop, Stopped
<1>16. ASSUME NEW o \in Ops, Release(o) PROVE DialerInv'
    BY <1>16 DEF Release, CloseConn, Set
<1>17. ASSUME NEW o \in Ops, Finish(o) PROVE DialerInv'
    BY <1>17 DEF Finish, EndCtx
<1>18. ASSUME NEW o \in Ops, ClientFails(o) PROVE DialerInv'
    BY <1>18 DEF ClientFails
<1>19. ASSUME NEW o \in Ops, ClientSucceeds(o) PROVE DialerInv'
    BY <1>19 DEF ClientSucceeds
<1>20. ASSUME NEW o \in Ops, Expire(o) PROVE DialerInv'
    BY <1>20 DEF Expire, EndCtx
<1>21. ASSUME NEW o \in Ops, AppClose(o) PROVE DialerInv'
    BY <1>21 DEF AppClose, CloseConn, Set
<1>22. ASSUME NEW o \in Ops, DialerStart(o) PROVE DialerInv'
    BY <1>22 DEF DialerStart
<1>23. ASSUME NEW o \in Ops, DialReturns(o) PROVE DialerInv'
    BY <1>23 DEF DialReturns, Set
<1>24. ASSUME NEW o \in Ops, Track(o) PROVE DialerInv'
    BY <1>24 DEF Track, Set, Tracked
<1>25. ASSUME NEW o \in Ops, Enlist(o) PROVE DialerInv'
    BY <1>25 DEF Enlist, Takes, Armed
<1>26. ASSUME NEW o \in Ops, Refuse(o) PROVE DialerInv'
    BY <1>26 DEF Refuse, CloseConn, Set
<1>27. ASSUME NEW o \in Ops, HookRun(o) PROVE DialerInv'
    BY <1>27 DEF HookRun, CloseConn, Set
<1>28. CASE ScopeClose
    BY <1>28 DEF ScopeClose
<1>29. CASE DriverSnapshot
    BY <1>29 DEF DriverSnapshot
<1>30. CASE UNCHANGED vars
    BY <1>30 DEF vars
<1> HIDE DEF TypeInv, DialerInv, Goto, DialerAt, call, operation
<1> QED
    BY <1>1, <1>2, <1>3, <1>4, <1>5, <1>6, <1>7, <1>8, <1>9, <1>10, <1>11, <1>12, <1>13,
       <1>14, <1>15, <1>16, <1>17, <1>18, <1>19, <1>20, <1>21, <1>22, <1>23, <1>24, <1>25,
       <1>26, <1>27, <1>28, <1>29, <1>30 DEF Next, Sweep, CallStep, ClientReturns, DialerStep, Finished

\* A call disarms its AfterFunc before it finishes its context.
LEMMA HookKept == TypeInv /\ DialerInv /\ HookInv /\ [Next]_vars => HookInv'
<1> SUFFICES ASSUME TypeInv, DialerInv, HookInv, [Next]_vars PROVE HookInv'
    OBVIOUS
<1> USE NetworkAssumption DEF TypeInv, DialerInv, HookInv, Goto, DialerAt, call, operation
<1>1. CASE NewNetwork
    BY <1>1 DEF NewNetwork, Creates
<1>2. CASE NetClose
    BY <1>2 DEF NetClose, Unregister
<1>3. CASE DriverClose
    BY <1>3 DEF DriverClose
<1>4. CASE DriverSweep
    BY <1>4 DEF DriverSweep, Unregister
<1>5. CASE DriverDone
    BY <1>5 DEF DriverDone
<1>6. CASE SweepEnd
    BY <1>6 DEF SweepEnd
<1>7. ASSUME NEW o \in Ops, SweepOperation(o) PROVE HookInv'
    BY <1>7 DEF SweepOperation, EndCtx
<1>8. ASSUME NEW o \in Ops, SweepConn(o) PROVE HookInv'
    BY <1>8 DEF SweepConn, CloseConn, Set
<1>9. ASSUME NEW o \in Ops, Begin(o) PROVE HookInv'
    BY <1>9 DEF Begin
<1>10. ASSUME NEW o \in Ops, Register(o) PROVE HookInv'
    BY <1>10 DEF Register
<1>11. ASSUME NEW o \in Ops, JudgeDial(o) PROVE HookInv'
    BY <1>11 DEF JudgeDial
<1>12. ASSUME NEW o \in Ops, JudgeLookup(o) PROVE HookInv'
    BY <1>12 DEF JudgeLookup
<1>13. ASSUME NEW o \in Ops, Drop(o) PROVE HookInv'
    BY <1>13 DEF Drop, CloseConn, Set
<1>14. ASSUME NEW o \in Ops, End(o) PROVE HookInv'
    BY <1>14 DEF End
<1>15. ASSUME NEW o \in Ops, Stop(o) PROVE HookInv'
    BY <1>15 DEF Stop, Stopped
<1>16. ASSUME NEW o \in Ops, Release(o) PROVE HookInv'
    BY <1>16 DEF Release, CloseConn, Set
<1>17. ASSUME NEW o \in Ops, Finish(o) PROVE HookInv'
    BY <1>17 DEF Finish, EndCtx
<1>18. ASSUME NEW o \in Ops, ClientFails(o) PROVE HookInv'
    BY <1>18 DEF ClientFails
<1>19. ASSUME NEW o \in Ops, ClientSucceeds(o) PROVE HookInv'
    BY <1>19 DEF ClientSucceeds
<1>20. ASSUME NEW o \in Ops, Expire(o) PROVE HookInv'
    BY <1>20 DEF Expire, EndCtx
<1>21. ASSUME NEW o \in Ops, AppClose(o) PROVE HookInv'
    BY <1>21 DEF AppClose, CloseConn, Set
<1>22. ASSUME NEW o \in Ops, DialerStart(o) PROVE HookInv'
    BY <1>22 DEF DialerStart
<1>23. ASSUME NEW o \in Ops, DialReturns(o) PROVE HookInv'
    BY <1>23 DEF DialReturns, Set
<1>24. ASSUME NEW o \in Ops, Track(o) PROVE HookInv'
    BY <1>24 DEF Track, Set, Tracked
<1>25. ASSUME NEW o \in Ops, Enlist(o) PROVE HookInv'
    BY <1>25 DEF Enlist, Takes, Armed
<1>26. ASSUME NEW o \in Ops, Refuse(o) PROVE HookInv'
    BY <1>26 DEF Refuse, CloseConn, Set
<1>27. ASSUME NEW o \in Ops, HookRun(o) PROVE HookInv'
    BY <1>27 DEF HookRun, CloseConn, Set
<1>28. CASE ScopeClose
    BY <1>28 DEF ScopeClose
<1>29. CASE DriverSnapshot
    BY <1>29 DEF DriverSnapshot
<1>30. CASE UNCHANGED vars
    BY <1>30 DEF vars
<1> HIDE DEF TypeInv, DialerInv, HookInv, Goto, DialerAt, call, operation
<1> QED
    BY <1>1, <1>2, <1>3, <1>4, <1>5, <1>6, <1>7, <1>8, <1>9, <1>10, <1>11, <1>12, <1>13,
       <1>14, <1>15, <1>16, <1>17, <1>18, <1>19, <1>20, <1>21, <1>22, <1>23, <1>24, <1>25,
       <1>26, <1>27, <1>28, <1>29, <1>30 DEF Next, Sweep, CallStep, ClientReturns, DialerStep, Finished

\* A closed scope takes nothing in.
LEMMA ScopeKept == TypeInv /\ ScopeInv /\ [Next]_vars => ScopeInv'
<1> SUFFICES ASSUME TypeInv, ScopeInv, [Next]_vars PROVE ScopeInv'
    OBVIOUS
<1> USE NetworkAssumption DEF TypeInv, ScopeInv, Goto, DialerAt, call, operation
<1>1. CASE NewNetwork
    BY <1>1 DEF NewNetwork, Creates
<1>2. CASE NetClose
    BY <1>2 DEF NetClose, Unregister
<1>3. CASE DriverClose
    BY <1>3 DEF DriverClose
<1>4. CASE DriverSweep
    BY <1>4 DEF DriverSweep, Unregister
<1>5. CASE DriverDone
    BY <1>5 DEF DriverDone
<1>6. CASE SweepEnd
    BY <1>6 DEF SweepEnd
<1>7. ASSUME NEW o \in Ops, SweepOperation(o) PROVE ScopeInv'
    BY <1>7 DEF SweepOperation, EndCtx
<1>8. ASSUME NEW o \in Ops, SweepConn(o) PROVE ScopeInv'
    BY <1>8 DEF SweepConn, CloseConn, Set
<1>9. ASSUME NEW o \in Ops, Begin(o) PROVE ScopeInv'
    BY <1>9 DEF Begin
<1>10. ASSUME NEW o \in Ops, Register(o) PROVE ScopeInv'
    BY <1>10 DEF Register
<1>11. ASSUME NEW o \in Ops, JudgeDial(o) PROVE ScopeInv'
    BY <1>11 DEF JudgeDial
<1>12. ASSUME NEW o \in Ops, JudgeLookup(o) PROVE ScopeInv'
    BY <1>12 DEF JudgeLookup
<1>13. ASSUME NEW o \in Ops, Drop(o) PROVE ScopeInv'
    BY <1>13 DEF Drop, CloseConn, Set
<1>14. ASSUME NEW o \in Ops, End(o) PROVE ScopeInv'
    BY <1>14 DEF End
<1>15. ASSUME NEW o \in Ops, Stop(o) PROVE ScopeInv'
    BY <1>15 DEF Stop, Stopped
<1>16. ASSUME NEW o \in Ops, Release(o) PROVE ScopeInv'
    BY <1>16 DEF Release, CloseConn, Set
<1>17. ASSUME NEW o \in Ops, Finish(o) PROVE ScopeInv'
    BY <1>17 DEF Finish, EndCtx
<1>18. ASSUME NEW o \in Ops, ClientFails(o) PROVE ScopeInv'
    BY <1>18 DEF ClientFails
<1>19. ASSUME NEW o \in Ops, ClientSucceeds(o) PROVE ScopeInv'
    BY <1>19 DEF ClientSucceeds
<1>20. ASSUME NEW o \in Ops, Expire(o) PROVE ScopeInv'
    BY <1>20 DEF Expire, EndCtx
<1>21. ASSUME NEW o \in Ops, AppClose(o) PROVE ScopeInv'
    BY <1>21 DEF AppClose, CloseConn, Set
<1>22. ASSUME NEW o \in Ops, DialerStart(o) PROVE ScopeInv'
    BY <1>22 DEF DialerStart
<1>23. ASSUME NEW o \in Ops, DialReturns(o) PROVE ScopeInv'
    BY <1>23 DEF DialReturns, Set
<1>24. ASSUME NEW o \in Ops, Track(o) PROVE ScopeInv'
    BY <1>24 DEF Track, Set, Tracked
<1>25. ASSUME NEW o \in Ops, Enlist(o) PROVE ScopeInv'
    BY <1>25 DEF Enlist, Takes, Armed
<1>26. ASSUME NEW o \in Ops, Refuse(o) PROVE ScopeInv'
    BY <1>26 DEF Refuse, CloseConn, Set
<1>27. ASSUME NEW o \in Ops, HookRun(o) PROVE ScopeInv'
    BY <1>27 DEF HookRun, CloseConn, Set
<1>28. CASE ScopeClose
    BY <1>28 DEF ScopeClose
<1>29. CASE DriverSnapshot
    BY <1>29 DEF DriverSnapshot
<1>30. CASE UNCHANGED vars
    BY <1>30 DEF vars
<1> HIDE DEF TypeInv, ScopeInv, Goto, DialerAt, call, operation
<1> QED
    BY <1>1, <1>2, <1>3, <1>4, <1>5, <1>6, <1>7, <1>8, <1>9, <1>10, <1>11, <1>12, <1>13,
       <1>14, <1>15, <1>16, <1>17, <1>18, <1>19, <1>20, <1>21, <1>22, <1>23, <1>24, <1>25,
       <1>26, <1>27, <1>28, <1>29, <1>30 DEF Next, Sweep, CallStep, ClientReturns, DialerStep, Finished

-----------------------------------------------------------------------------
\* Every step keeps the invariant.
LEMMA StepKeeps == IInv /\ [Next]_vars => IInv'
    BY TypeKept, DialerKept, HookKept, ScopeKept DEF IInv

\* The inductive invariant holds.
LEMMA Invariance == Spec => []IInv
    BY InitIInv, StepKeeps, PTL DEF Spec

\* When its closing is complete no connection and no context of the network is
\* left; and Driver.Close leaves no network, unless a Network.Close of the
\* application has it in hand (network.go:47, 58, 131; driver.go:608).
THEOREM NothingOutlives == Spec => []NothingOutlivesNetwork
<1>1. IInv => NothingOutlivesNetwork
    BY DEF IInv, ScopeInv, NothingOutlivesNetwork
<1> QED
    BY <1>1, Invariance, PTL

\* The connection of a Dial that has returned is closed by its application, by
\* the closing network, or because its context had ended (network.go:142, 156).
LEMMA StepKeepsConnection ==
    ASSUME IInv, [Next]_vars, NEW p \in Ops,
           pc[p] = "done", Hands(p), conn[p] = "open", conn'[p] # "open"
    PROVE  AppClose(p) \/ net = "closing" \/ ctx[p] = "expired"
<1> USE DEF IInv, TypeInv, Hands, Goto, DialerAt, call, operation
<1>1. CASE NewNetwork \/ NetClose \/ ScopeClose \/ SweepEnd
    BY <1>1 DEF NewNetwork, NetClose, Unregister, ScopeClose, SweepEnd
<1>10. CASE DriverClose \/ DriverSnapshot \/ DriverSweep \/ DriverDone
    BY <1>10 DEF DriverClose, DriverSnapshot, DriverSweep, Unregister, DriverDone
<1>2. ASSUME NEW o \in Ops, SweepOperation(o) \/ Begin(o) \/ Register(o) \/ JudgeDial(o) \/ JudgeLookup(o)
      PROVE  FALSE
    BY <1>2 DEF SweepOperation, Begin, Register, JudgeDial, JudgeLookup
<1>3. ASSUME NEW o \in Ops, End(o) \/ Stop(o) \/ Finish(o) \/ ClientReturns(o) \/ Expire(o) \/ DialerStart(o) \/ Enlist(o)
      PROVE  FALSE
    BY <1>3 DEF End, Stop, Finish, ClientReturns, ClientFails, ClientSucceeds, Expire, DialerStart, Enlist
<1>4. ASSUME NEW o \in Ops, SweepConn(o)
      PROVE  net = "closing"
    BY <1>4 DEF SweepConn
<1>5. ASSUME NEW o \in Ops, Drop(o) \/ Release(o)
      PROVE  FALSE
    BY <1>5 DEF Drop, Release, CloseConn, Set
<1>6. ASSUME NEW o \in Ops, AppClose(o)
      PROVE  AppClose(p)
    BY <1>6, ZenonT(60) DEF AppClose, CloseConn, Set
<1>7. ASSUME NEW o \in Ops, DialReturns(o) \/ Track(o) \/ Refuse(o)
      PROVE  FALSE
    BY <1>7 DEF DialerInv, DialReturns, Track, Refuse, CloseConn, Set
<1>8. ASSUME NEW o \in Ops, HookRun(o)
      PROVE  net = "closing" \/ ctx[p] = "expired"
  <2>1. o = p
      BY <1>8 DEF HookRun, CloseConn, Set
  <2> QED
      BY <1>8, <2>1 DEF HookRun, HookInv, ScopeInv
<1>9. CASE UNCHANGED vars
    BY <1>9 DEF vars
<1> HIDE DEF IInv, TypeInv, Hands, Goto, DialerAt, call, operation
<1> QED
    BY <1>1, <1>2, <1>3, <1>4, <1>5, <1>6, <1>7, <1>8, <1>9, <1>10
       DEF Next, Sweep, CallStep, ClientReturns, DialerStep, Finished

\* Dial never takes back the connection it has returned.
THEOREM ConnectionKept == Spec => ReturnedConnectionKept
<1>1. IInv /\ [Next]_vars => [\A o \in Ops : (pc[o] = "done" /\ Hands(o) /\ conn[o] = "open" /\ conn'[o] # "open") =>
           AppClose(o) \/ net = "closing" \/ ctx[o] = "expired"]_vars
    BY StepKeepsConnection
<1> QED
    BY <1>1, Invariance, PTL DEF Spec, ReturnedConnectionKept

-----------------------------------------------------------------------------
(* Ownership.                                                               *)

\* The two resources of a call: its connection and its context.
Resources == Ops \X {"conn", "oper"}

\* What the scope of the network makes of them.
Part(status) ==
    CASE status \in {"none", "raw"} -> "new"
      [] status \in {"open", "live"} -> "owned"
      [] status = "closed" -> "closed"

NetPhase == IF net = "none" THEN "open" ELSE net
NetState == [x \in Resources |-> Part(IF x[2] = "conn" THEN conn[x[1]] ELSE oper[x[1]])]

\* A network as a scope of Ownership.tla.  resource.Close is one step here.
Own == INSTANCE Ownership WITH AtOnce <- Resources, phase <- NetPhase, state <- NetState

\* Where the connection and the context of a call can be: only a Dialer holds an
\* unregistered connection, and what is listed has been registered.
PlaceInv ==
    \A o \in Ops :
        /\ dialer[o] \in {"off", "dial"} => conn[o] = "none"
        /\ conn[o] = "raw" <=> dialer[o] = "track"
        /\ dialer[o] \in {"enlist", "refuse"} \/ listed[o] => conn[o] \in {"open", "closed"}
        /\ hook[o] # "none" \/ pc[o] \in {"judge", "drop"} => listed[o]
        /\ listed[o] => dialer[o] = "back"
        /\ pc[o] \in {"idle", "register"} => oper[o] = "none"

\* How connection and context may change.
ConnMoves(o, v) ==
    /\ conn' = [conn EXCEPT ![o] = v]
    /\ \/ conn[o] = "none" /\ v = "raw"
       \/ conn[o] = "raw" /\ v = "open" /\ net = "open"
       \/ conn[o] = "raw" /\ v = "closed" /\ net \in {"closing", "done"}
       \/ conn[o] \in {"open", "closed"} /\ v = "closed"
    /\ UNCHANGED <<net, oper>>

OperMoves(o, v) ==
    /\ oper' = [oper EXCEPT ![o] = v]
    /\ \/ oper[o] = "none" /\ v = "live" /\ net = "open"
       \/ oper[o] = "live" /\ v = "closed"
    /\ UNCHANGED <<net, conn>>

\* All that a step does to the scope and to what is registered in it.
Effect ==
    \/ UNCHANGED <<net, conn, oper>>
    \/ NewNetwork \/ ScopeClose \/ SweepEnd
    \/ \E o \in Ops : \/ \E v \in {"raw", "open", "closed"} : ConnMoves(o, v)
                      \/ \E v \in {"live", "closed"} : OperMoves(o, v)

\* Every step has one of these effects, and keeps PlaceInv.
LEMMA StepEffect ==
    ASSUME IInv, PlaceInv, [Next]_vars
    PROVE  Effect /\ PlaceInv'
<1> USE NetworkAssumption DEF IInv, TypeInv, PlaceInv, Goto, DialerAt, call, operation
<1>1. ASSUME NEW o \in Ops, Begin(o) \/ JudgeDial(o) \/ JudgeLookup(o) \/ End(o) \/ Stop(o) \/ ClientFails(o)
             \/ ClientSucceeds(o) \/ Expire(o) \/ DialerStart(o) \/ Enlist(o)
      PROVE  Effect
    BY <1>1 DEF Begin, JudgeDial, JudgeLookup, End, Stop, ClientFails, ClientSucceeds, Expire, DialerStart,
       Enlist, Effect
<1>2. ASSUME NEW o \in Ops, SweepOperation(o) \/ Register(o) \/ Finish(o)
      PROVE  Effect
    BY <1>2 DEF SweepOperation, Register, Finish, Effect, OperMoves
<1>3. ASSUME NEW o \in Ops, SweepConn(o) \/ AppClose(o) \/ Drop(o) \/ Release(o) \/ Refuse(o) \/ HookRun(o)
      PROVE  Effect
    BY <1>3 DEF SweepConn, AppClose, Drop, Release, Refuse, HookRun, CloseConn, Set, Effect, ConnMoves
<1>4. ASSUME NEW o \in Ops, DialReturns(o) \/ Track(o)
      PROVE  Effect
    BY <1>4 DEF DialReturns, Track, Tracked, Set, Effect, ConnMoves, DialerInv, ScopeInv
<1>5. ASSUME NewNetwork \/ NetClose \/ ScopeClose \/ SweepEnd \/ UNCHANGED vars
      PROVE  Effect /\ PlaceInv'
    BY <1>5 DEF NewNetwork, NetClose, Unregister, ScopeClose, SweepEnd, vars, Effect
<1>10. ASSUME DriverClose \/ DriverSnapshot \/ DriverSweep \/ DriverDone
      PROVE  Effect /\ PlaceInv'
    BY <1>10 DEF DriverClose, DriverSnapshot, DriverSweep, Unregister, DriverDone, Effect
<1>6. ASSUME NEW o \in Ops, SweepOperation(o) \/ Begin(o) \/ Register(o) \/ Finish(o) \/ Expire(o)
      PROVE  PlaceInv'
    BY <1>6 DEF SweepOperation, Begin, Register, Finish, Expire, EndCtx
<1>7. ASSUME NEW o \in Ops, JudgeDial(o) \/ JudgeLookup(o) \/ End(o) \/ Stop(o) \/ ClientFails(o) \/ ClientSucceeds(o)
      PROVE  PlaceInv'
    BY <1>7 DEF JudgeDial, JudgeLookup, End, Stop, Stopped, ClientFails, ClientSucceeds
<1>8. ASSUME NEW o \in Ops, SweepConn(o) \/ AppClose(o) \/ Drop(o) \/ Release(o) \/ Refuse(o) \/ HookRun(o)
      PROVE  PlaceInv'
    BY <1>8 DEF SweepConn, AppClose, Drop, Release, Refuse, HookRun, CloseConn, Set
<1>9. ASSUME NEW o \in Ops, DialerStart(o) \/ DialReturns(o) \/ Track(o) \/ Enlist(o)
      PROVE  PlaceInv'
    BY <1>9 DEF DialerStart, DialReturns, Track, Tracked, Enlist, Armed, Set
<1> HIDE DEF IInv, TypeInv, PlaceInv, Goto, DialerAt, call, operation
<1> QED
    BY <1>1, <1>2, <1>3, <1>4, <1>5, <1>6, <1>7, <1>8, <1>9, <1>10
       DEF Next, Sweep, CallStep, ClientReturns, DialerStep, Finished

\* A function that differs at one argument only.
LEMMA Altered ==
    ASSUME NEW D, NEW f, NEW h, NEW a \in D, NEW v, NEW R, f \in [D -> R], h \in [D -> R],
           \A x \in D : h[x] = IF x = a THEN v ELSE f[x]
    PROVE  h = [f EXCEPT ![a] = v]
    OBVIOUS

\* A connection or a context that changes is one resource that changes.
LEMMA PartMoves ==
    ASSUME TypeInv, NEW o \in Ops, NEW v \in {"raw", "open", "live", "closed"}
    PROVE  /\ ConnMoves(o, v) => Own!Becomes(<<o, "conn">>, Part(v))
           /\ OperMoves(o, v) => Own!Becomes(<<o, "oper">>, Part(v))
           /\ <<o, "conn">> \in Resources /\ NetState[<<o, "conn">>] = Part(conn[o])
           /\ <<o, "oper">> \in Resources /\ NetState[<<o, "oper">>] = Part(oper[o])
<1> DEFINE States == {"new", "owned", "closed"}
<1>1. <<o, "conn">> \in Resources /\ <<o, "oper">> \in Resources
    BY DEF Resources
<1>2. NetState \in [Resources -> States]
    BY DEF NetState, Resources, Part, TypeInv
<1>3. NetState[<<o, "conn">>] = Part(conn[o]) /\ NetState[<<o, "oper">>] = Part(oper[o])
    BY <1>1 DEF NetState
<1>4. ASSUME ConnMoves(o, v) PROVE Own!Becomes(<<o, "conn">>, Part(v))
  <2>1. \A p \in Ops : conn'[p] = IF p = o THEN v ELSE conn[p]
      BY <1>4 DEF ConnMoves, TypeInv
  <2>2. UNCHANGED <<net, oper>>
      BY <1>4 DEF ConnMoves
  <2>3. NetState' \in [Resources -> States]
      BY <2>1, <2>2 DEF NetState, Resources, Part, TypeInv
  <2>4. \A x \in Resources : NetState'[x] = IF x = <<o, "conn">> THEN Part(v) ELSE NetState[x]
      BY <2>1, <2>2 DEF NetState, Resources
  <2>5. NetState' = [NetState EXCEPT ![<<o, "conn">>] = Part(v)]
      BY <1>1, <1>2, <2>3, <2>4, Altered, ZenonT(60)
  <2> QED
      BY <2>2, <2>5 DEF Own!Becomes, NetPhase
<1>5. ASSUME OperMoves(o, v) PROVE Own!Becomes(<<o, "oper">>, Part(v))
  <2>1. \A p \in Ops : oper'[p] = IF p = o THEN v ELSE oper[p]
      BY <1>5 DEF OperMoves, TypeInv
  <2>2. UNCHANGED <<net, conn>>
      BY <1>5 DEF OperMoves
  <2>3. NetState' \in [Resources -> States]
      BY <2>1, <2>2 DEF NetState, Resources, Part, TypeInv
  <2>4. \A x \in Resources : NetState'[x] = IF x = <<o, "oper">> THEN Part(v) ELSE NetState[x]
      BY <2>1, <2>2 DEF NetState, Resources
  <2>5. NetState' = [NetState EXCEPT ![<<o, "oper">>] = Part(v)]
      BY <1>1, <1>2, <2>3, <2>4, Altered, ZenonT(60)
  <2> QED
      BY <2>2, <2>5 DEF Own!Becomes, NetPhase
<1> QED
    BY <1>1, <1>3, <1>4, <1>5

\* Such a change is a step that Ownership allows, or none.
LEMMA MovesAreSteps ==
    ASSUME NEW x \in Resources, NEW u, NEW v, Own!Becomes(x, Part(v)), NetState[x] = Part(u),
           NetState \in [Resources -> {"new", "owned", "closed"}],
           \/ u \in {"none", "raw"} /\ v = "raw"
           \/ u = "closed" /\ v = "closed"
           \/ u \in {"none", "raw"} /\ v \in {"live", "open"} /\ net = "open"
           \/ u \in {"none", "raw"} /\ v = "closed" /\ net \in {"closing", "done"}
           \/ u \in {"live", "open"} /\ v = "closed" /\ net \in {"open", "closing"}
    PROVE  [Own!Next]_(Own!avars)
<1>1. CASE Part(u) = Part(v)
  <2>1. NetState' = NetState
      BY <1>1 DEF Own!Becomes
  <2> QED
      BY <2>1 DEF Own!avars, Own!Becomes
<1>2. CASE u \in {"none", "raw"} /\ v \in {"live", "open"} /\ net = "open"
  <2>1. Own!Acquire(x)
      BY <1>2 DEF Own!Acquire, Part, NetPhase
  <2> QED
      BY <2>1 DEF Own!Next
<1>3. CASE u \in {"none", "raw"} /\ v = "closed" /\ net \in {"closing", "done"}
  <2>1. Own!Refuse(x)
      BY <1>3 DEF Own!Refuse, Part, NetPhase
  <2> QED
      BY <2>1 DEF Own!Next
<1>4. CASE u \in {"live", "open"} /\ v = "closed" /\ net = "open"
  <2>1. Own!Drop(x)
      BY <1>4 DEF Own!Drop, Part, NetPhase
  <2> QED
      BY <2>1 DEF Own!Next
<1>5. CASE u \in {"live", "open"} /\ v = "closed" /\ net = "closing"
  <2>1. Own!Shut(x)
      BY <1>5 DEF Own!Shut, Part, NetPhase
  <2> QED
      BY <2>1 DEF Own!Next
<1>6. u \in {"none", "raw"} /\ v = "raw" => Part(u) = Part(v)
    BY DEF Part
<1> QED
    BY <1>1, <1>2, <1>3, <1>4, <1>5, <1>6

\* Each effect is a step of Ownership, or none.
LEMMA EffectOwns ==
    ASSUME IInv, PlaceInv, Effect
    PROVE  [Own!Next]_(Own!avars)
<1>1. TypeInv /\ \A o \in Ops : net = "done" => conn[o] # "open" /\ oper[o] # "live"
    BY DEF IInv, ScopeInv
<1>2. NetState \in [Resources -> {"new", "owned", "closed"}]
    BY <1>1 DEF NetState, Resources, Part, TypeInv
<1>3. CASE UNCHANGED <<net, conn, oper>>
    BY <1>3 DEF NetState, NetPhase, Own!avars
<1>4. CASE NewNetwork
    BY <1>4 DEF NewNetwork, NetState, NetPhase, Own!avars
<1>5. CASE ScopeClose
  <2>1. Own!BeginClose
      BY <1>5 DEF ScopeClose, NetState, NetPhase, Own!BeginClose
  <2> QED
      BY <2>1 DEF Own!Next
<1>6. CASE SweepEnd
  <2>1. NetState' = NetState /\ NetPhase = "closing" /\ NetPhase' = "done"
      BY <1>6 DEF SweepEnd, NetState, NetPhase
  <2>2. \A x \in Resources : NetState[x] # "owned"
      BY <1>1, <1>6 DEF SweepEnd, NetState, Resources, Part, TypeInv
  <2>3. Own!EndClose
      BY <2>1, <2>2 DEF Own!EndClose
  <2> QED
      BY <2>3 DEF Own!Next
<1>7. ASSUME NEW o \in Ops, NEW v \in {"raw", "open", "closed"}, ConnMoves(o, v)
      PROVE  [Own!Next]_(Own!avars)
  <2>1. /\ <<o, "conn">> \in Resources /\ NetState[<<o, "conn">>] = Part(conn[o])
        /\ Own!Becomes(<<o, "conn">>, Part(v))
      BY <1>1, <1>7, PartMoves, ZenonT(60)
  <2>2. conn[o] = "open" => net \in {"open", "closing"}
      BY <1>1 DEF IInv, TypeInv, DialerInv, ScopeInv, PlaceInv
  <2> QED
      BY <1>2, <1>7, <2>1, <2>2, MovesAreSteps DEF ConnMoves
<1>8. ASSUME NEW o \in Ops, NEW v \in {"live", "closed"}, OperMoves(o, v)
      PROVE  [Own!Next]_(Own!avars)
  <2>1. /\ <<o, "oper">> \in Resources /\ NetState[<<o, "oper">>] = Part(oper[o])
        /\ Own!Becomes(<<o, "oper">>, Part(v))
      BY <1>1, <1>8, PartMoves, ZenonT(60)
  <2>2. oper[o] = "live" => net \in {"open", "closing"}
      BY <1>1 DEF IInv, TypeInv, DialerInv, ScopeInv, PlaceInv
  <2> QED
      BY <1>2, <1>8, <2>1, <2>2, MovesAreSteps DEF OperMoves
<1> QED
    BY <1>3, <1>4, <1>5, <1>6, <1>7, <1>8 DEF Effect

\* A network keeps the promise of a scope to its calls (network.go:89, 131;
\* scope.go:38-80): the connection of every Dialer and the context of every call are
\* owned from registration until they are closed; closing ends only when nothing is
\* owned; and what a Dialer registers later is closed at once.
THEOREM NetworkOwns == Spec => Own!Spec
<1>1. Init => PlaceInv /\ Own!Init
  <2> SUFFICES ASSUME Init PROVE PlaceInv /\ Own!Init
      OBVIOUS
  <2>1. PlaceInv
      BY DEF Init, PlaceInv
  <2>2. NetPhase = "open" /\ NetState = [x \in Resources |-> "new"]
      BY DEF Init, NetPhase, NetState, Resources, Part
  <2> QED
      BY <2>1, <2>2 DEF Own!Init
<1>2. IInv /\ PlaceInv /\ [Next]_vars => PlaceInv' /\ [Own!Next]_(Own!avars)
    BY StepEffect, EffectOwns
<1> QED
    BY <1>1, <1>2, Invariance, PTL DEF Spec, Own!Spec
=============================================================================
