--------------------------- MODULE ServiceProofs ---------------------------
(***************************************************************************)
(* Proofs about Service.tla for any number of goroutines, ports and        *)
(* listeners and for every combination of control faults.                  *)
(***************************************************************************)
EXTENDS Service, TLAPS

\* Zenon goes first, with time for a slow machine; a leaf that needs SMT says so.
USE ZenonT(20), SMTT(90)

Requesting == {"del", "reset", "add", "rollback", "restored", "commit"}
Locking == Requesting \cup {"fail", "sdel", "srelease"}
Working == Requesting \cup {"fail"}
Driving == {"dclose", "snap", "dstop"}
Sweeping == {"scope", "key"}
Labels == Locking \cup Driving \cup Sweeping \cup {"idle", "slock", "sonce", "sdone"}

\* The values of the variables.
TypeInv ==
    /\ mu \in Threads \cup {Nobody} /\ runner \in Threads \cup {Nobody}
    /\ svcOnce \in {"new", "running", "done"} /\ dOnce \in {"new", "running", "done"}
    /\ scope \in {"open", "closing", "done"}
    /\ closing \in BOOLEAN /\ active \in BOOLEAN /\ torUp \in BOOLEAN
    /\ control \in BOOLEAN /\ dclosed \in BOOLEAN
    /\ backing \in [Ports -> Backings \cup {0}] /\ torMap \in [Ports -> Backings \cup {0}]
    /\ claimed \in [Ports -> BOOLEAN] /\ gen \in [Ports -> Nat \ {0}]
    /\ made \subseteq Backings /\ open \subseteq made
    /\ pc \in [Threads -> Labels]
    /\ cont \in [Threads -> {"idle", "fail", "srelease"}]
    /\ op \in [Threads -> [kind : {"none", "listen", "remove", "close"}, port : Ports \cup {Nobody},
                           cand : Backings \cup {0}, was : BOOLEAN]]
    /\ handle \in [Threads -> [port : Ports \cup {Nobody}, gen : Nat]]

\* A goroutine inside a critical section of Service.mu, also when the section
\* has called Driver.Close.
Holds(t) == t \in Apps /\ (pc[t] \in Locking \cup Driving \/ (pc[t] \in Sweeping /\ runner = t))

\* Service.mu, and who runs Driver.Close.
LockInv ==
    /\ \A t \in Threads : mu = t <=> Holds(t)
    /\ \A t \in Threads : runner = t => pc[t] \in {"snap", "dstop"} \cup Sweeping
    /\ \A t \in Threads : pc[t] \in {"snap", "dstop"} => runner = t
    /\ \A t \in Threads : pc[t] \in Driving \/ runner = t => (cont[t] = "idle" <=> t \in Closers)
    /\ \A t \in Closers : pc[t] \in {"idle"} \cup Driving \cup Sweeping
    /\ \A t \in Closers : pc[t] \in Sweeping => runner = t
    /\ dclosed <=> dOnce # "new"
    /\ runner # Nobody => dOnce = "running"
    /\ \A t \in Threads : pc[t] \in {"sdel", "srelease"} \/ cont[t] = "srelease" => closing

\* What a request is about.
OpInv ==
    /\ \A t \in Threads : pc[t] \in Requesting =>
        /\ op[t].port \in Ports
        /\ \/ op[t].kind = "listen" /\ backing[op[t].port] = 0 /\ op[t].cand \in Backings
           \/ op[t].kind \in {"remove", "close"} /\ op[t].cand = 0
        /\ op[t].kind = "close" => handle[t] = [port |-> op[t].port, gen |-> gen[op[t].port]]

\* To whom a port is handed out.
HandleInv ==
    /\ \A t \in Threads :
        \/ handle[t] = NoHandle
        \/ handle[t].port \in Ports /\ handle[t].gen # 0 /\ handle[t].gen <= gen[handle[t].port]
    /\ \A t \in Threads : \A p \in Ports :
        (handle[t] = [port |-> p, gen |-> gen[p]] /\ backing[p] # 0) => claimed[p]
    /\ \A t, u \in Threads : \A p \in Ports :
        (/\ handle[t] = [port |-> p, gen |-> gen[p]]
         /\ handle[u] = [port |-> p, gen |-> gen[p]]
         /\ backing[p] # 0) => t = u

ClaimInv == OpInv /\ HandleInv

\* Service and Tor agree.
Agree == (active <=> torUp) /\ (active => torMap = backing)

\* The listeners of a service that is not closing are open and its own.
BackingInv ==
    /\ ~closing => \A p \in Ports : backing[p] # 0 => backing[p] \in open
    /\ ~closing => \A p, q \in Ports : (p # q /\ backing[p] # 0) => backing[p] # backing[q]
    /\ \A t \in Threads : (pc[t] \in Requesting \cup {"fail"} /\ op[t].cand # 0) =>
        op[t].cand \in open /\ \A p \in Ports : backing[p] # op[t].cand

\* What Tor serves at each point of a request.
At(t) ==
    /\ pc[t] = "fail" => Agree
    /\ pc[t] \in {"reset", "add", "rollback"} => ~torUp
    /\ pc[t] \in {"add", "rollback"} => ~active
    /\ pc[t] = "add" => \E q \in Ports : Desired(t)[q] # 0
    /\ pc[t] = "restored" => torUp /\ torMap = backing
    /\ pc[t] = "commit" =>
        /\ torUp <=> \E q \in Ports : Desired(t)[q] # 0
        /\ torUp => torMap = Desired(t)

RequestInv == ((mu = Nobody /\ ~closing) => Agree) /\ \A t \in Threads : At(t)

\* Service.Close closes the scope only once Tor has stopped serving.
CloseInv ==
    /\ scope = "open" \/ closing
    /\ \A t \in Threads : pc[t] \in Requesting \cup {"fail"} => ~closing
    /\ \A t \in Threads : pc[t] \in {"srelease", "sdone"} \cup Sweeping => closing /\ ~torUp
    /\ svcOnce = "new" => ~closing
    /\ \A t \in Threads : pc[t] = "slock" => svcOnce = "running" /\ ~closing
    /\ \A t, u \in Threads : (pc[t] = "slock" /\ pc[u] = "slock") => t = u

\* All of it until the driver closes.
StateInv == ~dclosed => BackingInv /\ RequestInv /\ CloseInv /\ TorTargetsOpen

-----------------------------------------------------------------------------
\* newBacking returns a listener that was never made before (service.go:214).
LEMMA Fresh == ASSUME TypeInv, Backings # made PROVE FreshBacking \in Backings /\ FreshBacking \notin made
<1>1. \E b \in Backings : b \notin made
    BY ZenonT(60) DEF TypeInv
<1> QED
    BY <1>1 DEF FreshBacking

\* What DEL_ONION leaves, whatever its outcome: an onion that was down stays
\* down, and success means it is down (service.go:404, 548, driver.go:376).
LEMMA DelEffect ==
    ASSUME TypeInv, NEW t \in Threads, NEW ok \in Labels, NEW failed \in Labels, Del(t, ok, failed)
    PROVE  /\ torUp' \in BOOLEAN /\ control' \in BOOLEAN /\ (torUp' => torUp)
           /\ pc' \in [Threads -> Labels]
           /\ \/ pc' = [pc EXCEPT ![t] = ok] /\ ~torUp'
              \/ pc' = [pc EXCEPT ![t] = failed]
<1> USE DEF TypeInv, Goto
<1>1. CASE ~Refused /\ torUp' = FALSE /\ Goto(t, ok) /\ UNCHANGED control
    BY <1>1, ZenonT(60)
<1>2. CASE Goto(t, failed) /\ UNCHANGED <<torUp, control>>
    BY <1>2
<1>3. CASE control' \in BOOLEAN /\ torUp' = torUp /\ Goto(t, failed)
    BY <1>3
<1>4. CASE control' \in BOOLEAN /\ torUp' = FALSE /\ Goto(t, failed)
    BY <1>4, ZenonT(60)
<1> QED
    BY <1>1, <1>2, <1>3, <1>4, ZenonT(60) DEF Del

\* What ADD_ONION leaves: the requested mapping or what was there, and
\* success means the mapping (service.go:240, 275, driver.go:376).
LEMMA AddEffect ==
    ASSUME TypeInv, NEW t \in Threads, NEW mapping \in [Ports -> Backings \cup {0}],
           NEW ok \in Labels, NEW rejected \in Labels, NEW failed \in Labels,
           Add(t, mapping, ok, rejected, failed)
    PROVE  /\ torUp' \in BOOLEAN /\ control' \in BOOLEAN
           /\ torMap' \in [Ports -> Backings \cup {0}]
           /\ pc' \in [Threads -> Labels]
           /\ \/ pc' = [pc EXCEPT ![t] = ok] /\ torUp' /\ torMap' = mapping
              \/ pc' = [pc EXCEPT ![t] = rejected] /\ torUp' = torUp /\ torMap' = torMap
              \/ pc' = [pc EXCEPT ![t] = failed] /\ torUp' = torUp /\ torMap' = torMap
              \/ pc' = [pc EXCEPT ![t] = failed] /\ torUp' /\ torMap' = mapping
<1> USE DEF TypeInv, Goto, tor
<1>1. CASE torUp' = TRUE /\ torMap' = mapping /\ Goto(t, ok) /\ UNCHANGED control
    BY <1>1
<1>2. CASE Goto(t, rejected) /\ UNCHANGED <<tor, control>>
    BY <1>2
<1>3. CASE Goto(t, failed) /\ UNCHANGED <<tor, control>>
    BY <1>3
<1>4. CASE control' \in BOOLEAN /\ torUp' = TRUE /\ torMap' = mapping /\ Goto(t, failed)
    BY <1>4
<1>5. CASE control' \in BOOLEAN /\ UNCHANGED tor /\ Goto(t, failed)
    BY <1>5
<1> QED
    BY <1>1, <1>2, <1>3, <1>4, <1>5, ZenonT(60) DEF Add

\* The mapping a request asks for is a mapping (service.go:323, 390).
LEMMA DesiredType ==
    ASSUME TypeInv, ClaimInv, NEW t \in Threads, pc[t] \in Requesting
    PROVE  Desired(t) \in [Ports -> Backings \cup {0}]
<1>1. op[t].port \in Ports /\ op[t].cand \in Backings \cup {0} /\ backing \in [Ports -> Backings \cup {0}]
    BY DEF TypeInv, ClaimInv, OpInv
<1> QED
    BY <1>1 DEF Desired

\* DEL_ONION at the start of replaceMappingsLocked (service.go:404).
LEMMA RemapDelEffect ==
    ASSUME TypeInv, NEW t \in Threads, RemapDel(t)
    PROVE  /\ torUp' \in BOOLEAN /\ control' \in BOOLEAN /\ (torUp' => torUp)
           /\ pc' \in [Threads -> Labels]
           /\ \/ pc' = [pc EXCEPT ![t] = "reset"] /\ ~torUp'
              \/ pc' = [pc EXCEPT ![t] = "dclose"]
<1>1. "reset" \in Labels /\ "dclose" \in Labels
    BY DEF Labels, Locking, Requesting, Driving
<1>2. Del(t, "reset", "dclose")
    BY DEF RemapDel, OnUnknown
<1> QED
    BY <1>1, <1>2, DelEffect

\* DEL_ONION in Service.close (service.go:548).
LEMMA CloseDelEffect ==
    ASSUME TypeInv, NEW t \in Threads, CloseDel(t)
    PROVE  /\ torUp' \in BOOLEAN /\ control' \in BOOLEAN /\ (torUp' => torUp)
           /\ pc' \in [Threads -> Labels]
           /\ \/ pc' = [pc EXCEPT ![t] = "srelease"] /\ ~torUp'
              \/ pc' = [pc EXCEPT ![t] = "dclose"]
<1>1. "srelease" \in Labels /\ "dclose" \in Labels
    BY DEF Labels, Locking, Requesting, Driving
<1>2. Del(t, "srelease", "dclose")
    BY DEF CloseDel
<1> QED
    BY <1>1, <1>2, DelEffect

\* ADD_ONION with the requested mapping (service.go:414).
LEMMA RemapAddEffect ==
    ASSUME TypeInv, ClaimInv, NEW t \in Threads, RemapAdd(t)
    PROVE  /\ torUp' \in BOOLEAN /\ control' \in BOOLEAN
           /\ torMap' \in [Ports -> Backings \cup {0}]
           /\ pc' \in [Threads -> Labels]
           /\ \/ pc' = [pc EXCEPT ![t] = "commit"] /\ torUp' /\ torMap' = Desired(t)
              \/ /\ pc' = [pc EXCEPT ![t] = "rollback"] \/ pc' = [pc EXCEPT ![t] = "fail"]
                 /\ torUp' = torUp /\ torMap' = torMap
              \/ pc' = [pc EXCEPT ![t] = "dclose"] /\ torUp' = torUp /\ torMap' = torMap
              \/ pc' = [pc EXCEPT ![t] = "dclose"] /\ torUp' /\ torMap' = Desired(t)
<1> DEFINE r == IF op[t].was THEN "rollback" ELSE "fail"
<1>1. "commit" \in Labels /\ "dclose" \in Labels /\ r \in Labels /\ r \in {"rollback", "fail"}
    BY DEF Labels, Locking, Requesting, Driving
<1>2. pc[t] \in Requesting /\ Add(t, Desired(t), "commit", r, "dclose")
    BY DEF RemapAdd, OnUnknown, Requesting
<1>3. Desired(t) \in [Ports -> Backings \cup {0}]
    BY <1>2, DesiredType
<1> HIDE DEF r
<1> QED
    BY <1>1, <1>2, <1>3, AddEffect, SMTT(90)

\* ADD_ONION with the mapping as it was (service.go:428).
LEMMA RemapRollbackEffect ==
    ASSUME TypeInv, NEW t \in Threads, RemapRollback(t)
    PROVE  /\ torUp' \in BOOLEAN /\ control' \in BOOLEAN
           /\ torMap' \in [Ports -> Backings \cup {0}]
           /\ pc' \in [Threads -> Labels]
           /\ \/ pc' = [pc EXCEPT ![t] = "restored"] /\ torUp' /\ torMap' = backing
              \/ pc' = [pc EXCEPT ![t] = "dclose"] /\ torUp' = torUp /\ torMap' = torMap
              \/ pc' = [pc EXCEPT ![t] = "dclose"] /\ torUp' /\ torMap' = backing
<1>1. "restored" \in Labels /\ "dclose" \in Labels /\ backing \in [Ports -> Backings \cup {0}]
    BY DEF Labels, Locking, Requesting, Driving, TypeInv
<1>2. Add(t, backing, "restored", "dclose", "dclose")
    BY DEF RemapRollback, OnUnknown
<1> QED
    BY <1>1, <1>2, AddEffect

\* Every operation of the service keeps the types (service.go:297-583).
LEMMA TypeKept == TypeInv /\ ClaimInv /\ [Next]_vars => TypeInv'
<1> SUFFICES ASSUME TypeInv, ClaimInv, [Next]_vars PROVE TypeInv'
    OBVIOUS
<1>1. ASSUME NEW t \in Apps, CallClose(t) PROVE TypeInv'
    BY <1>1, SMTT(90) DEF CallClose, TypeInv, Threads, Labels, Locking, Driving, Sweeping, Goto, tor,
       listeners, binding, driver
<1>2. ASSUME NEW t \in Apps, ListenerClose(t) PROVE TypeInv'
    BY <1>2, SMTT(90) DEF ListenerClose, RemovePort, Usable, Withdraws, HeldUntilAck, Withdraw, TypeInv,
       Threads, Labels, Locking, Requesting, Driving, Goto, tor, binding, driver
<1>3. ASSUME NEW t \in Apps, DropHandle(t) PROVE TypeInv'
    BY <1>3 DEF DropHandle, Usable, Withdraws, TypeInv, Threads, NoHandle, tor, listeners, binding,
       driver
<1>4. ASSUME NEW t \in Apps, NEW p \in Ports, ListenClaim(t, p) PROVE TypeInv'
    BY <1>4, SMTT(90) DEF ListenClaim, Usable, TypeInv, Threads, Labels, Locking, Sweeping, tor, listeners,
       driver
<1>5. ASSUME NEW t \in Apps, NEW p \in Ports, ListenReopen(t, p) PROVE TypeInv'
<2>1. FreshBacking \in Backings
    BY <1>5, Fresh DEF ListenReopen
<2>2. Withdraw \in Labels
    BY DEF Withdraw, Labels, Locking, Requesting, Sweeping
<2> QED
    BY <1>5, <2>1, <2>2 DEF ListenReopen, Usable, TypeInv, Threads, Labels, Locking, Sweeping,
       Goto, tor, binding, driver
<1>6. ASSUME NEW t \in Apps, NEW p \in Ports, RemovePort(t, p, 0, "remove") PROVE TypeInv'
    BY <1>6, SMTT(90) DEF RemovePort, Usable, Withdraws, HeldUntilAck, Withdraw, TypeInv, Threads, Labels,
       Locking, Requesting, Sweeping, Goto, tor, binding, driver
<1>7. ASSUME NEW t \in Threads, RemapDel(t) PROVE TypeInv'
<2>1. /\ torUp' \in BOOLEAN /\ control' \in BOOLEAN /\ torMap' \in [Ports -> Backings \cup {0}]
      /\ pc' \in [Threads -> Labels]
    BY <1>7, RemapDelEffect, ZenonT(60) DEF RemapDel, TypeInv
<2>2. /\ cont' = [cont EXCEPT ![t] = "fail"]
      /\ UNCHANGED <<mu, svcOnce, closing, backing, claimed, gen, made, open, active, scope,
                     dOnce, runner, dclosed, op, handle>>
    BY <1>7 DEF RemapDel, listeners, binding, driver
<2> QED
    BY <2>1, <2>2, SMTT(90) DEF TypeInv
<1>8. ASSUME NEW t \in Threads, RemapReset(t) PROVE TypeInv'
<2> DEFINE next == IF \A p \in Ports : Desired(t)[p] = 0 THEN "commit" ELSE "add"
<2>1. next \in Labels
    BY DEF Labels, Locking, Requesting, Driving, Sweeping
<2>2. /\ pc' = [pc EXCEPT ![t] = next] /\ active' = FALSE
      /\ UNCHANGED <<mu, svcOnce, closing, backing, claimed, gen, made, open, torUp, torMap, scope, control,
                     dOnce, runner, dclosed, cont, op, handle>>
    BY <1>8 DEF RemapReset, TypeInv, Goto, tor, listeners, binding, driver
<2>3. pc' \in [Threads -> Labels]
  <3> HIDE DEF next
  <3> QED
      BY <2>1, <2>2 DEF TypeInv
<2>4. active' \in BOOLEAN
    BY <2>2, ZenonT(60)
<2> HIDE DEF next
<2> QED
    BY <2>2, <2>3, <2>4, SMTT(90) DEF TypeInv
<1>9. ASSUME NEW t \in Threads, RemapAdd(t) PROVE TypeInv'
<2>1. /\ torUp' \in BOOLEAN /\ control' \in BOOLEAN /\ torMap' \in [Ports -> Backings \cup {0}]
      /\ pc' \in [Threads -> Labels]
    BY <1>9, RemapAddEffect
<2>2. /\ cont' = [cont EXCEPT ![t] = "fail"]
      /\ UNCHANGED <<mu, svcOnce, closing, backing, claimed, gen, made, open, active, scope,
                     dOnce, runner, dclosed, op, handle>>
    BY <1>9 DEF RemapAdd, listeners, binding, driver
<2> QED
    BY <2>1, <2>2, SMTT(90) DEF TypeInv
<1>10. ASSUME NEW t \in Threads, RemapRollback(t) PROVE TypeInv'
<2>1. /\ torUp' \in BOOLEAN /\ control' \in BOOLEAN /\ torMap' \in [Ports -> Backings \cup {0}]
      /\ pc' \in [Threads -> Labels]
    BY <1>10, RemapRollbackEffect
<2>2. /\ cont' = [cont EXCEPT ![t] = "fail"]
      /\ UNCHANGED <<mu, svcOnce, closing, backing, claimed, gen, made, open, active, scope,
                     dOnce, runner, dclosed, op, handle>>
    BY <1>10 DEF RemapRollback, listeners, binding, driver
<2> QED
    BY <2>1, <2>2, SMTT(90) DEF TypeInv
<1>11. ASSUME NEW t \in Threads, RemapRestored(t) PROVE TypeInv'
    BY <1>11, SMTT(90) DEF RemapRestored, TypeInv, Threads, Labels, Locking, Requesting, Sweeping, Goto, tor,
       listeners, binding, driver
<1>12. ASSUME NEW t \in Threads, Commit(t) PROVE TypeInv'
<2>1. op[t].port \in Ports /\ Desired(t) \in [Ports -> Backings \cup {0}]
    BY <1>12, DesiredType, ZenonT(60) DEF Commit, ClaimInv, OpInv, TypeInv, Threads, Labels,
       Requesting, Driving, Sweeping, Goto, tor, driver
<2>2. "idle" \in Labels
    BY DEF Labels
<2>3. active' \in BOOLEAN
    BY <1>12, ZenonT(60) DEF Commit
<2>4. /\ claimed' \in [Ports -> BOOLEAN] /\ gen' \in [Ports -> Nat \ {0}]
      /\ handle' \in [Threads -> [port : Ports \cup {Nobody}, gen : Nat]]
      /\ open' \subseteq made
  <3>1. CASE op[t].kind = "listen"
    <4>1. /\ claimed' = [claimed EXCEPT ![op[t].port] = TRUE]
          /\ gen' = [gen EXCEPT ![op[t].port] = @ + 1]
          /\ handle' = [handle EXCEPT ![t] = [port |-> op[t].port, gen |-> gen[op[t].port] + 1]]
          /\ open' = open
        BY <1>12, <3>1, ZenonT(60) DEF Commit
    <4>2. gen[op[t].port] + 1 \in Nat \ {0}
        BY <2>1, SMTT(90) DEF TypeInv
    <4> QED
        BY <2>1, <4>1, <4>2 DEF TypeInv
  <3>2. CASE op[t].kind # "listen"
    <4>1. /\ claimed' = [claimed EXCEPT ![op[t].port] = FALSE]
          /\ gen' = [gen EXCEPT ![op[t].port] = @ + 1]
          /\ handle' = [handle EXCEPT ![t] = NoHandle] \/ handle' = handle
          /\ open' = open \ {backing[op[t].port]}
      <5>1. handle' = [handle EXCEPT ![t] = IF op[t].kind = "close" THEN NoHandle ELSE @]
          BY <1>12, <3>2, ZenonT(60) DEF Commit
      <5>2. [handle EXCEPT ![t] = handle[t]] = handle
          BY ZenonT(60) DEF TypeInv
      <5>3. handle' = [handle EXCEPT ![t] = NoHandle] \/ handle' = handle
          BY <5>1, <5>2, ZenonT(60)
      <5> QED
          BY <1>12, <3>2, <5>3, ZenonT(60) DEF Commit
    <4>2. gen[op[t].port] + 1 \in Nat \ {0}
        BY <2>1, SMTT(90) DEF TypeInv
    <4>3. NoHandle \in [port : Ports \cup {Nobody}, gen : Nat]
        BY DEF TypeInv, Threads, Labels, Locking, Requesting, Sweeping, NoHandle
    <4>4. handle' \in [Threads -> [port : Ports \cup {Nobody}, gen : Nat]]
      <5> QED
          BY <4>1, <4>3, ZenonT(60) DEF TypeInv
    <4>5. gen' \in [Ports -> Nat \ {0}]
        BY <2>1, <4>1, <4>2, ZenonT(60) DEF TypeInv
    <4> QED
        BY <2>1, <4>1, <4>4, <4>5 DEF TypeInv
  <3> QED
      BY <3>1, <3>2
<2>5. /\ op' = [op EXCEPT ![t] = NoOp] /\ pc' = [pc EXCEPT ![t] = "idle"] /\ mu' = Nobody
      /\ backing' = Desired(t)
      /\ UNCHANGED <<svcOnce, closing, made, torUp, torMap, scope, control, dOnce, runner,
                     dclosed, cont>>
    BY <1>12, ZenonT(60) DEF Commit, Goto, tor, driver
<2> QED
    BY <2>1, <2>2, <2>3, <2>4, <2>5, 0 \in Backings \cup {0}, ServiceAssumption, SMTT(90) DEF TypeInv,
       Threads, NoOp
<1>13. ASSUME NEW t \in Threads, FailRequest(t) PROVE TypeInv'
    BY <1>13, ServiceAssumption, SMTT(90) DEF FailRequest, TypeInv, Threads, Labels, Locking, Requesting,
       Goto, NoOp, tor, binding, driver
<1>14. ASSUME NEW t \in Threads, WaitOnce(t) PROVE TypeInv'
    BY <1>14, SMTT(90) DEF WaitOnce, TypeInv, Threads, Labels, Locking, Requesting, Sweeping, Goto, tor,
       listeners, binding, driver
<1>15. ASSUME NEW t \in Threads, CloseLock(t) PROVE TypeInv'
    BY <1>15, SMTT(90) DEF CloseLock, TypeInv, Threads, Labels, Locking, Goto, tor, listeners, binding,
       driver
<1>16. ASSUME NEW t \in Threads, CloseDel(t) PROVE TypeInv'
<2>1. /\ torUp' \in BOOLEAN /\ control' \in BOOLEAN /\ torMap' \in [Ports -> Backings \cup {0}]
      /\ pc' \in [Threads -> Labels]
    BY <1>16, CloseDelEffect, ZenonT(60) DEF CloseDel, TypeInv, listeners, driver
<2>2. /\ cont' = [cont EXCEPT ![t] = "srelease"]
      /\ UNCHANGED <<mu, svcOnce, closing, backing, claimed, gen, made, open, active, scope,
                     dOnce, runner, dclosed, op, handle>>
    BY <1>16 DEF CloseDel, listeners, binding, driver
<2> QED
    BY <2>1, <2>2, SMTT(90) DEF TypeInv
<1>17. ASSUME NEW t \in Threads, CloseRelease(t) PROVE TypeInv'
<2>1. gen' \in [Ports -> Nat \ {0}] /\ backing' \in [Ports -> Backings \cup {0}] /\ claimed' \in [Ports -> BOOLEAN]
    BY <1>17, SMTT(90) DEF CloseRelease, TypeInv, Goto, tor, driver
<2>3. mu' = Nobody /\ active' \in BOOLEAN
    BY <1>17, ZenonT(60) DEF CloseRelease, Unlock
<2>4. UNCHANGED <<svcOnce, closing, made, torUp, torMap, scope, control, dOnce, runner, dclosed, cont, op, handle>>
    BY <1>17, ZenonT(60) DEF CloseRelease, tor, driver
<2>2. open' \subseteq made /\ pc' \in [Threads -> Labels]
    BY <1>17 DEF CloseRelease, TypeInv, Threads, Labels, Locking, Requesting, Driving, Sweeping,
       Goto, tor, driver
<2> QED
    BY <2>1, <2>2, <2>3, <2>4, SMTT(90) DEF TypeInv
<1>18. ASSUME NEW t \in Threads, CloseReturn(t) PROVE TypeInv'
    BY <1>18, SMTT(90) DEF CloseReturn, TypeInv, Threads, Labels, Locking, Goto, tor, listeners, binding,
       driver
<1>19. ASSUME NEW t \in Threads, DriverClose(t) PROVE TypeInv'
<2>1. cont[t] \in Labels /\ "snap" \in Labels
    BY DEF TypeInv, Threads, Labels, Locking, Driving
<2>2. CASE dOnce = "new"
    BY <1>19, <2>1, <2>2, SMTT(90) DEF DriverClose, TypeInv, Goto, tor, listeners, binding, driver
<2>3. CASE dOnce = "done"
    BY <1>19, <2>1, <2>3, SMTT(90) DEF DriverClose, TypeInv, Threads, Goto, tor, listeners, binding, driver
<2> QED
    BY <1>19, <2>2, <2>3, ZenonT(60) DEF DriverClose
<1>20. ASSUME NEW t \in Threads, DriverSnapshot(t) PROVE TypeInv'
    BY <1>20, SMTT(90) DEF DriverSnapshot, TypeInv, Threads, Labels, Locking, Driving, Sweeping, Goto, tor,
       listeners, binding, driver
<1>21. ASSUME NEW t \in Threads, ScopeClose(t) PROVE TypeInv'
    BY <1>21, SMTT(90) DEF ScopeClose, AfterScope, TypeInv, Threads, Labels, Locking, Requesting, Driving,
       Sweeping, Goto, tor, binding, driver
<1>22. ASSUME NEW t \in Threads, ClearKey(t) PROVE TypeInv'
    BY <1>22, ServiceAssumption, SMTT(90) DEF ClearKey, AfterScope, TypeInv, Labels, Locking, Driving,
       Sweeping, Goto, tor, listeners, binding, driver
<1>23. ASSUME NEW t \in Threads, DriverStop(t) PROVE TypeInv'
    BY <1>23, ServiceAssumption, ZenonT(60) DEF DriverStop, TypeInv, Threads, Labels, Locking,
       Requesting, Driving, Sweeping, Goto, listeners, binding
<1>24. ASSUME NEW t \in Closers, CallDriverClose(t) PROVE TypeInv'
    BY <1>24, SMTT(90) DEF CallDriverClose, TypeInv, Threads, Labels, Locking, Driving, Goto, tor, listeners,
       binding, driver
<1>25. CASE UNCHANGED vars
    BY <1>25, SMTT(90) DEF vars, TypeInv, tor, listeners, binding, driver
<1> QED
    BY <1>1, <1>2, <1>3, <1>4, <1>5, <1>6, <1>7, <1>8, <1>9, <1>10, <1>11, <1>12, <1>13, <1>14,
       <1>15, <1>16, <1>17, <1>18, <1>19, <1>20, <1>21, <1>22, <1>23, <1>24, <1>25 DEF Next, Step,
       Finished

\* Service.mu has one holder, also while that holder is inside Driver.Close,
\* and Driver.closeOnce has one runner (service.go:297-583, driver.go:599).
LEMMA LockKept == TypeInv /\ ClaimInv /\ LockInv /\ [Next]_vars => LockInv'
<1> SUFFICES ASSUME TypeInv, ClaimInv, LockInv, [Next]_vars PROVE LockInv'
    OBVIOUS
<1>1. ASSUME NEW t \in Apps, CallClose(t) PROVE LockInv'
    BY <1>1, ServiceAssumption, SMTT(90) DEF CallClose, TypeInv, LockInv, Holds, Threads, Locking,
       Requesting, Driving, Sweeping, Goto, tor, listeners, driver
<1>2. ASSUME NEW t \in Apps, ListenerClose(t) PROVE LockInv'
    BY <1>2, ServiceAssumption, SMTT(90) DEF ListenerClose, RemovePort, Usable, Withdraws, HeldUntilAck,
       Withdraw, TypeInv, LockInv, Holds, Locking, Requesting, Driving, Goto, binding, driver
<1>3. ASSUME NEW t \in Apps, DropHandle(t) PROVE LockInv'
    BY <1>3 DEF DropHandle, Usable, Withdraws, TypeInv, LockInv, Holds, Locking, Requesting,
       Driving, tor, binding, driver
<1>4. ASSUME NEW t \in Apps, NEW p \in Ports, ListenClaim(t, p) PROVE LockInv'
    BY <1>4 DEF ListenClaim, Usable, TypeInv, LockInv, Holds, Driving, tor, driver
<1>5. ASSUME NEW t \in Apps, NEW p \in Ports, ListenReopen(t, p) PROVE LockInv'
    BY <1>5, ServiceAssumption, SMTT(90) DEF ListenReopen, Usable, Withdraw, TypeInv, LockInv, Holds,
       Locking, Requesting, Driving, Goto, tor, driver
<1>6. ASSUME NEW t \in Apps, NEW p \in Ports, RemovePort(t, p, 0, "remove") PROVE LockInv'
    BY <1>6, ServiceAssumption, SMTT(90) DEF RemovePort, Usable, Withdraws, HeldUntilAck, Withdraw, TypeInv,
       LockInv, Holds, Locking, Requesting, Driving, Goto, tor, driver
<1>7. ASSUME NEW t \in Threads, RemapDel(t) PROVE LockInv'
<2>1. \E l \in {"reset", "dclose"} : pc' = [pc EXCEPT ![t] = l]
    BY <1>7, RemapDelEffect
<2>2. /\ pc[t] = "del" /\ cont' = [cont EXCEPT ![t] = "fail"]
      /\ UNCHANGED <<mu, svcOnce, closing, backing, claimed, gen, dOnce, runner, dclosed, op,
                     handle>>
    BY <1>7 DEF RemapDel, listeners, binding, driver
<2> QED
    BY <2>1, <2>2, ServiceAssumption, SMTT(90) DEF TypeInv, LockInv, Holds, Threads, Locking, Requesting,
       Driving, Sweeping
<1>8. ASSUME NEW t \in Threads, RemapReset(t) PROVE LockInv'
    BY <1>8, ServiceAssumption, SMTT(90) DEF RemapReset, LockInv, Holds, Threads, Locking, Requesting,
       Driving, Sweeping, Goto, tor, listeners, driver
<1>9. ASSUME NEW t \in Threads, RemapAdd(t) PROVE LockInv'
<2>1. \E l \in {"commit", "rollback", "fail", "dclose"} : pc' = [pc EXCEPT ![t] = l]
    BY <1>9, RemapAddEffect
<2>2. /\ pc[t] = "add" /\ cont' = [cont EXCEPT ![t] = "fail"]
      /\ UNCHANGED <<mu, svcOnce, closing, backing, claimed, gen, dOnce, runner, dclosed, op,
                     handle>>
    BY <1>9 DEF RemapAdd, binding, driver
<2> QED
    BY <2>1, <2>2, ServiceAssumption, SMTT(90) DEF TypeInv, LockInv, Holds, Threads, Locking, Requesting,
       Driving, Sweeping
<1>10. ASSUME NEW t \in Threads, RemapRollback(t) PROVE LockInv'
<2>1. \E l \in {"restored", "dclose"} : pc' = [pc EXCEPT ![t] = l]
    BY <1>10, RemapRollbackEffect
<2>2. /\ pc[t] = "rollback" /\ cont' = [cont EXCEPT ![t] = "fail"]
      /\ UNCHANGED <<mu, svcOnce, closing, backing, claimed, gen, dOnce, runner, dclosed, op,
                     handle>>
    BY <1>10 DEF RemapRollback, TypeInv, listeners, binding, driver
<2> QED
    BY <2>1, <2>2, ServiceAssumption, SMTT(90) DEF TypeInv, LockInv, Holds, Threads, Locking, Requesting,
       Driving, Sweeping
<1>11. ASSUME NEW t \in Threads, RemapRestored(t) PROVE LockInv'
    BY <1>11, ServiceAssumption DEF RemapRestored, TypeInv, LockInv, Holds, Threads, Locking,
       Requesting, Driving, Sweeping, Goto, tor, listeners, driver
<1>12. ASSUME NEW t \in Threads, Commit(t) PROVE LockInv'
    BY <1>12, ServiceAssumption, SMTT(90) DEF Commit, TypeInv, LockInv, Holds, Threads, Labels, Locking,
       Requesting, Driving, Sweeping, Goto, tor, driver
<1>13. ASSUME NEW t \in Threads, FailRequest(t) PROVE LockInv'
    BY <1>13, ServiceAssumption, SMTT(90) DEF FailRequest, TypeInv, LockInv, Holds, Threads, Locking,
       Requesting, Driving, Sweeping, Goto, tor, driver
<1>14. ASSUME NEW t \in Threads, WaitOnce(t) PROVE LockInv'
    BY <1>14, ServiceAssumption DEF WaitOnce, TypeInv, LockInv, Holds, Threads, Locking,
       Requesting, Driving, Sweeping, Goto, binding, driver
<1>15. ASSUME NEW t \in Threads, CloseLock(t) PROVE LockInv'
    BY <1>15, ServiceAssumption, SMTT(90) DEF CloseLock, TypeInv, LockInv, Holds, Threads, Locking,
       Requesting, Driving, Sweeping, Goto, tor, driver
<1>16. ASSUME NEW t \in Threads, CloseDel(t) PROVE LockInv'
<2>1. \E l \in {"srelease", "dclose"} : pc' = [pc EXCEPT ![t] = l]
    BY <1>16, CloseDelEffect
<2>2. /\ pc[t] = "sdel" /\ cont' = [cont EXCEPT ![t] = "srelease"]
      /\ UNCHANGED <<mu, svcOnce, closing, backing, claimed, gen, dOnce, runner, dclosed, op,
                     handle>>
    BY <1>16 DEF CloseDel, listeners, binding, driver
<2> QED
    BY <2>1, <2>2, SMTT(90) DEF TypeInv, LockInv, Holds, Labels, Locking, Requesting, Driving, Sweeping
<1>17. ASSUME NEW t \in Threads, CloseRelease(t) PROVE LockInv'
    BY <1>17, ServiceAssumption, SMTT(90) DEF CloseRelease, Unlock, TypeInv, LockInv, Holds, Threads,
       Locking, Requesting, Driving, Sweeping, Goto, driver
<1>18. ASSUME NEW t \in Threads, CloseReturn(t) PROVE LockInv'
    BY <1>18, SMTT(90) DEF CloseReturn, TypeInv, LockInv, Holds, Labels, Locking, Requesting, Driving,
       Sweeping, Goto, tor, listeners, driver
<1>19. ASSUME NEW t \in Threads, DriverClose(t) PROVE LockInv'
    BY <1>19, ServiceAssumption, SMTT(90) DEF DriverClose, TypeInv, LockInv, Holds, Threads, Locking,
       Requesting, Driving, Sweeping, Goto, binding, driver
<1>20. ASSUME NEW t \in Threads, DriverSnapshot(t) PROVE LockInv'
    BY <1>20, SMTT(90) DEF DriverSnapshot, TypeInv, LockInv, Holds, Labels, Locking, Requesting, Driving,
       Sweeping, Goto, tor, listeners, binding, driver
<1>21. ASSUME NEW t \in Threads, ScopeClose(t) PROVE LockInv'
    BY <1>21, ServiceAssumption, SMTT(90) DEF ScopeClose, AfterScope, TypeInv, LockInv, Holds, Threads,
       Locking, Requesting, Driving, Sweeping, Goto, tor, binding, driver
<1>22. ASSUME NEW t \in Threads, ClearKey(t) PROVE LockInv'
    BY <1>22, ServiceAssumption, SMTT(90) DEF ClearKey, AfterScope, TypeInv, LockInv, Holds, Threads,
       Locking, Requesting, Driving, Sweeping, Goto, binding, driver
<1>23. ASSUME NEW t \in Threads, DriverStop(t) PROVE LockInv'
    BY <1>23, ServiceAssumption, SMTT(90) DEF DriverStop, TypeInv, LockInv, Holds, Threads, Locking,
       Requesting, Driving, Sweeping, Goto, listeners, binding
<1>24. ASSUME NEW t \in Closers, CallDriverClose(t) PROVE LockInv'
    BY <1>24, ServiceAssumption, SMTT(90) DEF CallDriverClose, TypeInv, LockInv, Holds, Threads, Locking,
       Requesting, Driving, Sweeping, Goto, binding, driver
<1>25. CASE UNCHANGED vars
    BY <1>25 DEF vars, TypeInv, LockInv, Holds, Threads, Locking, Requesting, Driving, Sweeping,
       driver
<1> QED
    BY <1>1, <1>2, <1>3, <1>4, <1>5, <1>6, <1>7, <1>8, <1>9, <1>10, <1>11, <1>12, <1>13, <1>14,
       <1>15, <1>16, <1>17, <1>18, <1>19, <1>20, <1>21, <1>22, <1>23, <1>24, <1>25 DEF Next, Step,
       Finished

\* With Service.mu free nobody is in a section it protects (service.go:307, 375, 536).
LEMMA Unlocked ==
    ASSUME LockInv, mu = Nobody
    PROVE  \A u \in Threads : pc[u] \notin Working
<1>1. ASSUME NEW u \in Threads PROVE u # Nobody /\ ~Holds(u)
    BY ServiceAssumption DEF LockInv, Threads
<1> QED
    BY <1>1 DEF LockInv, Holds, Threads, Working, Locking, Requesting, Driving, Sweeping

\* While one goroutine is in a section Service.mu protects, no other works on
\* a request (service.go:307, 375, 536).
LEMMA Exclusive ==
    ASSUME LockInv, NEW t \in Threads, pc[t] \in Locking
    PROVE  /\ t \in Apps /\ mu = t
           /\ \A u \in Threads : u # t => pc[u] \notin Working
<1>1. t \in Apps
    BY DEF LockInv, Threads, Locking, Requesting, Driving, Sweeping
<1>2. mu = t
    BY <1>1 DEF LockInv, Holds
<1>3. ASSUME NEW u \in Threads, u # t, pc[u] \in Working PROVE FALSE
  <2>1. u \in Apps
      BY <1>3 DEF LockInv, Threads, Working, Requesting, Driving, Sweeping
  <2> QED
      BY <1>2, <1>3, <2>1 DEF LockInv, Holds, Working, Locking
<1> QED
    BY <1>1, <1>2, <1>3

\* A step of another kind leaves what is said about the requests true
\* (service.go:297-583).
LEMMA OpFrame ==
    ASSUME TypeInv, OpInv, UNCHANGED <<backing, gen, handle, op>>, NEW t \in Threads,
           NEW l, pc' = [pc EXCEPT ![t] = l], l \in Requesting => pc[t] \in Requesting
    PROVE  OpInv'
<1>1. \A u \in Threads : pc'[u] \in Requesting => pc[u] \in Requesting
    BY DEF TypeInv
<1> QED
    BY <1>1 DEF OpInv

\* A request changes the port it was made for, and nobody else changes that
\* port meanwhile (service.go:297-397).
LEMMA OpKept == TypeInv /\ LockInv /\ HandleInv /\ OpInv /\ [Next]_vars => OpInv'
<1> SUFFICES ASSUME TypeInv, LockInv, HandleInv, OpInv, ClaimInv, [Next]_vars PROVE OpInv'
    BY DEF ClaimInv
<1>0. Apps \subseteq Threads /\ Closers \subseteq Threads /\ pc \in [Threads -> Labels]
    BY DEF Threads, TypeInv
<1>1. ASSUME NEW t \in Apps, CallClose(t) PROVE OpInv'
    BY <1>0, <1>1, OpFrame, ZenonT(60) DEF CallClose, Goto, binding, Requesting
<1>2. ASSUME NEW t \in Apps, ListenerClose(t) PROVE OpInv'
<2>1. /\ handle[t].port \in Ports /\ handle[t].gen = gen[handle[t].port]
      /\ handle[t] = [port |-> handle[t].port, gen |-> handle[t].gen]
    BY <1>0, <1>2 DEF ListenerClose, RemovePort, Withdraws, HandleInv, TypeInv
<2>2. /\ mu = Nobody /\ UNCHANGED <<backing, gen, handle>>
      /\ op' = [op EXCEPT ![t] = [kind |-> "close", port |-> handle[t].port, cand |-> 0, was |-> active]]
      /\ pc' = [pc EXCEPT ![t] = Withdraw]
    BY <1>2 DEF ListenerClose, RemovePort, Goto, binding
<2>3. \A u \in Threads : pc[u] \notin Requesting
    BY <2>2, Unlocked DEF Working
<2> QED
    BY <1>0, <2>1, <2>2, <2>3 DEF TypeInv, OpInv
<1>3. ASSUME NEW t \in Apps, DropHandle(t) PROVE OpInv'
    BY <1>0, <1>3, SMTT(90) DEF DropHandle, OpInv, Requesting, binding
<1>4. ASSUME NEW t \in Apps, NEW p \in Ports, ListenClaim(t, p) PROVE OpInv'
    BY <1>0, <1>4, SMTT(90) DEF ListenClaim, OpInv, Requesting
<1>5. ASSUME NEW t \in Apps, NEW p \in Ports, ListenReopen(t, p) PROVE OpInv'
<2>1. FreshBacking \in Backings
    BY <1>5, Fresh, ZenonT(60) DEF ListenReopen
<2>2. /\ mu = Nobody /\ UNCHANGED <<backing, gen, handle>> /\ backing[p] = 0
      /\ op' = [op EXCEPT ![t] = [kind |-> "listen", port |-> p, cand |-> FreshBacking, was |-> active]]
      /\ pc' = [pc EXCEPT ![t] = Withdraw]
    BY <1>5 DEF ListenReopen, Goto, binding
<2>3. \A u \in Threads : pc[u] \notin Requesting
    BY <2>2, Unlocked DEF Working
<2> QED
    BY <1>0, <2>1, <2>2, <2>3 DEF TypeInv, OpInv
<1>6. ASSUME NEW t \in Apps, NEW p \in Ports, RemovePort(t, p, 0, "remove") PROVE OpInv'
<2>1. /\ mu = Nobody /\ UNCHANGED <<backing, gen, handle>>
      /\ op' = [op EXCEPT ![t] = [kind |-> "remove", port |-> p, cand |-> 0, was |-> active]]
      /\ pc' = [pc EXCEPT ![t] = Withdraw]
    BY <1>6 DEF RemovePort, Goto, binding
<2>2. \A u \in Threads : pc[u] \notin Requesting
    BY <2>1, Unlocked DEF Working
<2> QED
    BY <1>0, <2>1, <2>2 DEF TypeInv, OpInv
<1>7. ASSUME NEW t \in Threads, RemapDel(t) PROVE OpInv'
<2>1. \E l \in {"reset", "dclose"} : pc' = [pc EXCEPT ![t] = l]
    BY <1>7, RemapDelEffect
<2>2. pc[t] = "del" /\ UNCHANGED <<backing, gen, handle, op>>
    BY <1>7 DEF RemapDel, binding
<2> QED
    BY <2>1, <2>2, OpFrame, ZenonT(60) DEF Requesting
<1>8. ASSUME NEW t \in Threads, RemapReset(t) PROVE OpInv'
    BY <1>8, OpFrame, ZenonT(60) DEF RemapReset, Goto, binding, Requesting
<1>9. ASSUME NEW t \in Threads, RemapAdd(t) PROVE OpInv'
<2>1. \E l \in {"commit", "rollback", "fail", "dclose"} : pc' = [pc EXCEPT ![t] = l]
    BY <1>9, RemapAddEffect
<2>2. pc[t] = "add" /\ UNCHANGED <<backing, gen, handle, op>>
    BY <1>9 DEF RemapAdd, binding
<2> QED
    BY <2>1, <2>2, OpFrame, ZenonT(60) DEF Requesting
<1>10. ASSUME NEW t \in Threads, RemapRollback(t) PROVE OpInv'
<2>1. \E l \in {"restored", "dclose"} : pc' = [pc EXCEPT ![t] = l]
    BY <1>10, RemapRollbackEffect
<2>2. pc[t] = "rollback" /\ UNCHANGED <<backing, gen, handle, op>>
    BY <1>10 DEF RemapRollback, binding
<2> QED
    BY <2>1, <2>2, OpFrame, ZenonT(60) DEF Requesting
<1>11. ASSUME NEW t \in Threads, RemapRestored(t) PROVE OpInv'
    BY <1>11, OpFrame, ZenonT(60) DEF RemapRestored, Goto, binding, Requesting
<1>12. ASSUME NEW t \in Threads, Commit(t) PROVE OpInv'
<2>1. \A u \in Threads : u # t => pc[u] \notin Requesting
    BY <1>12, Exclusive DEF Commit, Working, Locking, Requesting
<2>2. pc' = [pc EXCEPT ![t] = "idle"]
    BY <1>12, ZenonT(60) DEF Commit, Goto
<2> QED
    BY <1>0, <2>1, <2>2 DEF OpInv, Requesting
<1>13. ASSUME NEW t \in Threads, FailRequest(t) PROVE OpInv'
<2>1. \A u \in Threads : u # t => pc[u] \notin Requesting
    BY <1>13, Exclusive DEF FailRequest, Working, Locking
<2>2. pc' = [pc EXCEPT ![t] = "idle"]
    BY <1>13, ZenonT(60) DEF FailRequest, Goto
<2> QED
    BY <1>0, <2>1, <2>2 DEF OpInv, Requesting
<1>14. ASSUME NEW t \in Threads, WaitOnce(t) PROVE OpInv'
    BY <1>14, OpFrame, ZenonT(60) DEF WaitOnce, Goto, binding, Requesting
<1>15. ASSUME NEW t \in Threads, CloseLock(t) PROVE OpInv'
    BY <1>15, OpFrame, ZenonT(60) DEF CloseLock, Goto, binding, Requesting
<1>16. ASSUME NEW t \in Threads, CloseDel(t) PROVE OpInv'
<2>1. \E l \in {"srelease", "dclose"} : pc' = [pc EXCEPT ![t] = l]
    BY <1>16, CloseDelEffect
<2>2. UNCHANGED <<backing, gen, handle, op>>
    BY <1>16 DEF CloseDel, binding
<2> QED
    BY <2>1, <2>2, OpFrame, ZenonT(60) DEF Requesting
<1>17. ASSUME NEW t \in Threads, CloseRelease(t) PROVE OpInv'
<2>1. \A u \in Threads : u # t => pc[u] \notin Requesting
    BY <1>17, Exclusive DEF CloseRelease, Working, Locking
<2>2. pc' = [pc EXCEPT ![t] = "scope"]
    BY <1>17, ZenonT(60) DEF CloseRelease, Goto
<2> QED
    BY <1>0, <2>1, <2>2 DEF OpInv, Requesting
<1>18. ASSUME NEW t \in Threads, CloseReturn(t) PROVE OpInv'
    BY <1>18, OpFrame, ZenonT(60) DEF CloseReturn, Goto, binding, Requesting
<1>19. ASSUME NEW t \in Threads, DriverClose(t) PROVE OpInv'
<2>1. cont[t] \notin Requesting
    BY DEF TypeInv, Requesting
<2> QED
    BY <1>19, <2>1, OpFrame, ZenonT(60) DEF DriverClose, Goto, binding, Requesting
<1>20. ASSUME NEW t \in Threads, DriverSnapshot(t) PROVE OpInv'
    BY <1>20, OpFrame, ZenonT(60) DEF DriverSnapshot, Goto, binding, Requesting
<1>21. ASSUME NEW t \in Threads, ScopeClose(t) PROVE OpInv'
    BY <1>21, OpFrame, ZenonT(60) DEF ScopeClose, AfterScope, Goto, binding, Requesting
<1>22. ASSUME NEW t \in Threads, ClearKey(t) PROVE OpInv'
    BY <1>22, OpFrame, ZenonT(60) DEF ClearKey, AfterScope, Goto, binding, Requesting
<1>23. ASSUME NEW t \in Threads, DriverStop(t) PROVE OpInv'
<2>1. cont[t] \notin Requesting
    BY DEF TypeInv, Requesting
<2> QED
    BY <1>23, <2>1, OpFrame, ZenonT(60) DEF DriverStop, Goto, binding
<1>24. ASSUME NEW t \in Closers, CallDriverClose(t) PROVE OpInv'
    BY <1>0, <1>24, OpFrame, ZenonT(60) DEF CallDriverClose, Goto, binding, Requesting
<1>25. CASE UNCHANGED vars
    BY <1>25 DEF vars, OpInv, binding
<1> QED
    BY <1>1, <1>2, <1>3, <1>4, <1>5, <1>6, <1>7, <1>8, <1>9, <1>10, <1>11, <1>12, <1>13, <1>14,
       <1>15, <1>16, <1>17, <1>18, <1>19, <1>20, <1>21, <1>22, <1>23, <1>24, <1>25, ZenonT(60) DEF
       Next, Step, Finished

\* A port is handed out to one holder at a time, and a withdrawn port makes
\* its listener stale (service.go:297-397, 623).
LEMMA HandleKept == TypeInv /\ LockInv /\ OpInv /\ HandleInv /\ [Next]_vars => HandleInv'
<1> SUFFICES ASSUME TypeInv, LockInv, OpInv, HandleInv, ClaimInv, [Next]_vars PROVE HandleInv'
    BY DEF ClaimInv
<1>a. /\ Apps \subseteq Threads /\ gen \in [Ports -> Nat \ {0}] /\ claimed \in [Ports -> BOOLEAN]
      /\ backing \in [Ports -> Backings \cup {0}]
      /\ handle \in [Threads -> [port : Ports \cup {Nobody}, gen : Nat]]
    BY DEF TypeInv, Threads
<1>b. \A q \in Ports : NoHandle # [port |-> q, gen |-> gen[q]]
    BY <1>a DEF NoHandle
<1>1. CASE UNCHANGED <<handle, gen, backing, claimed>>
    BY <1>1 DEF HandleInv
<1>2. ASSUME NEW t \in Apps, CallClose(t) PROVE HandleInv'
    BY <1>1, <1>2 DEF CallClose, binding
<1>3. ASSUME NEW t \in Apps, ListenerClose(t) PROVE HandleInv'
    BY <1>1, <1>3 DEF ListenerClose, RemovePort, binding
<1>4. ASSUME NEW t \in Apps, DropHandle(t) PROVE HandleInv'
<2>1. UNCHANGED <<gen, backing, claimed>> /\ \A u \in Threads : handle'[u] \in {handle[u], NoHandle}
    BY <1>a, <1>4 DEF DropHandle, binding
<2> QED
    BY <1>b, <2>1, SMTT(90) DEF HandleInv
<1>5. ASSUME NEW t \in Apps, NEW p \in Ports, ListenClaim(t, p) PROVE HandleInv'
<2>1. /\ claimed' = [claimed EXCEPT ![p] = TRUE] /\ UNCHANGED <<gen, backing>>
      /\ handle' = [handle EXCEPT ![t] = [port |-> p, gen |-> gen[p]]]
      /\ ~claimed[p] /\ backing[p] # 0
    BY <1>5 DEF ListenClaim
<2>2. \A u \in Threads : handle[u] # [port |-> p, gen |-> gen[p]]
    BY <2>1 DEF HandleInv
<2>3. gen[p] \in Nat \ {0}
    BY <1>a
<2>4. /\ handle'[t] = [port |-> p, gen |-> gen[p]]
      /\ \A u \in Threads : u # t => handle'[u] = handle[u]
      /\ claimed'[p] /\ \A q \in Ports : claimed[q] => claimed'[q]
    BY <1>a, <2>1
<2> QED
    BY <1>a, <2>1, <2>2, <2>3, <2>4, SMTT(90) DEF HandleInv
<1>6. ASSUME NEW t \in Apps, NEW p \in Ports, ListenReopen(t, p) PROVE HandleInv'
    BY <1>1, <1>6 DEF ListenReopen, binding
<1>7. ASSUME NEW t \in Apps, NEW p \in Ports, RemovePort(t, p, 0, "remove") PROVE HandleInv'
    BY <1>1, <1>7 DEF RemovePort, binding
<1>8. ASSUME NEW t \in Threads, RemapDel(t) PROVE HandleInv'
    BY <1>1, <1>8 DEF RemapDel, binding
<1>9. ASSUME NEW t \in Threads, RemapReset(t) PROVE HandleInv'
    BY <1>1, <1>9 DEF RemapReset, binding
<1>10. ASSUME NEW t \in Threads, RemapAdd(t) PROVE HandleInv'
    BY <1>1, <1>10 DEF RemapAdd, binding
<1>11. ASSUME NEW t \in Threads, RemapRollback(t) PROVE HandleInv'
    BY <1>1, <1>11 DEF RemapRollback, binding
<1>12. ASSUME NEW t \in Threads, RemapRestored(t) PROVE HandleInv'
    BY <1>1, <1>12 DEF RemapRestored, binding
<1>13. ASSUME NEW t \in Threads, Commit(t) PROVE HandleInv'
<2> DEFINE p == op[t].port
<2>1. /\ p \in Ports /\ gen' = [gen EXCEPT ![p] = @ + 1] /\ backing' = Desired(t)
      /\ op[t].kind \in {"listen", "remove", "close"} /\ (op[t].kind # "listen" => op[t].cand = 0)
    BY <1>13, ZenonT(60) DEF Commit, OpInv, Threads, Requesting
<2>2. gen[p] \in Nat \ {0} /\ gen'[p] = gen[p] + 1 /\ \A q \in Ports : q # p => gen'[q] = gen[q] /\ backing'[q] = backing[q]
    BY <1>a, <2>1 DEF Desired
<2>3. \A u \in Threads : handle[u] # [port |-> p, gen |-> gen'[p]]
  <3> HIDE DEF p
  <3>1. ASSUME NEW u \in Threads, handle[u] = [port |-> p, gen |-> gen'[p]] PROVE FALSE
    <4>1. handle[u].port = p /\ handle[u].gen = gen[p] + 1
        BY <2>2, <3>1, SMTT(90)
    <4>2. handle[u] # NoHandle
        BY <2>2, <4>1, SMTT(90) DEF NoHandle
    <4> QED
        BY <2>2, <4>1, <4>2, SMTT(90) DEF HandleInv
  <3> QED
      BY <3>1
<2>4. CASE op[t].kind = "listen"
  <3>1. /\ claimed' = [claimed EXCEPT ![p] = TRUE]
        /\ handle' = [handle EXCEPT ![t] = [port |-> p, gen |-> gen[p] + 1]]
      BY <1>13, <2>4, ZenonT(60) DEF Commit
  <3> HIDE DEF p
  <3>2. handle'[t] = [port |-> p, gen |-> gen'[p]] /\ \A u \in Threads : u # t => handle'[u] = handle[u]
      BY <1>a, <2>2, <3>1
  <3>3. \A u \in Threads :
          \/ handle'[u] = NoHandle
          \/ handle'[u].port \in Ports /\ handle'[u].gen # 0 /\ handle'[u].gen <= gen'[handle'[u].port]
    <4>1. handle'[t].port \in Ports /\ handle'[t].gen # 0 /\ handle'[t].gen <= gen'[handle'[t].port]
        BY <2>1, <2>2, <3>2, SMTT(90)
    <4>2. ASSUME NEW q \in Ports PROVE gen[q] \in Nat /\ gen'[q] \in Nat /\ gen[q] <= gen'[q]
        BY <1>a, <2>2, SMTT(90)
    <4>3. ASSUME NEW u \in Threads, u # t, handle[u] # NoHandle
          PROVE  handle[u].port \in Ports /\ handle[u].gen # 0 /\ handle[u].gen <= gen'[handle[u].port]
      <5>1. handle[u].port \in Ports /\ handle[u].gen \in Nat /\ handle[u].gen # 0
            /\ handle[u].gen <= gen[handle[u].port]
          BY <1>a, <4>3 DEF HandleInv
      <5> QED
          BY <5>1, <4>2, SMTT(90)
    <4> QED
        BY <3>2, <4>1, <4>3
  <3>4. \A u \in Threads : \A q \in Ports :
          (handle'[u] = [port |-> q, gen |-> gen'[q]] /\ backing'[q] # 0) => claimed'[q]
    <4> SUFFICES ASSUME NEW u \in Threads, NEW q \in Ports, handle'[u] = [port |-> q, gen |-> gen'[q]],
                        backing'[q] # 0, q # p
                 PROVE claimed[q]
        BY <1>a, <2>1, <3>1
    <4>1. u # t
        BY <3>2, SMTT(90)
    <4> QED
        BY <2>2, <3>2, <4>1, SMTT(90) DEF HandleInv
  <3>5. \A u, v \in Threads : \A q \in Ports :
          (/\ handle'[u] = [port |-> q, gen |-> gen'[q]]
           /\ handle'[v] = [port |-> q, gen |-> gen'[q]]
           /\ backing'[q] # 0) => u = v
    <4> SUFFICES ASSUME NEW u \in Threads, NEW v \in Threads, NEW q \in Ports, backing'[q] # 0,
                        handle'[u] = [port |-> q, gen |-> gen'[q]], handle'[v] = [port |-> q, gen |-> gen'[q]]
                 PROVE u = v
        OBVIOUS
    <4>1. CASE q = p
        BY <2>3, <3>2, <4>1, ZenonT(60)
    <4>2. CASE q # p
      <5>1. u # t /\ v # t
          BY <3>2, <4>2, SMTT(90)
      <5> QED
          BY <2>2, <3>2, <4>2, <5>1, SMTT(90) DEF HandleInv
    <4> QED
        BY <4>1, <4>2, ZenonT(60)
  <3> QED
      BY <3>3, <3>4, <3>5 DEF HandleInv
<2>5. CASE op[t].kind # "listen"
  <3>1. claimed' = [claimed EXCEPT ![p] = FALSE]
      BY <1>13, <2>5, ZenonT(60) DEF Commit
  <3>2. \A u \in Threads : handle'[u] = NoHandle \/ handle'[u] = handle[u]
    <4>1. handle' = [handle EXCEPT ![t] = IF op[t].kind = "close" THEN NoHandle ELSE @]
        BY <1>13, <2>5, ZenonT(60) DEF Commit
    <4> QED
        BY <1>a, <4>1
  <3>3. backing'[p] = 0
      BY <1>a, <2>1, <2>5 DEF Desired
  <3> HIDE DEF p
  <3>4. \A q \in Ports : NoHandle # [port |-> q, gen |-> gen'[q]]
    <4>1. ASSUME NEW q \in Ports PROVE gen'[q] # 0
        BY <1>a, <2>2, SMTT(90)
    <4> QED
        BY <4>1 DEF NoHandle
  <3>5. \A u \in Threads : \A q \in Ports :
          (handle'[u] = [port |-> q, gen |-> gen'[q]] /\ backing'[q] # 0) => q # p /\ handle[u] = [port |-> q, gen |-> gen[q]]
      BY <2>2, <3>2, <3>3, <3>4
  <3>6. \A q \in Ports : gen[q] <= gen'[q]
      BY <1>a, <2>1, <2>2, SMTT(90)
  <3>8. \A q \in Ports : (q # p /\ claimed[q]) => claimed'[q]
      BY <1>a, <3>1
  <3>7. \A u \in Threads :
          \/ handle'[u] = NoHandle
          \/ handle'[u].port \in Ports /\ handle'[u].gen # 0 /\ handle'[u].gen <= gen'[handle'[u].port]
    <4> SUFFICES ASSUME NEW u \in Threads, handle[u] # NoHandle, handle'[u] = handle[u]
                 PROVE handle[u].port \in Ports /\ handle[u].gen # 0 /\ handle[u].gen <= gen'[handle[u].port]
        BY <3>2
    <4> QED
      <5>1. handle[u].port \in Ports /\ handle[u].gen # 0 /\ handle[u].gen <= gen[handle[u].port]
          BY DEF HandleInv
      <5>2. \A q \in Ports : gen[q] \in Nat /\ gen'[q] \in Nat
          BY <1>a, <2>2, SMTT(90)
      <5>3. handle[u].gen \in Nat
          BY <1>a
      <5> QED
          BY <3>6, <5>1, <5>2, <5>3, SMTT(90)
  <3>9. \A u \in Threads : \A q \in Ports :
          (handle'[u] = [port |-> q, gen |-> gen'[q]] /\ backing'[q] # 0) => claimed'[q]
    <4> SUFFICES ASSUME NEW u \in Threads, NEW q \in Ports,
                        handle'[u] = [port |-> q, gen |-> gen'[q]], backing'[q] # 0
                 PROVE claimed'[q]
        BY ZenonT(60)
    <4>1. q # p /\ handle[u] = [port |-> q, gen |-> gen[q]]
        BY <3>5
    <4> QED
        BY <2>2, <3>8, <4>1, ZenonT(60) DEF HandleInv
  <3>10. \A u, v \in Threads : \A q \in Ports :
          (/\ handle'[u] = [port |-> q, gen |-> gen'[q]]
           /\ handle'[v] = [port |-> q, gen |-> gen'[q]]
           /\ backing'[q] # 0) => u = v
    <4> SUFFICES ASSUME NEW u \in Threads, NEW v \in Threads, NEW q \in Ports, backing'[q] # 0,
                        handle'[u] = [port |-> q, gen |-> gen'[q]], handle'[v] = [port |-> q, gen |-> gen'[q]]
                 PROVE u = v
        OBVIOUS
    <4>1. q # p /\ handle[u] = [port |-> q, gen |-> gen[q]]
        BY <3>5
    <4>2. handle[v] = [port |-> q, gen |-> gen[q]]
        BY <3>5
    <4> QED
        BY <2>2, <4>1, <4>2, ZenonT(60) DEF HandleInv
  <3> QED
      BY <3>7, <3>9, <3>10 DEF HandleInv
<2> QED
    BY <2>4, <2>5
<1>14. ASSUME NEW t \in Threads, FailRequest(t) PROVE HandleInv'
    BY <1>1, <1>14 DEF FailRequest, binding
<1>15. ASSUME NEW t \in Threads, WaitOnce(t) PROVE HandleInv'
    BY <1>1, <1>15 DEF WaitOnce, binding
<1>16. ASSUME NEW t \in Threads, CloseLock(t) PROVE HandleInv'
    BY <1>1, <1>16 DEF CloseLock, binding
<1>17. ASSUME NEW t \in Threads, CloseDel(t) PROVE HandleInv'
    BY <1>1, <1>17 DEF CloseDel, binding
<1>18. ASSUME NEW t \in Threads, CloseRelease(t) PROVE HandleInv'
<2>1. \A p \in Ports : backing'[p] = 0
    BY <1>18, ZenonT(60) DEF CloseRelease
<2>2. handle' = handle
    BY <1>18 DEF CloseRelease
<2>3. \A p \in Ports : gen'[p] \in Nat /\ gen[p] <= gen'[p]
  <3> SUFFICES ASSUME NEW p \in Ports PROVE gen'[p] \in Nat /\ gen[p] <= gen'[p]
      OBVIOUS
  <3>1. gen[p] \in Nat /\ gen'[p] \in {gen[p], gen[p] + 1}
      BY <1>a, <1>18 DEF CloseRelease
  <3> QED
      BY <3>1, SMTT(90)
<2>4. \A u \in Threads :
        \/ handle[u] = NoHandle
        \/ handle[u].port \in Ports /\ handle[u].gen # 0 /\ handle[u].gen <= gen'[handle[u].port]
  <3> SUFFICES ASSUME NEW u \in Threads, handle[u] # NoHandle
               PROVE handle[u].port \in Ports /\ handle[u].gen # 0 /\ handle[u].gen <= gen'[handle[u].port]
      OBVIOUS
  <3> QED
    <4>1. /\ handle[u].port \in Ports /\ handle[u].gen # 0 /\ handle[u].gen <= gen[handle[u].port]
          /\ handle[u].gen \in Nat /\ gen[handle[u].port] \in Nat
        BY <1>a DEF HandleInv
    <4> QED
        BY <2>3, <4>1, SMTT(90)
<2> QED
    BY <2>1, <2>2, <2>4, ZenonT(60) DEF HandleInv
<1>19. ASSUME NEW t \in Threads, CloseReturn(t) PROVE HandleInv'
    BY <1>1, <1>19 DEF CloseReturn, binding
<1>20. ASSUME NEW t \in Threads, DriverClose(t) PROVE HandleInv'
    BY <1>1, <1>20 DEF DriverClose, binding
<1>21. ASSUME NEW t \in Threads, DriverSnapshot(t) PROVE HandleInv'
    BY <1>1, <1>21 DEF DriverSnapshot, binding
<1>22. ASSUME NEW t \in Threads, ScopeClose(t) PROVE HandleInv'
    BY <1>1, <1>22 DEF ScopeClose, binding
<1>23. ASSUME NEW t \in Threads, ClearKey(t) PROVE HandleInv'
    BY <1>1, <1>23 DEF ClearKey, binding
<1>24. ASSUME NEW t \in Threads, DriverStop(t) PROVE HandleInv'
    BY <1>1, <1>24 DEF DriverStop, binding
<1>25. ASSUME NEW t \in Closers, CallDriverClose(t) PROVE HandleInv'
    BY <1>1, <1>25 DEF CallDriverClose, binding
<1>26. CASE UNCHANGED vars
    BY <1>1, <1>26 DEF vars, binding
<1> QED
    BY <1>2, <1>3, <1>4, <1>5, <1>6, <1>7, <1>8, <1>9, <1>10, <1>11, <1>12, <1>13, <1>14, <1>15,
       <1>16, <1>17, <1>18, <1>19, <1>20, <1>21, <1>22, <1>23, <1>24, <1>25, <1>26 DEF Next, Step,
       Finished

\* Until Driver.Close is called it takes no step, and the step that calls it
\* marks the driver closed (driver.go:599).
LEMMA DriverOpen ==
    ASSUME TypeInv, LockInv, ~dclosed, ~dclosed', NEW t \in Threads
    PROVE  ~DriverClose(t) /\ ~DriverSnapshot(t) /\ ~DriverStop(t)
<1>1. dOnce = "new"
    BY DEF LockInv
<1>2. pc[t] \notin {"snap", "dstop"}
    BY <1>1, ServiceAssumption DEF LockInv, Threads
<1> QED
    BY <1>1, <1>2 DEF DriverClose, DriverSnapshot, DriverStop

\* A step of another kind leaves what is said about the listeners true
\* (service.go:297-583).
LEMMA BackingFrame ==
    ASSUME TypeInv, BackingInv, UNCHANGED <<closing, backing, open, op>>, NEW t \in Threads,
           NEW l, pc' = [pc EXCEPT ![t] = l], l \in Working => pc[t] \in Working
    PROVE  BackingInv'
<1>1. \A u \in Threads : pc'[u] \in Working => pc[u] \in Working
    BY DEF TypeInv
<1> QED
    BY <1>1 DEF BackingInv, Working

\* A request to withdraw a port brings no listener (service.go:365).
LEMMA BackingHeld ==
    ASSUME TypeInv, LockInv, BackingInv, mu = Nobody, UNCHANGED <<closing, backing, open>>,
           NEW t \in Threads, NEW r, r.cand = 0, op' = [op EXCEPT ![t] = r],
           NEW l, pc' = [pc EXCEPT ![t] = l]
    PROVE  BackingInv'
<1>1. \A u \in Threads : pc[u] \notin Working
    BY Unlocked
<1>2. \A u \in Threads : IF u = t THEN op'[u].cand = 0 ELSE pc'[u] \notin Working
    BY <1>1 DEF TypeInv
<1> QED
    BY <1>2 DEF BackingInv, Working

\* Until the service closes, its listeners stay open and distinct, and the
\* candidate of a request is open and not in use (service.go:214, 297-397).
LEMMA BackingKept ==
    TypeInv /\ LockInv /\ ClaimInv /\ BackingInv /\ RequestInv /\ CloseInv /\
    TorTargetsOpen /\ ~dclosed /\ ~dclosed' /\ [Next]_vars => BackingInv'
<1> SUFFICES ASSUME TypeInv, LockInv, ClaimInv, BackingInv, RequestInv, CloseInv,
             TorTargetsOpen, ~dclosed, ~dclosed', [Next]_vars PROVE BackingInv'
    OBVIOUS
<1>0. Apps \subseteq Threads /\ Closers \subseteq Threads /\ pc \in [Threads -> Labels]
    BY DEF Threads, TypeInv
<1>1. ASSUME NEW t \in Apps, CallClose(t) PROVE BackingInv'
    BY <1>0, <1>1, BackingFrame, ZenonT(60) DEF CallClose, Goto, listeners, binding, Working, Requesting
<1>2. ASSUME NEW t \in Apps, ListenerClose(t) PROVE BackingInv'
<2> DEFINE r == [kind |-> "close", port |-> handle[t].port, cand |-> 0, was |-> active]
<2>1. /\ mu = Nobody /\ UNCHANGED <<closing, backing, open>>
      /\ op' = [op EXCEPT ![t] = r] /\ pc' = [pc EXCEPT ![t] = Withdraw]
    BY <1>2 DEF ListenerClose, RemovePort, HeldUntilAck, Goto, binding
<2>2. r.cand = 0
    OBVIOUS
<2> HIDE DEF r
<2> QED
    BY <1>0, <2>1, <2>2, BackingHeld, ZenonT(60)
<1>3. ASSUME NEW t \in Apps, DropHandle(t) PROVE BackingInv'
    BY <1>3 DEF DropHandle, listeners, binding, BackingInv
<1>4. ASSUME NEW t \in Apps, NEW p \in Ports, ListenClaim(t, p) PROVE BackingInv'
    BY <1>4 DEF ListenClaim, listeners, BackingInv
<1>5. ASSUME NEW t \in Apps, NEW p \in Ports, ListenReopen(t, p) PROVE BackingInv'
<2> DEFINE b == FreshBacking
<2>1. b \in Backings /\ b \notin made
    BY <1>5, Fresh, ZenonT(60) DEF ListenReopen
<2>2. /\ mu = Nobody /\ open' = open \cup {b} /\ UNCHANGED <<backing, closing>> /\ ~closing
      /\ op' = [op EXCEPT ![t] = [kind |-> "listen", port |-> p, cand |-> b, was |-> active]]
      /\ pc' = [pc EXCEPT ![t] = Withdraw]
    BY <1>5 DEF ListenReopen, Usable, Goto, binding
<2>3. \A u \in Threads : pc[u] \notin Working
    BY <2>2, Unlocked
<2>4. \A q \in Ports : backing[q] # b
  <3>1. b # 0
      BY <2>1, ServiceAssumption, SMTT(90) DEF Backings
  <3>2. open \subseteq made
      BY DEF TypeInv
  <3> QED
      BY <2>1, <2>2, <3>1, <3>2 DEF BackingInv
<2> HIDE DEF b
<2>5. op'[t].cand = b /\ \A u \in Threads : u # t => pc'[u] \notin Working
    BY <1>0, <2>2, <2>3 DEF TypeInv
<2> QED
    BY <2>2, <2>4, <2>5, SMTT(90) DEF BackingInv, Working
<1>6. ASSUME NEW t \in Apps, NEW p \in Ports, RemovePort(t, p, 0, "remove") PROVE BackingInv'
<2> DEFINE r == [kind |-> "remove", port |-> p, cand |-> 0, was |-> active]
<2>1. /\ mu = Nobody /\ UNCHANGED <<closing, backing, open>>
      /\ op' = [op EXCEPT ![t] = r] /\ pc' = [pc EXCEPT ![t] = Withdraw]
    BY <1>6 DEF RemovePort, HeldUntilAck, Goto, binding
<2>2. r.cand = 0
    OBVIOUS
<2> HIDE DEF r
<2> QED
    BY <1>0, <2>1, <2>2, BackingHeld, ZenonT(60)
<1>7. ASSUME NEW t \in Threads, RemapDel(t) PROVE BackingInv'
<2>1. pc[t] = "del" /\ UNCHANGED <<closing, backing, open, op>>
    BY <1>7 DEF RemapDel, listeners, binding
<2>2. \E l \in {"reset", "dclose"} : pc' = [pc EXCEPT ![t] = l]
    BY <1>7, RemapDelEffect
<2> QED
    BY <2>1, <2>2, BackingFrame, ZenonT(60) DEF Working, Requesting
<1>8. ASSUME NEW t \in Threads, RemapReset(t) PROVE BackingInv'
    BY <1>8, BackingFrame, ZenonT(60) DEF RemapReset, Goto, listeners, binding, Working, Requesting
<1>9. ASSUME NEW t \in Threads, RemapAdd(t) PROVE BackingInv'
<2>1. pc[t] = "add" /\ UNCHANGED <<closing, backing, open, op>>
    BY <1>9 DEF RemapAdd, listeners, binding
<2>2. \E l \in {"commit", "rollback", "fail", "dclose"} : pc' = [pc EXCEPT ![t] = l]
    BY <1>9, RemapAddEffect
<2> QED
    BY <2>1, <2>2, BackingFrame, ZenonT(60) DEF Working, Requesting
<1>10. ASSUME NEW t \in Threads, RemapRollback(t) PROVE BackingInv'
<2>1. pc[t] = "rollback" /\ UNCHANGED <<closing, backing, open, op>>
    BY <1>10 DEF RemapRollback, listeners, binding
<2>2. \E l \in {"restored", "dclose"} : pc' = [pc EXCEPT ![t] = l]
    BY <1>10, RemapRollbackEffect
<2> QED
    BY <2>1, <2>2, BackingFrame, ZenonT(60) DEF Working, Requesting
<1>11. ASSUME NEW t \in Threads, RemapRestored(t) PROVE BackingInv'
    BY <1>11, BackingFrame, ZenonT(60) DEF RemapRestored, Goto, listeners, binding, Working, Requesting
<1>12. ASSUME NEW t \in Threads, Commit(t) PROVE BackingInv'
<2> DEFINE p == op[t].port
           c == op[t].cand
<2>1. /\ pc[t] = "commit" /\ backing' = Desired(t) /\ UNCHANGED closing
      /\ pc' = [pc EXCEPT ![t] = "idle"]
    BY <1>12, ZenonT(60) DEF Commit, Goto
<2>2. p \in Ports /\ ~closing /\ backing \in [Ports -> Backings \cup {0}]
    BY <2>1 DEF ClaimInv, OpInv, CloseInv, TypeInv, Requesting
<2>3. \A u \in Threads : pc'[u] \notin Working
    BY <1>0, <2>1, Exclusive DEF Locking, Requesting, Working
<2>4. backing'[p] = c /\ \A q \in Ports : q # p => backing'[q] = backing[q]
    BY <2>1, <2>2 DEF Desired
<2>5. CASE op[t].kind = "listen"
  <3>1. open' = open
      BY <1>12, <2>5, ZenonT(60) DEF Commit
  <3>2. c \in Backings
      BY <2>1, <2>5, ZenonT(60) DEF ClaimInv, OpInv, Requesting
  <3>3. c # 0
      BY <3>2, ServiceAssumption, SMTT(90) DEF Backings
  <3>4. c \in open /\ \A q \in Ports : backing[q] # c
      BY <2>1, <3>3 DEF Requesting, BackingInv
  <3> HIDE DEF p, c
  <3> QED
      BY <2>2, <2>3, <2>4, <3>1, <3>3, <3>4 DEF Working, BackingInv
<2>6. CASE op[t].kind # "listen"
  <3>1. open' = open \ {backing[p]}
      BY <1>12, <2>6, ZenonT(60) DEF Commit
  <3>2. c = 0
      BY <2>1, <2>6, ZenonT(60) DEF ClaimInv, OpInv, Requesting
  <3> HIDE DEF p, c
  <3> QED
      BY <2>2, <2>3, <2>4, <3>1, <3>2 DEF Working, BackingInv
<2> QED
    BY <2>5, <2>6
<1>13. ASSUME NEW t \in Threads, FailRequest(t) PROVE BackingInv'
<2>1. /\ pc[t] = "fail" /\ UNCHANGED <<backing, closing>> /\ open' = open \ {op[t].cand}
      /\ pc' = [pc EXCEPT ![t] = "idle"]
    BY <1>13, ZenonT(60) DEF FailRequest, Goto, binding
<2>2. \A u \in Threads : pc'[u] \notin Working
    BY <1>0, <2>1, Exclusive DEF Locking, Requesting, Working
<2>3. op[t].cand # 0 => \A q \in Ports : backing[q] # op[t].cand
    BY <2>1 DEF BackingInv
<2> QED
    BY <2>1, <2>2, <2>3 DEF BackingInv, Working
<1>14. ASSUME NEW t \in Threads, WaitOnce(t) PROVE BackingInv'
    BY <1>14, BackingFrame, ZenonT(60) DEF WaitOnce, Goto, listeners, binding, Working, Requesting
<1>15. ASSUME NEW t \in Threads, CloseLock(t) PROVE BackingInv'
<2>1. mu = Nobody /\ closing' /\ pc'[t] \in {"sdel", "srelease"} /\ \A u \in Threads : u # t => pc'[u] = pc[u]
    BY <1>0, <1>15 DEF CloseLock, Goto
<2>2. \A u \in Threads : pc'[u] \notin Working
    BY <2>1, Unlocked DEF Working, Requesting
<2> QED
    BY <2>1, <2>2 DEF BackingInv, Working
<1>16. ASSUME NEW t \in Threads, CloseDel(t) PROVE BackingInv'
<2>1. pc[t] = "sdel" /\ UNCHANGED <<closing, backing, open, op>>
    BY <1>16 DEF CloseDel, listeners, binding
<2>2. \E l \in {"srelease", "dclose"} : pc' = [pc EXCEPT ![t] = l]
    BY <1>16, CloseDelEffect
<2> QED
    BY <2>1, <2>2, BackingFrame, ZenonT(60) DEF Working, Requesting
<1>17. ASSUME NEW t \in Threads, CloseRelease(t) PROVE BackingInv'
<2>1. pc[t] = "srelease" /\ pc' = [pc EXCEPT ![t] = "scope"] /\ UNCHANGED closing
    BY <1>17, ZenonT(60) DEF CloseRelease, Goto
<2>2. closing'
    BY <2>1 DEF LockInv
<2>3. \A u \in Threads : pc'[u] \notin Working
    BY <1>0, <2>1, Exclusive DEF Locking, Requesting, Working
<2> QED
    BY <2>2, <2>3 DEF BackingInv, Working
<1>18. ASSUME NEW t \in Threads, CloseReturn(t) PROVE BackingInv'
    BY <1>18, BackingFrame, ZenonT(60) DEF CloseReturn, Goto, listeners, binding, Working, Requesting
<1>19. ASSUME NEW t \in Threads, DriverClose(t) \/ DriverSnapshot(t) \/ DriverStop(t) PROVE BackingInv'
    BY <1>19, DriverOpen
<1>20. ASSUME NEW t \in Threads, ScopeClose(t) PROVE BackingInv'
<2>1. closing /\ \A u \in Threads : pc[u] \notin Working
    BY <1>20 DEF ScopeClose, CloseInv, Sweeping, Working
<2>2. UNCHANGED closing /\ \A u \in Threads : pc'[u] \in {pc[u], "key", "dstop", "sdone"}
    BY <1>0, <1>20 DEF ScopeClose, AfterScope, Goto
<2> QED
    BY <2>1, <2>2 DEF BackingInv, Working, Requesting
<1>21. ASSUME NEW t \in Threads, ClearKey(t) PROVE BackingInv'
    BY <1>21, BackingFrame, ZenonT(60) DEF ClearKey, AfterScope, Goto, listeners, binding, Working, Requesting
<1>22. ASSUME NEW t \in Closers, CallDriverClose(t) PROVE BackingInv'
    BY <1>0, <1>22, BackingFrame, ZenonT(60) DEF CallDriverClose, Goto, listeners, binding, Working, Requesting
<1>23. CASE UNCHANGED vars
    BY <1>23 DEF vars, listeners, binding, BackingInv
<1> QED
    BY <1>1, <1>2, <1>3, <1>4, <1>5, <1>6, <1>7, <1>8, <1>9, <1>10, <1>11, <1>12, <1>13, <1>14, <1>15,
       <1>16, <1>17, <1>18, <1>19, <1>20, <1>21, <1>22, <1>23, ZenonT(60) DEF Next, Step, Finished

\* Service.Close reaches the scope only after Tor has stopped serving, and
\* no request is under way while it does (service.go:534).
LEMMA CloseKept ==
    TypeInv /\ LockInv /\ ClaimInv /\ BackingInv /\ RequestInv /\ CloseInv /\
    TorTargetsOpen /\ ~dclosed /\ ~dclosed' /\ [Next]_vars => CloseInv'
<1> SUFFICES ASSUME TypeInv, LockInv, ClaimInv, BackingInv, RequestInv, CloseInv,
             TorTargetsOpen, ~dclosed, ~dclosed', [Next]_vars PROVE CloseInv'
    OBVIOUS
<1>1. ASSUME NEW t \in Apps, CallClose(t) PROVE CloseInv'
    BY <1>1, SMTT(90) DEF CallClose, TypeInv, Threads, Requesting, Sweeping, Goto, tor, CloseInv
<1>2. ASSUME NEW t \in Apps, ListenerClose(t) PROVE CloseInv'
    BY <1>2 DEF ListenerClose, RemovePort, Usable, Withdraws, HeldUntilAck, Withdraw, TypeInv,
       Sweeping, Goto, binding, driver, CloseInv
<1>3. ASSUME NEW t \in Apps, DropHandle(t) PROVE CloseInv'
    BY <1>3 DEF DropHandle, Usable, Withdraws, tor, CloseInv
<1>4. ASSUME NEW t \in Apps, NEW p \in Ports, ListenClaim(t, p) PROVE CloseInv'
    BY <1>4 DEF ListenClaim, Usable, tor, CloseInv
<1>5. ASSUME NEW t \in Apps, NEW p \in Ports, ListenReopen(t, p) PROVE CloseInv'
    BY <1>5 DEF ListenReopen, Usable, Withdraw, TypeInv, Sweeping, Goto, tor, CloseInv
<1>6. ASSUME NEW t \in Apps, NEW p \in Ports, RemovePort(t, p, 0, "remove") PROVE CloseInv'
    BY <1>6 DEF RemovePort, Usable, Withdraws, HeldUntilAck, Withdraw, TypeInv, Sweeping, Goto,
       tor, binding, driver, CloseInv
<1>7. ASSUME NEW t \in Threads, RemapDel(t) PROVE CloseInv'
<2>1. /\ pc[t] = "del" /\ pc' \in [Threads -> Labels]
      /\ UNCHANGED <<mu, svcOnce, closing, backing, made, open, active, scope, op>>
    BY <1>7, RemapDelEffect, ZenonT(60) DEF RemapDel, TypeInv, listeners, binding, driver
<2>2. \E l \in {"reset", "dclose"} : pc' = [pc EXCEPT ![t] = l]
    BY <1>7, RemapDelEffect
<2> QED
    BY <2>1, <2>2, SMTT(90) DEF TypeInv, Requesting, Sweeping, CloseInv
<1>8. ASSUME NEW t \in Threads, RemapReset(t) PROVE CloseInv'
    BY <1>8 DEF RemapReset, TypeInv, Requesting, Sweeping, Goto, tor, CloseInv
<1>9. ASSUME NEW t \in Threads, RemapAdd(t) PROVE CloseInv'
<2>1. /\ pc[t] = "add" /\ pc' \in [Threads -> Labels]
      /\ UNCHANGED <<mu, svcOnce, closing, backing, made, open, active, scope, op>>
    BY <1>9, RemapAddEffect, ZenonT(60) DEF RemapAdd, listeners, binding
<2>2. \E l \in {"commit", "rollback", "fail", "dclose"} : pc' = [pc EXCEPT ![t] = l]
    BY <1>9, RemapAddEffect
<2>3. ~closing
    BY <2>1 DEF TypeInv, Requesting, Sweeping, CloseInv
<2> QED
    BY <2>1, <2>2, <2>3, ServiceAssumption, SMTT(90) DEF TypeInv, LockInv, Holds, Threads, Labels, Locking,
       Requesting, Driving, Sweeping, CloseInv
<1>10. ASSUME NEW t \in Threads, RemapRollback(t) PROVE CloseInv'
<2>1. /\ pc[t] = "rollback" /\ pc' \in [Threads -> Labels]
      /\ UNCHANGED <<mu, svcOnce, closing, backing, made, open, active, scope, op>>
    BY <1>10, RemapRollbackEffect, ZenonT(60) DEF RemapRollback, listeners, binding, driver
<2>2. \E l \in {"restored", "dclose"} : pc' = [pc EXCEPT ![t] = l]
    BY <1>10, RemapRollbackEffect
<2>3. ~closing
    BY <2>1 DEF TypeInv, Requesting, Sweeping, CloseInv
<2> QED
    BY <2>1, <2>2, <2>3, SMTT(90) DEF TypeInv, LockInv, Threads, Labels, Locking, Driving, Sweeping, CloseInv
<1>11. ASSUME NEW t \in Threads, RemapRestored(t) PROVE CloseInv'
    BY <1>11 DEF RemapRestored, TypeInv, Threads, Requesting, Sweeping, Goto, tor, CloseInv
<1>12. ASSUME NEW t \in Threads, Commit(t) PROVE CloseInv'
    BY <1>12 DEF Commit, TypeInv, Requesting, Sweeping, Goto, tor, CloseInv
<1>13. ASSUME NEW t \in Threads, FailRequest(t) PROVE CloseInv'
    BY <1>13 DEF FailRequest, TypeInv, Threads, Labels, Requesting, Driving, Sweeping, Goto, tor,
       binding, driver, CloseInv
<1>14. ASSUME NEW t \in Threads, WaitOnce(t) PROVE CloseInv'
    BY <1>14 DEF WaitOnce, TypeInv, Threads, Labels, Locking, Requesting, Driving, Sweeping, Goto,
       tor, listeners, binding, driver, CloseInv
<1>15. ASSUME NEW t \in Threads, CloseLock(t) PROVE CloseInv'
<2>1. /\ mu = Nobody /\ ~closing /\ pc[t] = "slock" /\ svcOnce = "running"
      /\ UNCHANGED <<svcOnce, scope, torUp>> /\ closing' = TRUE
    BY <1>15 DEF CloseLock, Goto, tor, listeners, driver, CloseInv
<2>2. \A u \in Threads : u # t => pc[u] \notin Requesting \cup {"fail", "slock", "srelease", "sdone"} \cup Sweeping
    BY <2>1, ServiceAssumption, SMTT(90) DEF TypeInv, LockInv, Holds, Threads, Labels, Locking, Requesting,
       Driving, Sweeping, CloseInv
<2>3. CASE active
  <3>1. pc' = [pc EXCEPT ![t] = "sdel"]
      BY <1>15, <2>3 DEF CloseLock, TypeInv, Goto, tor, listeners, binding, driver
  <3> QED
      BY <2>1, <2>2, <3>1 DEF TypeInv, Threads, Labels, Locking, Requesting, Driving, Sweeping,
         CloseInv
<2>4. CASE ~active
  <3>1. pc' = [pc EXCEPT ![t] = "srelease"]
      BY <1>15, <2>4 DEF CloseLock, TypeInv, Goto, tor, listeners, binding, driver
  <3>2. ~torUp
      BY <2>1, <2>4 DEF RequestInv, Agree
  <3> QED
      BY <2>1, <2>2, <3>1, <3>2 DEF TypeInv, Threads, Labels, Locking, Requesting, Driving,
         Sweeping, CloseInv
<2> QED
    BY <2>3, <2>4
<1>16. ASSUME NEW t \in Threads, CloseDel(t) PROVE CloseInv'
<2>1. /\ pc[t] = "sdel" /\ closing
      /\ UNCHANGED <<mu, svcOnce, closing, scope>>
    BY <1>16 DEF CloseDel, LockInv, Requesting, Driving, Sweeping, listeners, driver, CloseInv
<2>2. CASE pc' = [pc EXCEPT ![t] = "srelease"] /\ ~torUp'
    BY <2>1, <2>2 DEF TypeInv, Threads, Labels, Locking, Requesting, Driving, Sweeping, CloseInv
<2>3. CASE pc' = [pc EXCEPT ![t] = "dclose"] /\ (torUp' => torUp)
    BY <2>1, <2>3 DEF TypeInv, Threads, Labels, Requesting, Driving, Sweeping, CloseInv
<2> QED
    BY <1>16, <2>2, <2>3, CloseDelEffect
<1>17. ASSUME NEW t \in Threads, CloseRelease(t) PROVE CloseInv'
    BY <1>17, ZenonT(60) DEF CloseRelease, Unlock, TypeInv, Threads, Labels, Requesting, Driving,
       Goto, tor, driver, CloseInv
<1>18. ASSUME NEW t \in Threads, CloseReturn(t) PROVE CloseInv'
    BY <1>18 DEF CloseReturn, TypeInv, Threads, Labels, Requesting, Driving, Sweeping, Goto, tor,
       listeners, binding, driver, CloseInv
<1>19. ASSUME NEW t \in Threads, DriverClose(t) PROVE CloseInv'
    BY <1>19 DEF DriverClose, LockInv, Holds, Threads, Driving, Sweeping, Goto, tor, listeners,
       binding, driver, CloseInv
<1>20. ASSUME NEW t \in Threads, DriverSnapshot(t) PROVE CloseInv'
    BY <1>20, ServiceAssumption, SMTT(90) DEF DriverSnapshot, TypeInv, LockInv, Holds, Threads, Labels,
       Locking, Requesting, Driving, Sweeping, Goto, tor, listeners, binding, driver, CloseInv
<1>21. ASSUME NEW t \in Threads, ScopeClose(t) PROVE CloseInv'
    BY <1>21, ServiceAssumption, SMTT(90) DEF ScopeClose, AfterScope, TypeInv, LockInv, Holds, Threads,
       Labels, Locking, Requesting, Driving, Sweeping, Goto, tor, binding, driver, CloseInv
<1>22. ASSUME NEW t \in Threads, ClearKey(t) PROVE CloseInv'
    BY <1>22, SMTT(90) DEF ClearKey, AfterScope, Threads, Requesting, Sweeping, Goto, tor, listeners,
       CloseInv
<1>23. ASSUME NEW t \in Threads, DriverStop(t) PROVE CloseInv'
    BY <1>23, ServiceAssumption, SMTT(90) DEF DriverStop, TypeInv, LockInv, Threads, Requesting, Driving,
       Sweeping, Goto, listeners, binding, CloseInv
<1>24. ASSUME NEW t \in Closers, CallDriverClose(t) PROVE CloseInv'
    BY <1>24, SMTT(90) DEF CallDriverClose, Requesting, Sweeping, Goto, tor, listeners, binding, CloseInv
<1>25. CASE UNCHANGED vars
    BY <1>25 DEF vars, tor, CloseInv
<1> QED
    BY <1>1, <1>2, <1>3, <1>4, <1>5, <1>6, <1>7, <1>8, <1>9, <1>10, <1>11, <1>12, <1>13, <1>14,
       <1>15, <1>16, <1>17, <1>18, <1>19, <1>20, <1>21, <1>22, <1>23, <1>24, <1>25, ZenonT(60) DEF
       Next, Step, Finished

\* No step closes a listener Tor forwards to (service.go:393, 556).
LEMMA TargetsKept ==
    TypeInv /\ LockInv /\ ClaimInv /\ BackingInv /\ RequestInv /\ CloseInv /\
    TorTargetsOpen /\ ~dclosed /\ ~dclosed' /\ [Next]_vars => TorTargetsOpen'
<1> SUFFICES ASSUME TypeInv, LockInv, ClaimInv, BackingInv, RequestInv, CloseInv,
             TorTargetsOpen, ~dclosed, ~dclosed', [Next]_vars PROVE TorTargetsOpen'
    OBVIOUS
<1>1. CASE UNCHANGED <<torUp, torMap, open>>
    BY <1>1 DEF TorTargetsOpen
<1>2. ASSUME NEW t \in Apps, CallClose(t) PROVE TorTargetsOpen'
    BY <1>1, <1>2 DEF CallClose, Goto, tor, listeners, binding, driver
<1>3. ASSUME NEW t \in Apps, ListenerClose(t) PROVE TorTargetsOpen'
    BY <1>3 DEF ListenerClose, RemovePort, Usable, Withdraws, HeldUntilAck, Withdraw, tor,
       TorTargetsOpen
<1>4. ASSUME NEW t \in Apps, DropHandle(t) PROVE TorTargetsOpen'
    BY <1>1, <1>4 DEF DropHandle, tor, listeners, binding, driver
<1>5. ASSUME NEW t \in Apps, NEW p \in Ports, ListenClaim(t, p) PROVE TorTargetsOpen'
    BY <1>1, <1>5 DEF ListenClaim, tor, listeners, driver
<1>6. ASSUME NEW t \in Apps, NEW p \in Ports, ListenReopen(t, p) PROVE TorTargetsOpen'
    BY <1>6 DEF ListenReopen, Usable, Withdraw, tor, TorTargetsOpen
<1>7. ASSUME NEW t \in Apps, NEW p \in Ports, RemovePort(t, p, 0, "remove") PROVE TorTargetsOpen'
    BY <1>7 DEF RemovePort, Usable, Withdraws, HeldUntilAck, Withdraw, Goto, tor, TorTargetsOpen
<1>8. ASSUME NEW t \in Threads, RemapDel(t) PROVE TorTargetsOpen'
    BY <1>8, RemapDelEffect, ZenonT(60) DEF RemapDel, listeners, binding, driver, TorTargetsOpen
<1>9. ASSUME NEW t \in Threads, RemapReset(t) PROVE TorTargetsOpen'
    BY <1>1, <1>9 DEF RemapReset, TypeInv, Goto, tor, listeners
<1>10. ASSUME NEW t \in Threads, RemapAdd(t) PROVE TorTargetsOpen'
<2>1. open' = open /\ ~closing /\ pc[t] = "add"
    BY <1>10 DEF RemapAdd, CloseInv, Threads, Requesting, Sweeping, listeners, binding, driver
<2>2. CASE torUp' = torUp /\ torMap' = torMap
    BY <2>1, <2>2 DEF TorTargetsOpen
<2>3. CASE torMap' = Desired(t)
  <3>1. \A q \in Ports : Desired(t)[q] = 0 \/ Desired(t)[q] \in open
      BY <2>1, SMTT(90) DEF Desired, BackingInv, ClaimInv, OpInv, Requesting, TorTargetsOpen
  <3> QED
      BY <2>1, <2>3, <3>1 DEF TorTargetsOpen
<2> QED
    BY <1>10, <2>2, <2>3, RemapAddEffect
<1>11. ASSUME NEW t \in Threads, RemapRollback(t) PROVE TorTargetsOpen'
<2>1. open' = open /\ ~closing /\ pc[t] = "rollback"
    BY <1>11 DEF RemapRollback, CloseInv, Threads, Requesting, Sweeping, listeners, binding,
       driver, TorTargetsOpen
<2>2. CASE torUp' = torUp /\ torMap' = torMap
    BY <2>1, <2>2 DEF TorTargetsOpen
<2>3. CASE torMap' = backing
  <3>1. \A q \in Ports : backing[q] = 0 \/ backing[q] \in open
      BY <2>1 DEF BackingInv
  <3> QED
      BY <2>1, <2>3, <3>1 DEF TorTargetsOpen
<2> QED
    BY <1>11, <2>2, <2>3, RemapRollbackEffect
<1>12. ASSUME NEW t \in Threads, RemapRestored(t) PROVE TorTargetsOpen'
    BY <1>1, <1>12 DEF RemapRestored, TypeInv, Goto, tor, listeners, binding, driver
<1>13. ASSUME NEW t \in Threads, Commit(t) PROVE TorTargetsOpen'
<2> DEFINE p == op[t].port
<2>1. p \in Ports /\ pc[t] = "commit" /\ ~closing /\ UNCHANGED <<torUp, torMap>>
    BY <1>13, ZenonT(60) DEF Commit, ClaimInv, OpInv, CloseInv, Requesting, Goto, tor, driver,
       TorTargetsOpen
<2>2. CASE op[t].kind = "listen"
  <3>1. open' = open
      BY <1>13, <2>2, ZenonT(60) DEF Commit
  <3> QED
      BY <2>1, <3>1 DEF TorTargetsOpen
<2>3. CASE op[t].kind # "listen"
  <3>1. open' = open \ {backing[p]}
      BY <1>13, <2>3, ZenonT(60) DEF Commit
  <3>2. op[t].cand = 0
      BY <2>1, <2>3, ZenonT(60) DEF ClaimInv, OpInv, Requesting, TorTargetsOpen
  <3>3. torUp => torMap = Desired(t)
      BY <2>1, ZenonT(60) DEF RequestInv, At
  <3>4. \A q \in Ports : Desired(t)[q] # 0 => q # p /\ Desired(t)[q] = backing[q]
      BY <2>1, <3>2, ZenonT(60) DEF Desired, TypeInv
  <3>5. \A q \in Ports : (q # p /\ backing[q] # 0) => backing[q] # backing[p]
      BY <2>1 DEF BackingInv
  <3> HIDE DEF p
  <3> QED
      BY <2>1, <3>1, <3>3, <3>4, <3>5 DEF TorTargetsOpen
<2> QED
    BY <2>2, <2>3
<1>14. ASSUME NEW t \in Threads, FailRequest(t) PROVE TorTargetsOpen'
<2>1. open' = open \ {op[t].cand} /\ pc[t] = "fail" /\ ~closing /\ UNCHANGED <<torUp, torMap>>
    BY <1>14 DEF FailRequest, CloseInv, Goto, tor, binding, driver
<2>2. torUp => torMap = backing
    BY <2>1 DEF RequestInv, At, Agree
<2>3. \A q \in Ports : backing[q] # 0 => backing[q] # op[t].cand
    BY <2>1 DEF BackingInv
<2> QED
    BY <2>1, <2>2, <2>3 DEF TorTargetsOpen
<1>15. ASSUME NEW t \in Threads, WaitOnce(t) PROVE TorTargetsOpen'
    BY <1>1, <1>15 DEF WaitOnce, Goto, tor, listeners, binding, driver
<1>16. ASSUME NEW t \in Threads, CloseLock(t) PROVE TorTargetsOpen'
    BY <1>1, <1>16 DEF CloseLock, Goto, tor, listeners, binding, driver
<1>17. ASSUME NEW t \in Threads, CloseDel(t) PROVE TorTargetsOpen'
    BY <1>17, CloseDelEffect, ZenonT(60) DEF CloseDel, listeners, binding, TorTargetsOpen
<1>18. ASSUME NEW t \in Threads, CloseRelease(t) PROVE TorTargetsOpen'
    BY <1>18 DEF CloseRelease, CloseInv, Goto, tor, TorTargetsOpen
<1>19. ASSUME NEW t \in Threads, CloseReturn(t) PROVE TorTargetsOpen'
    BY <1>1, <1>19 DEF CloseReturn, Goto, tor, listeners, driver
<1>20. ASSUME NEW t \in Threads, DriverClose(t) PROVE TorTargetsOpen'
    BY <1>1, <1>20 DEF DriverClose, Goto, tor, listeners, binding, driver
<1>21. ASSUME NEW t \in Threads, DriverSnapshot(t) PROVE TorTargetsOpen'
    BY <1>1, <1>21 DEF DriverSnapshot, Goto, tor, listeners, binding, driver
<1>22. ASSUME NEW t \in Threads, ScopeClose(t) PROVE TorTargetsOpen'
    BY <1>22 DEF ScopeClose, CloseInv, Requesting, Sweeping, Goto, tor, binding, driver,
       TorTargetsOpen
<1>23. ASSUME NEW t \in Threads, ClearKey(t) PROVE TorTargetsOpen'
    BY <1>1, <1>23 DEF ClearKey, Goto, tor, listeners, binding, driver
<1>24. ASSUME NEW t \in Threads, DriverStop(t) PROVE TorTargetsOpen'
    BY <1>24 DEF DriverStop, TorTargetsOpen
<1>25. ASSUME NEW t \in Closers, CallDriverClose(t) PROVE TorTargetsOpen'
    BY <1>1, <1>25 DEF CallDriverClose, Goto, tor, listeners, driver
<1>26. CASE UNCHANGED vars
    BY <1>1, <1>26 DEF vars, tor, listeners, driver
<1> QED
    BY <1>2, <1>3, <1>4, <1>5, <1>6, <1>7, <1>8, <1>9, <1>10, <1>11, <1>12, <1>13, <1>14, <1>15,
       <1>16, <1>17, <1>18, <1>19, <1>20, <1>21, <1>22, <1>23, <1>24, <1>25, <1>26 DEF Next, Step,
       Finished

\* A goroutine whose call is not at work on the mapping says nothing about
\* it (service.go:400).
LEMMA Assembled ==
    ASSUME NEW t \in Threads, (mu' = Nobody /\ ~closing') => Agree', At(t)',
           \A u \in Threads : u # t => pc'[u] \notin Working
    PROVE  RequestInv'
<1> SUFFICES ASSUME NEW u \in Threads, u # t PROVE At(u)'
    BY DEF RequestInv
<1> QED
    BY DEF At, Working, Requesting

\* A step that leaves the mapping alone leaves what is said about it true.
\* (Driver.Close, waiting for Service.once, claiming a port: service.go:297-583).
LEMMA Untouched ==
    ASSUME RequestInv, UNCHANGED <<active, torUp, torMap, backing, op, mu, closing>>,
           \A u \in Threads : pc'[u] = pc[u] \/ pc'[u] \notin Working
    PROVE  RequestInv'
<1>1. Agree' <=> Agree
    BY DEF Agree
<1>2. ASSUME NEW u \in Threads PROVE At(u)'
  <2>1. At(u)
      BY DEF RequestInv
  <2>2. Desired(u)' = Desired(u)
      BY DEF Desired
  <2>3. CASE pc'[u] = pc[u]
    <3> HIDE DEF Agree, Desired
    <3> QED
        BY <1>1, <2>1, <2>2, <2>3 DEF At
  <2>4. CASE pc'[u] \notin Working
      BY <2>4 DEF At, Working, Requesting
  <2> QED
      BY <2>3, <2>4
<1> QED
    BY <1>1, <1>2 DEF RequestInv

\* Taking Service.mu for a request, while the service and Tor agree
\* (service.go:307, 375).
LEMMA Taken ==
    ASSUME TypeInv, LockInv, RequestInv, NEW t \in Apps, mu = Nobody, ~closing, mu' = t,
           UNCHANGED <<active, torUp, torMap, backing>>, pc' = [pc EXCEPT ![t] = Withdraw]
    PROVE  RequestInv'
<1> USE DEF Threads
<1>1. Agree
    BY DEF RequestInv
<1>2. \A u \in Threads : u # t => pc'[u] \notin Working
    BY Unlocked DEF TypeInv
<1>3. pc'[t] = Withdraw
    BY DEF TypeInv
<1>4. At(t)'
  <2>1. CASE active
      BY <1>3, <2>1, SMTT(90) DEF At, Withdraw
  <2>2. CASE ~active
    <3>1. pc'[t] = "reset" /\ ~torUp'
        BY <1>1, <1>3, <2>2 DEF Withdraw, Agree
    <3> QED
        BY <3>1 DEF At
  <2> QED
      BY <2>1, <2>2
<1>5. mu' # Nobody
    BY ServiceAssumption
<1> QED
    BY <1>2, <1>4, <1>5, Assembled

\* What Tor serves follows the position of the request that holds the lock,
\* and is what the service believes between requests (service.go:400).
LEMMA RequestKept ==
    TypeInv /\ LockInv /\ ClaimInv /\ BackingInv /\ RequestInv /\ CloseInv /\
    TorTargetsOpen /\ ~dclosed /\ ~dclosed' /\ [Next]_vars => RequestInv'
<1> SUFFICES ASSUME TypeInv, LockInv, ClaimInv, BackingInv, RequestInv, CloseInv,
             TorTargetsOpen, ~dclosed, ~dclosed', [Next]_vars PROVE RequestInv'
    OBVIOUS
<1>0. Apps \subseteq Threads /\ Closers \subseteq Threads /\ pc \in [Threads -> Labels]
    BY DEF Threads, TypeInv
<1>1. ASSUME NEW t \in Apps, CallClose(t) PROVE RequestInv'
<2>1. UNCHANGED <<active, torUp, torMap, backing, op, mu, closing>>
    BY <1>1 DEF CallClose, tor, listeners, binding
<2>2. \A u \in Threads : pc'[u] = pc[u] \/ pc'[u] \notin Working
    BY <1>0, <1>1 DEF CallClose, Goto, Working, Requesting
<2> QED
    BY <2>1, <2>2, Untouched
<1>2. ASSUME NEW t \in Apps, ListenerClose(t) PROVE RequestInv'
<2>1. /\ mu = Nobody /\ ~closing /\ mu' = t /\ pc' = [pc EXCEPT ![t] = Withdraw]
      /\ UNCHANGED <<active, torUp, torMap, backing>>
    BY <1>2 DEF ListenerClose, RemovePort, Usable, Goto, tor, binding
<2> QED
    BY <2>1, Taken, ZenonT(60)
<1>3. ASSUME NEW t \in Apps, DropHandle(t) PROVE RequestInv'
<2>1. UNCHANGED <<active, torUp, torMap, backing, op, mu, closing>>
    BY <1>3 DEF DropHandle, tor, listeners, binding
<2>2. \A u \in Threads : pc'[u] = pc[u] \/ pc'[u] \notin Working
    BY <1>3 DEF DropHandle
<2> QED
    BY <2>1, <2>2, Untouched
<1>4. ASSUME NEW t \in Apps, NEW p \in Ports, ListenClaim(t, p) PROVE RequestInv'
<2>1. UNCHANGED <<active, torUp, torMap, backing, op, mu, closing>>
    BY <1>4 DEF ListenClaim, tor, listeners
<2>2. \A u \in Threads : pc'[u] = pc[u] \/ pc'[u] \notin Working
    BY <1>4 DEF ListenClaim
<2> QED
    BY <2>1, <2>2, Untouched
<1>5. ASSUME NEW t \in Apps, NEW p \in Ports, ListenReopen(t, p) PROVE RequestInv'
<2>1. /\ mu = Nobody /\ ~closing /\ mu' = t /\ pc' = [pc EXCEPT ![t] = Withdraw]
      /\ UNCHANGED <<active, torUp, torMap, backing>>
    BY <1>5 DEF ListenReopen, Usable, Goto, tor, binding
<2> QED
    BY <2>1, Taken, ZenonT(60)
<1>6. ASSUME NEW t \in Apps, NEW p \in Ports, RemovePort(t, p, 0, "remove") PROVE RequestInv'
<2>1. /\ mu = Nobody /\ ~closing /\ mu' = t /\ pc' = [pc EXCEPT ![t] = Withdraw]
      /\ UNCHANGED <<active, torUp, torMap, backing>>
    BY <1>6 DEF RemovePort, Usable, Goto, tor, binding
<2> QED
    BY <2>1, Taken, ZenonT(60)
<1>7. ASSUME NEW t \in Threads, RemapDel(t) PROVE RequestInv'
<2>1. mu = t /\ mu' = t /\ \A u \in Threads : u # t => pc[u] \notin Working
    BY <1>7, Exclusive DEF RemapDel, Locking, Requesting
<2>2. \E l \in Labels : pc' = [pc EXCEPT ![t] = l]
    BY <1>7, RemapDelEffect
<2>3. /\ mu' # Nobody /\ \A u \in Threads : u # t => pc'[u] \notin Working
    BY <1>0, <2>1, <2>2, ServiceAssumption DEF Threads
<2>4. At(t)
    BY DEF RequestInv
<2>5. CASE pc' = [pc EXCEPT ![t] = "reset"] /\ ~torUp'
  <3>1. At(t)'
      BY <1>0, <2>5, ZenonT(60) DEF At
  <3> QED
      BY <2>3, <3>1, Assembled
<2>6. CASE pc' = [pc EXCEPT ![t] = "dclose"]
  <3>1. At(t)'
      BY <1>0, <2>6, ZenonT(60) DEF At
  <3> QED
      BY <2>3, <3>1, Assembled
<2> QED
    BY <1>7, <2>5, <2>6, RemapDelEffect
<1>8. ASSUME NEW t \in Threads, RemapReset(t) PROVE RequestInv'
<2>1. /\ pc[t] = "reset" /\ ~active' /\ UNCHANGED <<mu, torUp, backing, op>>
      /\ pc' = [pc EXCEPT ![t] = IF \A p \in Ports : Desired(t)[p] = 0 THEN "commit" ELSE "add"]
    BY <1>8 DEF RemapReset, Goto, tor, binding
<2>2. /\ mu' # Nobody /\ \A u \in Threads : u # t => pc'[u] \notin Working
    BY <1>0, <2>1, Exclusive, ServiceAssumption DEF Threads, Locking, Requesting
<2>3. ~torUp'
    BY <2>1 DEF RequestInv, At
<2>4. Desired(t)' = Desired(t)
    BY <2>1 DEF Desired
<2>5. CASE \A p \in Ports : Desired(t)[p] = 0
  <3>1. pc'[t] = "commit"
      BY <1>0, <2>1, <2>5
  <3>2. At(t)'
      BY <2>3, <2>4, <2>5, <3>1 DEF At
  <3> QED
      BY <2>2, <3>2, Assembled
<2>6. CASE ~ \A p \in Ports : Desired(t)[p] = 0
  <3>1. pc'[t] = "add"
      BY <1>0, <2>1, <2>6
  <3>2. At(t)'
      BY <2>1, <2>3, <2>4, <2>6, <3>1 DEF At
  <3> QED
      BY <2>2, <3>2, Assembled
<2> QED
    BY <2>5, <2>6
<1>9. ASSUME NEW t \in Threads, RemapAdd(t) PROVE RequestInv'
<2>1. mu = t /\ mu' = t /\ \A u \in Threads : u # t => pc[u] \notin Working
    BY <1>9, Exclusive DEF RemapAdd, Locking, Requesting
<2>2. \E l \in Labels : pc' = [pc EXCEPT ![t] = l]
    BY <1>9, RemapAddEffect
<2>3. /\ mu' # Nobody /\ \A u \in Threads : u # t => pc'[u] \notin Working
    BY <1>0, <2>1, <2>2, ServiceAssumption DEF Threads
<2>4. At(t)
    BY DEF RequestInv
<2>5. UNCHANGED <<active, backing, op>> /\ ~torUp /\ ~active
    BY <1>9, <2>4 DEF RemapAdd, At, binding
<2>6. Desired(t)' = Desired(t)
    BY <2>5 DEF Desired
<2>7. CASE pc' = [pc EXCEPT ![t] = "commit"] /\ torUp' /\ torMap' = Desired(t)
  <3>1. At(t)'
    <4>1. pc'[t] = "commit" /\ \E q \in Ports : Desired(t)[q] # 0
        BY <1>0, <1>9, <2>4, <2>7 DEF RemapAdd, At
    <4> QED
        BY <2>6, <2>7, <4>1 DEF At
  <3> QED
      BY <2>3, <3>1, Assembled
<2>8. CASE pc' = [pc EXCEPT ![t] = "dclose"]
  <3>1. At(t)'
      BY <1>0, <2>8, ZenonT(60) DEF At
  <3> QED
      BY <2>3, <3>1, Assembled
<2>9. CASE /\ pc' = [pc EXCEPT ![t] = "rollback"] \/ pc' = [pc EXCEPT ![t] = "fail"]
           /\ torUp' = torUp /\ torMap' = torMap
  <3>1. Agree' /\ ~torUp' /\ ~active' /\ pc'[t] \in {"rollback", "fail"}
      BY <1>0, <2>5, <2>9 DEF Agree
  <3>2. At(t)'
      BY <3>1, ZenonT(60) DEF At
  <3> QED
      BY <2>3, <3>2, Assembled
<2> QED
    BY <1>9, <2>7, <2>8, <2>9, RemapAddEffect
<1>10. ASSUME NEW t \in Threads, RemapRollback(t) PROVE RequestInv'
<2>1. mu = t /\ mu' = t /\ \A u \in Threads : u # t => pc[u] \notin Working
    BY <1>10, Exclusive DEF RemapRollback, Locking, Requesting
<2>2. \E l \in Labels : pc' = [pc EXCEPT ![t] = l]
    BY <1>10, RemapRollbackEffect
<2>3. /\ mu' # Nobody /\ \A u \in Threads : u # t => pc'[u] \notin Working
    BY <1>0, <2>1, <2>2, ServiceAssumption DEF Threads
<2>4. At(t)
    BY DEF RequestInv
<2>5. UNCHANGED <<active, backing, op>> /\ ~torUp /\ ~active
    BY <1>10, <2>4 DEF RemapRollback, At, binding
<2>6. Desired(t)' = Desired(t)
    BY <2>5 DEF Desired
<2>7. CASE pc' = [pc EXCEPT ![t] = "restored"] /\ torUp' /\ torMap' = backing
  <3>1. At(t)'
    <4>1. pc'[t] = "restored"
        BY <1>0, <2>7
    <4> QED
        BY <2>5, <2>7, <4>1 DEF At
  <3> QED
      BY <2>3, <3>1, Assembled
<2>8. CASE pc' = [pc EXCEPT ![t] = "dclose"]
  <3>1. At(t)'
      BY <1>0, <2>8, ZenonT(60) DEF At
  <3> QED
      BY <2>3, <3>1, Assembled
<2> QED
    BY <1>10, <2>7, <2>8, RemapRollbackEffect, ZenonT(60)
<1>11. ASSUME NEW t \in Threads, RemapRestored(t) PROVE RequestInv'
<2>1. /\ pc[t] = "restored" /\ pc' = [pc EXCEPT ![t] = "fail"] /\ active'
      /\ UNCHANGED <<torUp, torMap, backing>>
    BY <1>11 DEF RemapRestored, Goto, tor, binding
<2>2. pc'[t] = "fail" /\ \A u \in Threads : u # t => pc'[u] \notin Working
    BY <1>0, <2>1, Exclusive DEF Locking, Requesting
<2>3. Agree'
    BY <2>1 DEF Agree, RequestInv, At
<2>4. At(t)'
    BY <2>2, <2>3 DEF At
<2> QED
    BY <2>2, <2>3, <2>4, Assembled
<1>12. ASSUME NEW t \in Threads, Commit(t) PROVE RequestInv'
<2>1. pc[t] = "commit" /\ pc' = [pc EXCEPT ![t] = "idle"]
    BY <1>12, ZenonT(60) DEF Commit, Goto
<2>2. pc'[t] = "idle" /\ \A u \in Threads : u # t => pc'[u] \notin Working
    BY <1>0, <2>1, Exclusive DEF Locking, Requesting
<2>3. /\ active' <=> \E q \in Ports : Desired(t)[q] # 0
      /\ backing' = Desired(t) /\ UNCHANGED <<torUp, torMap>>
    BY <1>12, ZenonT(60) DEF Commit, tor
<2>4. At(t)
    BY DEF RequestInv
<2>5. Agree'
    BY <2>1, <2>3, <2>4, ZenonT(60) DEF Agree, At
<2>6. At(t)'
    BY <2>2 DEF At
<2> QED
    BY <2>2, <2>5, <2>6, Assembled, ZenonT(60)
<1>13. ASSUME NEW t \in Threads, FailRequest(t) PROVE RequestInv'
<2>1. /\ pc[t] = "fail" /\ pc' = [pc EXCEPT ![t] = "idle"]
      /\ UNCHANGED <<active, backing, torUp, torMap>>
    BY <1>13 DEF FailRequest, Goto, tor, binding
<2>2. pc'[t] = "idle" /\ \A u \in Threads : u # t => pc'[u] \notin Working
    BY <1>0, <2>1, Exclusive DEF Locking
<2>3. Agree'
    BY <2>1 DEF Agree, RequestInv, At
<2>4. At(t)'
    BY <2>2 DEF At
<2> QED
    BY <2>2, <2>3, <2>4, Assembled
<1>14. ASSUME NEW t \in Threads, WaitOnce(t) PROVE RequestInv'
<2>1. UNCHANGED <<active, torUp, torMap, backing, op, mu, closing>>
    BY <1>14 DEF WaitOnce, tor, listeners, binding
<2>2. \A u \in Threads : pc'[u] = pc[u] \/ pc'[u] \notin Working
    BY <1>0, <1>14 DEF WaitOnce, Goto, Working, Requesting
<2> QED
    BY <2>1, <2>2, Untouched
<1>15. ASSUME NEW t \in Threads, CloseLock(t) PROVE RequestInv'
<2>1. mu = Nobody /\ closing' /\ pc'[t] \in {"sdel", "srelease"} /\ \A u \in Threads : u # t => pc'[u] = pc[u]
    BY <1>0, <1>15 DEF CloseLock, Goto
<2>2. \A u \in Threads : u # t => pc'[u] \notin Working
    BY <2>1, Unlocked
<2>3. At(t)'
    BY <2>1 DEF At
<2> QED
    BY <2>1, <2>2, <2>3, Assembled
<1>16. ASSUME NEW t \in Threads, CloseDel(t) PROVE RequestInv'
<2>1. mu = t /\ mu' = t /\ \A u \in Threads : u # t => pc[u] \notin Working
    BY <1>16, Exclusive DEF CloseDel, Locking, Requesting
<2>2. \E l \in Labels : pc' = [pc EXCEPT ![t] = l]
    BY <1>16, CloseDelEffect
<2>3. /\ mu' # Nobody /\ \A u \in Threads : u # t => pc'[u] \notin Working
    BY <1>0, <2>1, <2>2, ServiceAssumption DEF Threads
<2>4. At(t)
    BY DEF RequestInv
<2>5. CASE pc' = [pc EXCEPT ![t] = "srelease"] /\ ~torUp'
  <3>1. At(t)'
      BY <1>0, <2>5, ZenonT(60) DEF At
  <3> QED
      BY <2>3, <3>1, Assembled
<2>6. CASE pc' = [pc EXCEPT ![t] = "dclose"]
  <3>1. At(t)'
      BY <1>0, <2>6, ZenonT(60) DEF At
  <3> QED
      BY <2>3, <3>1, Assembled
<2> QED
    BY <1>16, <2>5, <2>6, CloseDelEffect
<1>17. ASSUME NEW t \in Threads, CloseRelease(t) PROVE RequestInv'
<2>1. pc[t] = "srelease" /\ pc' = [pc EXCEPT ![t] = "scope"] /\ UNCHANGED closing
    BY <1>17, ZenonT(60) DEF CloseRelease, Goto
<2>2. closing' /\ pc'[t] = "scope"
    BY <1>0, <2>1 DEF LockInv
<2>3. \A u \in Threads : u # t => pc'[u] \notin Working
    BY <1>0, <2>1, Exclusive DEF Locking
<2>4. At(t)'
    BY <2>2 DEF At
<2> QED
    BY <2>2, <2>3, <2>4, Assembled
<1>18. ASSUME NEW t \in Threads, CloseReturn(t) PROVE RequestInv'
<2>1. UNCHANGED <<active, torUp, torMap, backing, op, mu, closing>>
    BY <1>18 DEF CloseReturn, tor, listeners, binding
<2>2. \A u \in Threads : pc'[u] = pc[u] \/ pc'[u] \notin Working
    BY <1>0, <1>18 DEF CloseReturn, Goto, Working, Requesting
<2> QED
    BY <2>1, <2>2, Untouched
<1>19. ASSUME NEW t \in Threads, DriverClose(t) \/ DriverSnapshot(t) \/ DriverStop(t) PROVE RequestInv'
    BY <1>19, DriverOpen
<1>21. ASSUME NEW t \in Threads, ScopeClose(t) PROVE RequestInv'
<2>1. UNCHANGED <<active, torUp, torMap, backing, op, mu, closing>>
    BY <1>21 DEF ScopeClose, tor, binding
<2>2. \A u \in Threads : pc'[u] = pc[u] \/ pc'[u] \notin Working
    BY <1>0, <1>21 DEF ScopeClose, AfterScope, Goto, Working, Requesting
<2> QED
    BY <2>1, <2>2, Untouched
<1>22. ASSUME NEW t \in Threads, ClearKey(t) PROVE RequestInv'
<2>1. UNCHANGED <<active, torUp, torMap, backing, op, mu, closing>>
    BY <1>22 DEF ClearKey, tor, listeners, binding
<2>2. \A u \in Threads : pc'[u] = pc[u] \/ pc'[u] \notin Working
    BY <1>0, <1>22 DEF ClearKey, AfterScope, Goto, Working, Requesting
<2> QED
    BY <2>1, <2>2, Untouched
<1>24. ASSUME NEW t \in Closers, CallDriverClose(t) PROVE RequestInv'
<2>1. UNCHANGED <<active, torUp, torMap, backing, op, mu, closing>>
    BY <1>24 DEF CallDriverClose, tor, listeners, binding
<2>2. \A u \in Threads : pc'[u] = pc[u] \/ pc'[u] \notin Working
    BY <1>0, <1>24 DEF CallDriverClose, Goto, Working, Requesting
<2> QED
    BY <2>1, <2>2, Untouched
<1>25. CASE UNCHANGED vars
    BY <1>25, Untouched DEF vars, tor, binding
<1> QED
    BY <1>1, <1>2, <1>3, <1>4, <1>5, <1>6, <1>7, <1>8, <1>9, <1>10, <1>11, <1>12, <1>13, <1>14,
       <1>15, <1>16, <1>17, <1>18, <1>19, <1>21, <1>22, <1>24, <1>25, ZenonT(60) DEF Next, Step, Finished

\* The inductive invariant.
IInv == TypeInv /\ LockInv /\ ClaimInv /\ StateInv

\* Driver.closed is never reset (driver.go:605).
LEMMA ClosedStays == TypeInv /\ [Next]_vars /\ dclosed => dclosed'
<1> SUFFICES ASSUME TypeInv, [Next]_vars, dclosed PROVE dclosed'
    BY ZenonT(60)
<1> USE DEF driver
<1>1. ASSUME NEW t \in Apps PROVE
        /\ CallClose(t) => dclosed'
        /\ ListenerClose(t) => dclosed'
        /\ DropHandle(t) => dclosed'
        /\ \A p \in Ports : ListenClaim(t, p) \/ ListenReopen(t, p) \/ RemovePort(t, p, 0, "remove") => dclosed'
    BY ZenonT(60) DEF CallClose, ListenerClose, RemovePort, DropHandle, ListenClaim, ListenReopen
<1>2. ASSUME NEW t \in Threads, Step(t) PROVE dclosed'
    BY <1>2, ZenonT(60) DEF Step, RemapDel, RemapReset, RemapAdd, RemapRollback, RemapRestored, Commit, FailRequest,
        WaitOnce, CloseLock, CloseDel, CloseRelease, CloseReturn, DriverClose, DriverSnapshot, ScopeClose,
        ClearKey, DriverStop
<1>3. ASSUME NEW t \in Closers, CallDriverClose(t) PROVE dclosed'
    BY <1>3 DEF CallDriverClose
<1>4. CASE UNCHANGED vars
    BY <1>4 DEF vars
<1> QED
    BY <1>1, <1>2, <1>3, <1>4 DEF Next, Finished

\* NewService hands out a service that satisfies the invariant (service.go:63).
LEMMA Initially == Init => IInv
<1> SUFFICES ASSUME Init PROVE IInv
    OBVIOUS
<1> USE ServiceAssumption DEF Init
<1>1. \E f \in [Ports -> Backings] : \A p, q \in Ports : p # q => f[p] # f[q]
    BY DEF Backings
<1>2. backing \in [Ports -> Backings] /\ \A p, q \in Ports : p # q => backing[p] # backing[q]
    BY <1>1
<1>3. 0 \notin Backings
    BY SMTT(90) DEF Backings
<1>4. /\ mu = Nobody /\ svcOnce = "new" /\ closing = FALSE /\ active = TRUE
      /\ torUp = TRUE /\ torMap = backing /\ scope = "open" /\ control = TRUE
      /\ dOnce = "new" /\ runner = Nobody /\ dclosed = FALSE
      /\ open = {backing[p] : p \in Ports} /\ made = open
      /\ claimed = [p \in Ports |-> FALSE] /\ gen = [p \in Ports |-> 1]
      /\ pc = [t \in Threads |-> "idle"] /\ cont = [t \in Threads |-> "idle"]
      /\ op = [t \in Threads |-> NoOp] /\ handle = [t \in Threads |-> NoHandle]
    OBVIOUS
<1> HIDE DEF Backings, Init
<1>5. TypeInv
  <2>1. open \subseteq Backings /\ torMap = backing /\ backing \in [Ports -> Backings \cup {0}]
      BY <1>2, <1>4, SMTT(90)
  <2>2. NoOp \in [kind : {"none", "listen", "remove", "close"}, port : Ports \cup {Nobody},
                  cand : Backings \cup {0}, was : BOOLEAN]
      BY DEF NoOp
  <2>3. NoHandle \in [port : Ports \cup {Nobody}, gen : Nat]
      BY DEF NoHandle
  <2>4. pc \in [Threads -> Labels]
      BY <1>4 DEF Labels
  <2>5. op \in [Threads -> [kind : {"none", "listen", "remove", "close"}, port : Ports \cup {Nobody},
                           cand : Backings \cup {0}, was : BOOLEAN]]
      BY <1>4, <2>2
  <2>6. handle \in [Threads -> [port : Ports \cup {Nobody}, gen : Nat]]
      BY <1>4, <2>3
  <2>7. /\ claimed \in [Ports -> BOOLEAN] /\ gen \in [Ports -> Nat \ {0}]
        /\ cont \in [Threads -> {"idle", "fail", "srelease"}]
      BY <1>4, SMTT(90)
  <2> QED
      BY <1>4, <2>1, <2>4, <2>5, <2>6, <2>7, ZenonT(60) DEF TypeInv
<1>6. LockInv
    BY <1>4 DEF LockInv, Holds, Threads, Labels, Locking, Requesting, Driving, Sweeping
<1>7. ClaimInv
  <2>1. OpInv
      BY <1>4 DEF OpInv, Requesting
  <2>2. \A p \in Ports : NoHandle # [port |-> p, gen |-> gen[p]]
      BY <1>4 DEF NoHandle
  <2> QED
      BY <1>4, <2>1, <2>2 DEF ClaimInv, HandleInv
<1>8. StateInv
  <2>1. BackingInv
      BY <1>2, <1>4 DEF BackingInv, Requesting
  <2>2. Agree
      BY <1>4 DEF Agree
  <2>3. RequestInv
      BY <1>4, <2>2 DEF RequestInv, At
  <2>4. CloseInv
      BY <1>4 DEF CloseInv, Requesting, Sweeping
  <2>5. TorTargetsOpen
      BY <1>4 DEF TorTargetsOpen
  <2> QED
      BY <2>1, <2>3, <2>4, <2>5 DEF StateInv
<1> QED
    BY <1>5, <1>6, <1>7, <1>8 DEF IInv

\* Every step keeps the invariant (service.go:297-583, driver.go:599).
LEMMA Inductive == IInv /\ [Next]_vars => IInv'
<1> SUFFICES ASSUME IInv, [Next]_vars PROVE IInv'
    OBVIOUS
<1>1. TypeInv /\ LockInv /\ ClaimInv /\ OpInv /\ HandleInv /\ StateInv
    BY DEF IInv, ClaimInv
<1>2. TypeInv'
    BY <1>1, TypeKept
<1>3. LockInv'
    BY <1>1, LockKept
<1>4. OpInv'
    BY <1>1, OpKept
<1>5. HandleInv'
    BY <1>1, HandleKept
<1>6. StateInv'
  <2> SUFFICES ASSUME ~dclosed' PROVE (BackingInv /\ RequestInv /\ CloseInv /\ TorTargetsOpen)'
      BY DEF StateInv
  <2>1. ~dclosed
      BY <1>1, ClosedStays
  <2>2. BackingInv /\ RequestInv /\ CloseInv /\ TorTargetsOpen
      BY <1>1, <2>1 DEF StateInv
  <2> QED
      BY <1>1, <2>1, <2>2, BackingKept, RequestKept, CloseKept, TargetsKept
<1> QED
    BY <1>2, <1>3, <1>4, <1>5, <1>6 DEF IInv, ClaimInv

\* The invariant holds throughout.
THEOREM Invariant == Spec => []IInv
BY Initially, Inductive, PTL DEF Spec

\* Until the driver closes, every endpoint Tor forwards to is a listener the
\* service still owns (service.go:393), for any goroutines and ports.
THEOREM TargetsOpen == Spec => []TorTargetsOpen
<1>1. IInv => TorTargetsOpen
    BY DEF IInv, StateInv, TorTargetsOpen
<1> QED
    BY Invariant, <1>1, PTL

\* Between calls the service and Tor agree on the onion and its mapping,
\* whatever Tor answered (service.go:400), for any goroutines and ports.
THEOREM AgreesWithTor == Spec => []ServiceAgreesWithTor
<1>1. IInv => ServiceAgreesWithTor
  <2> SUFFICES ASSUME IInv, mu = Nobody, ~closing, ~dclosed PROVE active = torUp /\ (active => torMap = backing)
      BY DEF ServiceAgreesWithTor
  <2>1. Agree /\ active \in BOOLEAN /\ torUp \in BOOLEAN
      BY DEF IInv, StateInv, RequestInv, TypeInv
  <2> QED
      BY <2>1 DEF Agree
<1> QED
    BY Invariant, <1>1, PTL

\* The step property of ClaimReleasedByOwner.
Released ==
    \A t \in Apps : \A p \in Ports :
        (/\ handle[t] = [port |-> p, gen |-> gen[p]]
         /\ backing[p] # 0 /\ backing'[p] # backing[p]) =>
            closing \/ mu = t \/ op[mu].kind = "remove"

\* Only Commit and CloseRelease change a binding (service.go:329, 394, 557).
LEMMA BindingSteps ==
    ASSUME [Next]_vars, backing' # backing
    PROVE  \E t \in Threads : Commit(t) \/ CloseRelease(t)
<1> USE DEF binding
<1>1. ASSUME NEW t \in Apps PROVE
        /\ ~CallClose(t) /\ ~ListenerClose(t) /\ ~DropHandle(t)
        /\ \A p \in Ports : ~ListenClaim(t, p) /\ ~ListenReopen(t, p) /\ ~RemovePort(t, p, 0, "remove")
    BY ZenonT(60) DEF CallClose, ListenerClose, RemovePort, DropHandle, ListenClaim, ListenReopen
<1>2. ASSUME NEW t \in Threads, Step(t) PROVE Commit(t) \/ CloseRelease(t)
    BY <1>2, ZenonT(60) DEF Step, RemapDel, RemapReset, RemapAdd, RemapRollback, RemapRestored, FailRequest,
        WaitOnce, CloseLock, CloseDel, CloseReturn, DriverClose, DriverSnapshot, ScopeClose,
        ClearKey, DriverStop
<1>3. \A t \in Closers : ~CallDriverClose(t)
    BY DEF CallDriverClose
<1>4. ~UNCHANGED vars
    BY DEF vars
<1> QED
    BY <1>1, <1>2, <1>3, <1>4 DEF Next, Finished

\* A claimed listener goes away when its holder closes it, by RemovePort, or
\* with the service (service.go:21, 371), for any goroutines and ports.
THEOREM ReleasedByOwner == Spec => ClaimReleasedByOwner
<1>1. IInv /\ [Next]_vars => Released
  <2> SUFFICES ASSUME IInv, [Next]_vars, NEW t \in Apps, NEW p \in Ports,
                      handle[t] = [port |-> p, gen |-> gen[p]],
                      backing[p] # 0, backing'[p] # backing[p], ~closing
               PROVE  mu = t \/ op[mu].kind = "remove"
      BY DEF Released
  <2> USE DEF IInv, Threads
  <2>1. PICK u \in Threads : Commit(u) \/ CloseRelease(u)
      BY BindingSteps
  <2>2. ~CloseRelease(u)
      BY DEF CloseRelease, LockInv
  <2>3. /\ pc[u] = "commit" /\ backing' = Desired(u)
      BY <2>1, <2>2, ZenonT(60) DEF Commit
  <2>4. mu = u
      BY <2>3, Exclusive DEF Locking, Requesting
  <2>5. /\ op[u].port \in Ports
        /\ \/ op[u].kind = "listen" /\ backing[op[u].port] = 0
           \/ op[u].kind \in {"remove", "close"}
        /\ op[u].kind = "close" => handle[u] = [port |-> op[u].port, gen |-> gen[op[u].port]]
      BY <2>3 DEF ClaimInv, OpInv, Requesting
  <2>6. op[u].port = p
      BY <2>3, <2>5 DEF Desired, TypeInv
  <2>7. CASE op[u].kind = "close"
    <3>1. handle[u] = [port |-> p, gen |-> gen[p]]
        BY <2>5, <2>6, <2>7
    <3>2. u = t
        BY <3>1 DEF ClaimInv, HandleInv
    <3> QED
        BY <2>4, <3>2
  <2> QED
      BY <2>4, <2>5, <2>6, <2>7
<1> QED
    BY Invariant, <1>1, PTL DEF Spec, ClaimReleasedByOwner, Released
=============================================================================
