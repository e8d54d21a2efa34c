---------------------------- MODULE ProxyProofs ----------------------------
(***************************************************************************)
(* Proofs about the two modules of proxy.go: OutboundGate.tla, for any     *)
(* number of sessions, setters and replacements, and ProxyServer.tla,      *)
(* which puts the SOCKS server with its slots and handlers before it.      *)
(***************************************************************************)
EXTENDS ProxyServer, FiniteSetTheorems, TLAPS

\* Zenon goes first, with time for a slow machine; a leaf that needs SMT says so.
USE ZenonT(20), SMTT(90)

Labels ==
    {"start", "add", "operation", "check", "dial", "track", "recheck", "judge", "relay", "close", "latch",
     "latched", "finish", "end"}
CLabels == {"idle", "retire", "retired", "proceed", "attach", "vet", "install", "closed"}

\* The values of the variables.
TypeInv ==
    /\ gateClosed \in BOOLEAN
    /\ current \in 0 .. MaxGeneration /\ generation \in 0 .. MaxGeneration
    /\ scope \in [Gen -> {"none", "open", "closing", "done"}]
    /\ cb \in [Gen -> {"off", "on", "wait"}]
    /\ latched \subseteq Gen
    /\ pc \in [Sessions -> Labels]
    /\ ep \in [Sessions -> 0 .. MaxGeneration]
    /\ next \in [Sessions -> {"finish", "latch", "judge"}]
    /\ res \in [Sessions -> [Kinds -> Status]]
    /\ cpc \in [Controllers -> CLabels]
    /\ want \in [Controllers -> {"nil", "net", "close"}]
    /\ ce \in [Controllers -> 0 .. MaxGeneration]
    /\ \A s \in Sessions : ep[s] = 0 => pc[s] \in {"start", "end"} /\ \A k \in Kinds : res[s][k] = "none"
    /\ \A s \in Sessions : pc[s] = "start" => ep[s] = 0
    /\ \A c \in Controllers : cpc[c] \in {"retire", "retired"} => ce[c] \in Gen

\* A controller between taking and releasing gate.change.
Active(c) == cpc[c] \notin {"idle", "closed"}

\* There is one at a time, and none while an epoch is installed; a closed gate
\* is never replaced.
ControlInv ==
    /\ \A c, d \in Controllers : Active(c) /\ Active(d) => c = d
    /\ \A c \in Controllers : Active(c) => current = 0
    /\ current <= generation
    /\ gateClosed => current = 0 /\ \A c \in Setters : ~Active(c)
    /\ \A c \in Setters : cpc[c] # "closed" /\ want[c] # "close"
    /\ cpc[Closer] # "idle" => gateClosed /\ want[Closer] = "close"
    /\ \A c \in Controllers : cpc[c] \in {"attach", "vet", "install"} => want[c] = "net"
    /\ \A c \in Controllers : Active(c) /\ want[c] = "net" => generation \in Gen

\* The epochs that are not over: the installed one, one being retired, and one
\* being prepared.
Held(g) ==
    \/ g = current
    \/ \E c \in Controllers : cpc[c] \in {"retire", "retired"} /\ ce[c] = g
    \/ g = generation /\ \E c \in Controllers : cpc[c] \in {"vet", "install"}

\* Before its scope is created an epoch is the newest generation and nobody's.
Unused(c) == cpc[c] \in {"retire", "retired", "proceed", "attach"} /\ want[c] = "net"

\* All other epochs are shut, or were never created.
ScopeInv ==
    /\ \A g \in Gen : Held(g) \/ scope[g] \in {"none", "done"}
    /\ \A g \in Gen : g > generation => scope[g] = "none"
    /\ current # 0 => scope[current] # "none"
    /\ \A c \in Controllers :
        /\ cpc[c] \in {"retire", "retired"} => scope[ce[c]] # "none"
        /\ Unused(c) => scope[generation] = "none"
        /\ cpc[c] \in {"vet", "install"} => scope[generation] # "none"

\* What is registered belongs to an open scope, what its sweep waits for to a
\* closing one.
ResInv ==
    \A s \in Sessions : \A k \in Kinds :
        /\ res[s][k] = "live" => ep[s] \in Gen /\ scope[ep[s]] = "open"
        /\ res[s][k] \in {"doomed", "claimed"} => ep[s] \in Gen /\ scope[ep[s]] = "closing"

\* A latched epoch is shut, or is about to be by the controller that gave it up.
LatchInv ==
    /\ \A g \in latched : g <= generation
    /\ \A g \in latched : scope[g] = "open" => \E c \in Controllers : cpc[c] = "retire" /\ ce[c] = g
    /\ \A c \in Controllers : Unused(c) => generation \notin latched

IInv == TypeInv /\ ControlInv /\ ScopeInv /\ ResInv /\ LatchInv

-----------------------------------------------------------------------------
\* A new gate satisfies the invariant.
LEMMA InitIInv == Init => IInv
<1> SUFFICES ASSUME Init PROVE IInv
    OBVIOUS
<1> USE GateAssumption DEF Init, Gen, Controllers
<1>1. TypeInv
  <2>1. res \in [Sessions -> [Kinds -> Status]]
      BY DEF Status
  <2>2. \A s \in Sessions : \A k \in Kinds : res[s][k] = "none"
      OBVIOUS
  <2>3. 0 \in 0 .. MaxGeneration
      BY SMTT(90)
  <2> QED
      BY <2>1, <2>2, <2>3, ZenonT(60) DEF TypeInv, Labels, CLabels
<1>2. ControlInv /\ ResInv /\ LatchInv
    BY SMTT(90) DEF ControlInv, ResInv, LatchInv, Active, Unused
<1>3. ScopeInv
    BY DEF ScopeInv, Unused
<1> QED
    BY <1>1, <1>2, <1>3 DEF IInv

\* What the first half of scope.Close does to scopes and registrations.
LEMMA CloseScopeEffect ==
    ASSUME TypeInv, NEW g \in Gen, CloseScope(g)
    PROVE  /\ scope' \in [Gen -> {"none", "open", "closing", "done"}]
           /\ res' \in [Sessions -> [Kinds -> Status]]
           /\ \A h \in Gen : scope'[h] = IF h = g /\ scope[g] = "open" THEN "closing" ELSE scope[h]
           /\ \A s \in Sessions : \A k \in Kinds :
                 res'[s][k] = IF scope[g] = "open" /\ ep[s] = g /\ res[s][k] = "live" THEN "doomed" ELSE res[s][k]
<1>1. CASE IsOpen(g)
    BY <1>1, SMTT(90) DEF TypeInv, CloseScope, Doomed, IsOpen, Status
<1>2. CASE ~IsOpen(g)
    BY <1>2, SMTT(90) DEF TypeInv, CloseScope, IsOpen
<1> QED
    BY <1>1, <1>2

\* It opens no epoch and leaves the one it closes shut.
LEMMA CloseScopeShuts ==
    ASSUME TypeInv, NEW g \in Gen, CloseScope(g)
    PROVE  \A h \in Gen : scope'[h] = "open" => scope[h] = "open" /\ h # g
<1>1. \A h \in Gen : scope'[h] = IF h = g /\ scope[g] = "open" THEN "closing" ELSE scope[h]
    BY CloseScopeEffect
<1> QED
    BY <1>1

\* What it takes from the registry of an epoch is in the slice of the closing epoch.
LEMMA CloseScopeDooms ==
    ASSUME TypeInv, ResInv, NEW g \in Gen, CloseScope(g), UNCHANGED ep
    PROVE  ResInv'
<1> SUFFICES ASSUME NEW s \in Sessions, NEW k \in Kinds
             PROVE  /\ res'[s][k] = "live" => ep[s] \in Gen /\ scope'[ep[s]] = "open"
                    /\ res'[s][k] \in {"doomed", "claimed"} => ep[s] \in Gen /\ scope'[ep[s]] = "closing"
    BY DEF ResInv
<1>1. res'[s][k] = IF scope[g] = "open" /\ ep[s] = g /\ res[s][k] = "live" THEN "doomed" ELSE res[s][k]
    BY CloseScopeEffect
<1>2. \A h \in Gen : scope'[h] = IF h = g /\ scope[g] = "open" THEN "closing" ELSE scope[h]
    BY CloseScopeEffect
<1>3. /\ res[s][k] = "live" => ep[s] \in Gen /\ scope[ep[s]] = "open"
      /\ res[s][k] \in {"doomed", "claimed"} => ep[s] \in Gen /\ scope[ep[s]] = "closing"
    BY DEF ResInv
<1> QED
    BY <1>1, <1>2, <1>3, SMTT(90)

\* The epochs that are spoken of exist.
LEMMA EpochsExist ==
    ASSUME TypeInv, ControlInv
    PROVE  /\ \A s \in Sessions : pc[s] \notin {"start", "end"} => ep[s] \in Gen
           /\ \A c \in Controllers : cpc[c] \in {"retire", "retired"} => ce[c] \in Gen
           /\ \A c \in Controllers : Unused(c) \/ cpc[c] \in {"vet", "install"} => generation \in Gen
           /\ current # 0 => current \in Gen
<1>1. ASSUME NEW s \in Sessions, pc[s] \notin {"start", "end"} PROVE ep[s] \in Gen
  <2>1. ep[s] \in 0 .. MaxGeneration /\ ep[s] # 0
      BY <1>1, SMTT(90) DEF TypeInv
  <2> QED
      BY <2>1, GateAssumption, SMTT(90) DEF Gen
<1>2. \A c \in Controllers : cpc[c] \in {"retire", "retired"} => ce[c] \in Gen
    BY DEF TypeInv
<1>3. ASSUME NEW c \in Controllers, Unused(c) \/ cpc[c] \in {"vet", "install"} PROVE generation \in Gen
    BY <1>3 DEF ControlInv, Active, Unused
<1>4. current # 0 => current \in Gen
    BY GateAssumption, SMTT(90) DEF TypeInv, Gen
<1> QED
    BY <1>1, <1>2, <1>3, <1>4

\* A session that moves one of its registrations keeps the others as they are.
LEMMA SetKeepsRes ==
    ASSUME TypeInv, ResInv, NEW s \in Sessions, NEW k \in Kinds, NEW v, Set(s, k, v), UNCHANGED <<scope, ep>>,
           v = "live" => ep[s] \in Gen /\ scope[ep[s]] = "open",
           v \in {"doomed", "claimed"} => ep[s] \in Gen /\ scope[ep[s]] = "closing"
    PROVE  ResInv'
<1> SUFFICES ASSUME NEW p \in Sessions, NEW j \in Kinds
             PROVE  /\ res'[p][j] = "live" => ep[p] \in Gen /\ scope[ep[p]] = "open"
                    /\ res'[p][j] \in {"doomed", "claimed"} => ep[p] \in Gen /\ scope[ep[p]] = "closing"
    BY DEF ResInv
<1>1. res \in [Sessions -> [Kinds -> Status]]
    BY DEF TypeInv
<1>2. res'[p][j] = IF p = s /\ j = k THEN v ELSE res[p][j]
    BY <1>1, SMTT(90) DEF Set
<1>3. /\ res[p][j] = "live" => ep[p] \in Gen /\ scope[ep[p]] = "open"
      /\ res[p][j] \in {"doomed", "claimed"} => ep[p] \in Gen /\ scope[ep[p]] = "closing"
    BY DEF ResInv
<1>4. CASE p = s /\ j = k
    BY <1>2, <1>4
<1>5. CASE ~(p = s /\ j = k)
    BY <1>2, <1>3, <1>5
<1> QED
    BY <1>4, <1>5

\* Closing scopes disturbs nothing that the controllers rely on.
LEMMA ClosingKeeps ==
    ASSUME TypeInv, ControlInv, ScopeInv, UNCHANGED <<current, generation, ce>>,
           \A c \in Controllers :
               /\ cpc'[c] \in {"retire", "retired"} <=> cpc[c] \in {"retire", "retired"}
               /\ cpc'[c] \in {"vet", "install"} <=> cpc[c] \in {"vet", "install"}
               /\ Unused(c)' <=> Unused(c),
           \A h \in Gen : /\ scope'[h] = "none" <=> scope[h] = "none"
                          /\ scope[h] = "done" => scope'[h] = "done"
    PROVE  ScopeInv'
<1>1. \A h \in Gen : Held(h)' <=> Held(h)
    BY DEF Held
<1>2. \A g \in Gen : Held(g)' \/ scope'[g] \in {"none", "done"}
    BY <1>1 DEF ScopeInv
<1>3. \A g \in Gen : g > generation' => scope'[g] = "none"
    BY DEF ScopeInv
<1>4. current' # 0 => scope'[current'] # "none"
    BY EpochsExist DEF ScopeInv
<1>5. ASSUME NEW c \in Controllers
      PROVE  /\ cpc'[c] \in {"retire", "retired"} => scope'[ce'[c]] # "none"
             /\ Unused(c)' => scope'[generation'] = "none"
             /\ cpc'[c] \in {"vet", "install"} => scope'[generation'] # "none"
    BY <1>5, EpochsExist DEF ScopeInv
<1> QED
    BY <1>2, <1>3, <1>4, <1>5 DEF ScopeInv

\* The first half of epoch.Close keeps the scopes in order, whoever calls it.
LEMMA CloseScopeKeeps ==
    ASSUME TypeInv, ControlInv, ScopeInv, UNCHANGED <<current, generation, ce>>,
           \A c \in Controllers :
               /\ cpc'[c] \in {"retire", "retired"} <=> cpc[c] \in {"retire", "retired"}
               /\ cpc'[c] \in {"vet", "install"} <=> cpc[c] \in {"vet", "install"}
               /\ Unused(c)' <=> Unused(c),
           NEW g \in Gen, CloseScope(g)
    PROVE  ScopeInv'
<1>1. ASSUME NEW h \in Gen
      PROVE  /\ scope'[h] = "none" <=> scope[h] = "none"
             /\ scope[h] = "done" => scope'[h] = "done"
  <2>1. scope'[h] = IF h = g /\ scope[g] = "open" THEN "closing" ELSE scope[h]
      BY CloseScopeEffect
  <2> QED
      BY <2>1
<1> QED
    BY <1>1, ClosingKeeps DEF Unused

\* When a controller starts, the only epoch that is not over is the installed one.
LEMMA DetachKeeps ==
    ASSUME TypeInv, ControlInv, ScopeInv, NEW c \in Controllers, NEW w, Detach(c, w),
           \/ generation' = generation /\ w # "net"
           \/ generation' = generation + 1 /\ generation < MaxGeneration
    PROVE  ScopeInv'
<1>1. \A d \in Controllers : cpc[d] \in {"idle", "closed"}
    BY DEF Detach, ChangeFree
<1>2. \A h \in Gen : h = current \/ scope[h] \in {"none", "done"}
    BY <1>1 DEF ScopeInv, Held
<1>3. current' = 0 /\ UNCHANGED scope
    BY DEF Detach
<1>4. /\ want'[c] = w
      /\ ce'[c] = current
      /\ cpc'[c] = IF current = 0 THEN "proceed" ELSE "retire"
      /\ \A d \in Controllers : d # c => cpc'[d] = cpc[d]
    BY SMTT(90) DEF Detach, CGoto, TypeInv
<1>5. generation \in Nat /\ generation' \in Nat /\ generation' >= generation
    BY GateAssumption, SMTT(90) DEF TypeInv
<1>6. \A g \in Gen : Held(g)' \/ scope'[g] \in {"none", "done"}
  <2> SUFFICES ASSUME NEW g \in Gen, scope[g] \notin {"none", "done"} PROVE Held(g)'
      BY <1>3
  <2>1. g = current /\ g # 0
      BY <1>2, GateAssumption, SMTT(90) DEF Gen
  <2> QED
      BY <2>1, <1>4 DEF Held
<1>7. \A g \in Gen : g > generation' => scope'[g] = "none"
    BY <1>3, <1>5, SMTT(90) DEF ScopeInv, Gen
<1>8. ASSUME NEW d \in Controllers
      PROVE  /\ cpc'[d] \in {"retire", "retired"} => scope'[ce'[d]] # "none"
             /\ Unused(d)' => scope'[generation'] = "none"
             /\ cpc'[d] \in {"vet", "install"} => scope'[generation'] # "none"
  <2>1. cpc'[d] \in {"idle", "closed"} \/ (d = c /\ cpc'[d] \in {"proceed", "retire"})
      BY <1>1, <1>4
  <2>2. cpc'[d] = "retire" => scope'[ce'[d]] # "none"
      BY <1>1, <1>3, <1>4 DEF ScopeInv
  <2>3. Unused(d)' => scope'[generation'] = "none"
    <3> SUFFICES ASSUME Unused(d)' PROVE scope'[generation'] = "none"
        OBVIOUS
    <3>1. w = "net"
        BY <2>1, <1>4 DEF Unused
    <3>2. generation' \in Gen /\ generation' > generation
        BY <3>1, GateAssumption, SMTT(90) DEF TypeInv, Gen
    <3> QED
        BY <3>2, <1>3 DEF ScopeInv
  <2> QED
      BY <2>1, <2>2, <2>3
<1> QED
    BY <1>3, <1>6, <1>7, <1>8 DEF ScopeInv

\* A controller that is past retiring leaves nothing open behind.
LEMMA RetiredShut ==
    ASSUME TypeInv, ControlInv, ScopeInv, NEW c \in Controllers, cpc[c] = "retired", scope[ce[c]] = "done"
    PROVE  \A h \in Gen : scope[h] \in {"none", "done"}
<1>1. current = 0 /\ \A d \in Controllers : d # c => cpc[d] \in {"idle", "closed"}
    BY DEF ControlInv, Active
<1> SUFFICES ASSUME NEW h \in Gen, Held(h) PROVE scope[h] \in {"none", "done"}
    BY DEF ScopeInv
<1>2. h # current
    BY <1>1, GateAssumption, SMTT(90) DEF Gen
<1> QED
    BY <1>1, <1>2 DEF Held

\* When the last controller is through with its epoch, all scopes are shut.
LEMMA ShutKeeps ==
    ASSUME TypeInv, ControlInv, ScopeInv, NEW c \in Controllers, Retired(c) \/ Proceed(c),
           \A d \in Controllers : d # c => cpc'[d] = cpc[d]
    PROVE  ScopeInv'
<1>1. UNCHANGED <<current, generation, want, ce, scope>> /\ cpc[c] \in {"retired", "proceed"}
    BY DEF Retired, Proceed, gate
<1>2. current = 0 /\ \A d \in Controllers : d # c => cpc[d] \in {"idle", "closed"}
    BY <1>1 DEF ControlInv, Active
<1>3. \A h \in Gen : scope[h] \in {"none", "done"}
  <2>1. CASE Retired(c)
      BY <2>1, RetiredShut DEF Retired
  <2>2. CASE Proceed(c)
    <3>1. cpc[c] = "proceed"
        BY <2>2 DEF Proceed
    <3> SUFFICES ASSUME NEW h \in Gen, Held(h) PROVE FALSE
        BY DEF ScopeInv
    <3>2. h # current
        BY <1>2, GateAssumption, SMTT(90) DEF Gen
    <3> QED
        BY <1>2, <3>1, <3>2 DEF Held
  <2> QED
      BY <2>1, <2>2
<1>4. cpc'[c] \in {"proceed", "idle", "closed", "attach"}
    BY SMTT(90) DEF Retired, Proceed, CGoto, TypeInv
<1>5. cpc'[c] = "attach" => Unused(c)
    BY <1>1, SMTT(90) DEF Retired, Proceed, CGoto, TypeInv, Unused
<1>6. \A d \in Controllers : Unused(d)' => scope'[generation'] = "none"
    BY <1>1, <1>2, <1>4, <1>5 DEF ScopeInv, Unused
<1>7. \A d \in Controllers : cpc'[d] \notin {"retire", "retired", "vet", "install"}
    BY <1>2, <1>4
<1> QED
    BY <1>1, <1>2, <1>3, <1>6, <1>7 DEF ScopeInv

\* Every step keeps the types.
LEMMA TypeKept == TypeInv /\ ControlInv /\ ScopeInv /\ [Next]_vars => TypeInv'
<1> SUFFICES ASSUME TypeInv, ControlInv, ScopeInv, [Next]_vars PROVE TypeInv'
    OBVIOUS
<1> USE GateAssumption DEF TypeInv, Labels, CLabels, Kinds, Status, Gen, Controllers, Active,
   ControlInv, Goto, CGoto, Set, gate, session, controller
<1>1. ASSUME NEW s \in Sessions, DialPick(s) PROVE TypeInv'
  <2>1. CASE ep' = [ep EXCEPT ![s] = current] /\ Goto(s, "add") /\ current \in Gen
      BY <1>1, <2>1, SMTT(90) DEF DialPick
  <2>2. CASE UNCHANGED ep /\ Goto(s, "end")
      BY <1>1, <2>2, SMTT(90) DEF DialPick
  <2> QED
      BY <1>1, <2>1, <2>2 DEF DialPick
<1>2. ASSUME NEW s \in Sessions, AddIn(s) PROVE TypeInv'
    BY <1>2, SMTT(90) DEF AddIn, Admitted, IsOpen
<1>3. ASSUME NEW s \in Sessions, Operation(s) PROVE TypeInv'
    BY <1>3, SMTT(90) DEF Operation, Admitted, IsOpen
<1>4. ASSUME NEW s \in Sessions, CheckCtx(s) PROVE TypeInv'
    BY <1>4, SMTT(90) DEF CheckCtx
<1>5. ASSUME NEW s \in Sessions, Cancel(s) PROVE TypeInv'
    BY <1>5, SMTT(90) DEF Cancel
<1>6. ASSUME NEW s \in Sessions, DialConn(s) PROVE TypeInv'
    BY <1>6, SMTT(90) DEF DialConn
<1>7. ASSUME NEW s \in Sessions, DialNil(s) PROVE TypeInv'
    BY <1>7, SMTT(90) DEF DialNil
<1>8. ASSUME NEW s \in Sessions, DialErr(s) PROVE TypeInv'
    BY <1>8, SMTT(90) DEF DialErr
<1>9. ASSUME NEW s \in Sessions, Judge(s) PROVE TypeInv'
    BY <1>9, SMTT(90) DEF Judge
<1>10. ASSUME NEW s \in Sessions, TrackOut(s) PROVE TypeInv'
    BY <1>10, SMTT(90) DEF TrackOut, Admitted, IsOpen
<1>11. ASSUME NEW s \in Sessions, Recheck(s) PROVE TypeInv'
  <2>1. CASE UNCHANGED res /\ Goto(s, "close")
      BY <1>11, <2>1, SMTT(90) DEF Recheck
  <2>2. CASE Set(s, "op", "closed") /\ Goto(s, "relay")
    <3>1. /\ UNCHANGED <<gateClosed, current, generation, scope, cb, latched, ep, next, cpc, want, ce>>
          /\ pc[s] = "recheck" /\ res' = [res EXCEPT ![s]["op"] = "closed"] /\ pc' = [pc EXCEPT ![s] = "relay"]
        BY <1>11, <2>2 DEF Recheck
    <3>2. pc' \in [Sessions -> Labels] /\ res' \in [Sessions -> [Kinds -> Status]]
        BY <3>1, SMTT(90)
    <3>3. ep[s] # 0 /\ \A u \in Sessions : u # s => res'[u] = res[u] /\ pc'[u] = pc[u]
        BY <3>1, SMTT(90)
    <3>4. pc'[s] = "relay"
        BY <3>1
    <3>5. /\ \A u \in Sessions : ep'[u] = 0 => pc'[u] \in {"start", "end"} /\ \A k \in Kinds : res'[u][k] = "none"
          /\ \A u \in Sessions : pc'[u] = "start" => ep'[u] = 0
        BY <3>1, <3>3, <3>4, SMTT(90)
    <3> QED
        BY <3>1, <3>2, <3>5
  <2> QED
      BY <1>11, <2>1, <2>2 DEF Recheck
<1>12. ASSUME NEW s \in Sessions, RelayEnd(s) PROVE TypeInv'
    BY <1>12, SMTT(90) DEF RelayEnd
<1>13. ASSUME NEW s \in Sessions, NEW k \in Kinds, CloseSideBegin(s, k) PROVE TypeInv'
    BY <1>13, SMTT(90) DEF CloseSideBegin
<1>14. ASSUME NEW s \in Sessions, NEW k \in Kinds, CloseSideEnd(s, k) PROVE TypeInv'
    BY <1>14, SMTT(90) DEF CloseSideEnd
<1>15. ASSUME NEW s \in Sessions, NEW k \in Kinds, SweepOne(s, k) PROVE TypeInv'
    BY <1>15, SMTT(90) DEF SweepOne
<1>16. ASSUME NEW s \in Sessions, CloseSidesDone(s) PROVE TypeInv'
    BY <1>16, SMTT(90) DEF CloseSidesDone
<1>17. ASSUME NEW s \in Sessions, Latch(s) PROVE TypeInv'
  <2>1. ep[s] \in Gen
      BY <1>17, EpochsExist, ZenonT(60) DEF Latch, LatchTarget
  <2>2. CloseScope(ep[s])
      BY <1>17 DEF Latch, LatchTarget
  <2>3. /\ scope' \in [Gen -> {"none", "open", "closing", "done"}]
        /\ res' \in [Sessions -> [Kinds -> Status]]
        /\ \A h \in Gen : scope'[h] = IF h = ep[s] /\ scope[ep[s]] = "open" THEN "closing" ELSE scope[h]
        /\ \A p \in Sessions : \A j \in Kinds :
              res'[p][j] = IF scope[ep[s]] = "open" /\ ep[p] = ep[s] /\ res[p][j] = "live" THEN "doomed" ELSE res[p][j]
      BY <2>1, <2>2, CloseScopeEffect, SMTT(90)
  <2>4. /\ UNCHANGED <<gate, cb, latched, ep, next, controller>>
        /\ pc' = [pc EXCEPT ![s] = "latched"]
      BY <1>17 DEF Latch
  <2>5. \A p \in Sessions : ep[p] = 0 => \A j \in Kinds : res'[p][j] = "none"
      BY <2>3, SMTT(90)
  <2>6. /\ pc' \in [Sessions -> Labels]
        /\ \A p \in Sessions : (ep[p] = 0 => pc'[p] \in {"start", "end"}) /\ (pc'[p] = "start" => ep[p] = 0)
      BY <2>1, <2>4, SMTT(90)
  <2> QED
      BY <2>3, <2>4, <2>5, <2>6
<1>18. ASSUME NEW s \in Sessions, LatchPublish(s) PROVE TypeInv'
  <2>1. ep[s] \in Gen
      BY <1>18, EpochsExist, ZenonT(60) DEF LatchPublish
  <2>2. /\ UNCHANGED <<gate, scope, cb, ep, next, res, controller>>
        /\ pc' = [pc EXCEPT ![s] = "close"] /\ latched' = latched \cup {ep[s]}
      BY <1>18 DEF LatchPublish
  <2>3. /\ pc' \in [Sessions -> Labels]
        /\ \A p \in Sessions : (ep[p] = 0 => pc'[p] \in {"start", "end"}) /\ (pc'[p] = "start" => ep[p] = 0)
      BY <2>1, <2>2, SMTT(90)
  <2>4. latched \subseteq Gen
      OBVIOUS
  <2>5. latched' \subseteq Gen
    <3> HIDE DEF Gen, TypeInv, ControlInv
    <3> QED
        BY <2>1, <2>2, <2>4
  <2> QED
      BY <2>2, <2>3, <2>5, SMTT(90)
<1>19. ASSUME NEW s \in Sessions, Finish(s) PROVE TypeInv'
  <2>1. CASE UNCHANGED res
      BY <1>19, <2>1, SMTT(90) DEF Finish
  <2>2. CASE Set(s, "op", "closed")
      BY <1>19, <2>2, SMTT(90) DEF Finish
  <2> QED
      BY <1>19, <2>1, <2>2 DEF Finish
<1>20. ASSUME NEW c \in Setters, NEW w \in {"nil", "net"}, Replace(c, w) PROVE TypeInv'
    BY <1>20, SMTT(90) DEF Replace, Detach, ChangeFree
<1>21. CASE CloseGate(Closer)
    BY <1>21, SMTT(90) DEF CloseGate, Detach, ChangeFree
<1>22. ASSUME NEW c \in Controllers, Retire(c) PROVE TypeInv'
  <2>1. ce[c] \in Gen
      BY <1>22 DEF Retire
  <2>2. CloseScope(ce[c])
      BY <1>22 DEF Retire
  <2>3. /\ scope' \in [Gen -> {"none", "open", "closing", "done"}]
        /\ res' \in [Sessions -> [Kinds -> Status]]
        /\ \A h \in Gen : scope'[h] = IF h = ce[c] /\ scope[ce[c]] = "open" THEN "closing" ELSE scope[h]
        /\ \A p \in Sessions : \A j \in Kinds :
              res'[p][j] = IF scope[ce[c]] = "open" /\ ep[p] = ce[c] /\ res[p][j] = "live" THEN "doomed" ELSE res[p][j]
      BY <2>1, <2>2, CloseScopeEffect, SMTT(90)
  <2>4. /\ UNCHANGED <<gate, cb, latched, session, want, ce>>
        /\ cpc' = [cpc EXCEPT ![c] = "retired"]
      BY <1>22 DEF Retire
  <2>5. \A p \in Sessions : ep[p] = 0 => \A j \in Kinds : res'[p][j] = "none"
      BY <2>3, SMTT(90)
  <2>6. cpc' \in [Controllers -> CLabels]
      BY <2>4
  <2>7. \A d \in Controllers : cpc'[d] \in {"retire", "retired"} => ce[d] \in Gen
      BY <2>1, <2>4
  <2> QED
      BY <2>3, <2>4, <2>5, <2>6, <2>7, SMTT(90)
<1>23. ASSUME NEW c \in Controllers, Retired(c) PROVE TypeInv'
  <2>1. CASE CGoto(c, "proceed") /\ UNCHANGED latched
      BY <1>23, <2>1, SMTT(90) DEF Retired
  <2>2. CASE want[c] # "close" /\ ce[c] < generation /\ latched' = latched \cup {generation} /\ CGoto(c, "idle")
      BY <1>23, <2>2, SMTT(90) DEF Retired
  <2> QED
      BY <1>23, <2>1, <2>2, ZenonT(60) DEF Retired
<1>24. ASSUME NEW c \in Controllers, Proceed(c) PROVE TypeInv'
    BY <1>24, SMTT(90) DEF Proceed
<1>25. ASSUME NEW c \in Controllers, Attach(c) PROVE TypeInv'
    BY <1>25, SMTT(90) DEF Attach
<1>26. ASSUME NEW c \in Controllers, Reject(c) PROVE TypeInv'
    BY <1>26, SMTT(90) DEF Reject
<1>27. ASSUME NEW c \in Controllers, Accept(c) PROVE TypeInv'
    BY <1>27, SMTT(90) DEF Accept, IsOpen
<1>28. ASSUME NEW c \in Controllers, Install(c) PROVE TypeInv'
    BY <1>28, SMTT(90) DEF Install
<1>29. ASSUME NEW g \in Gen, SweepEnd(g) PROVE TypeInv'
    BY <1>29, SMTT(90) DEF SweepEnd, Swept
<1>30. ASSUME NEW g \in Gen, Notify(g) PROVE TypeInv'
  <2>1. g \in Gen
      BY <1>30 DEF Notify
  <2>2. CloseScope(g)
      BY <1>30 DEF Notify
  <2>3. /\ scope' \in [Gen -> {"none", "open", "closing", "done"}]
        /\ res' \in [Sessions -> [Kinds -> Status]]
        /\ \A h \in Gen : scope'[h] = IF h = g /\ scope[g] = "open" THEN "closing" ELSE scope[h]
        /\ \A p \in Sessions : \A j \in Kinds :
              res'[p][j] = IF scope[g] = "open" /\ ep[p] = g /\ res[p][j] = "live" THEN "doomed" ELSE res[p][j]
      BY <2>1, <2>2, CloseScopeEffect, SMTT(90)
  <2> QED
      BY <1>30, <2>1, <2>3, SMTT(90) DEF Notify
<1>31. ASSUME NEW g \in Gen, NotifyPublish(g) PROVE TypeInv'
    BY <1>31, SMTT(90) DEF NotifyPublish
<1>32. CASE UNCHANGED vars
    BY <1>32, SMTT(90) DEF vars
<1> HIDE DEF TypeInv, Labels, CLabels, Kinds, Status, Gen, Controllers, Active, ControlInv, Goto,
   CGoto, Set, gate, session, controller
<1> QED
    BY <1>1, <1>2, <1>3, <1>4, <1>5, <1>6, <1>7, <1>8, <1>9, <1>10, <1>11, <1>12, <1>13,
       <1>14, <1>15, <1>16, <1>17, <1>18, <1>19, <1>20, <1>21, <1>22, <1>23, <1>24, <1>25,
       <1>26, <1>27, <1>28, <1>29, <1>30, <1>31, <1>32 DEF Next, Running, SessionStep,
       DialReturn, ControllerStep, Finished

\* gate.change keeps the controllers apart.
LEMMA ControlKept == TypeInv /\ ControlInv /\ [Next]_vars => ControlInv'
<1> SUFFICES ASSUME TypeInv, ControlInv, [Next]_vars PROVE ControlInv'
    OBVIOUS
<1> USE GateAssumption DEF TypeInv, ControlInv, CLabels, Active, Gen, Controllers, Goto, CGoto, Set,
   gate, session, controller
<1>1. CASE UNCHANGED <<cpc, want, ce, gateClosed, current, generation>>
    BY <1>1
<1>2. ASSUME NEW s \in Sessions, DialPick(s) PROVE ControlInv'
    BY <1>1, <1>2 DEF DialPick
<1>3. ASSUME NEW s \in Sessions, AddIn(s) PROVE ControlInv'
    BY <1>1, <1>3 DEF AddIn
<1>4. ASSUME NEW s \in Sessions, Operation(s) PROVE ControlInv'
    BY <1>1, <1>4 DEF Operation
<1>5. ASSUME NEW s \in Sessions, CheckCtx(s) PROVE ControlInv'
    BY <1>1, <1>5 DEF CheckCtx
<1>6. ASSUME NEW s \in Sessions, Cancel(s) PROVE ControlInv'
    BY <1>1, <1>6 DEF Cancel
<1>7. ASSUME NEW s \in Sessions, DialConn(s) PROVE ControlInv'
    BY <1>1, <1>7 DEF DialConn
<1>8. ASSUME NEW s \in Sessions, DialNil(s) PROVE ControlInv'
    BY <1>1, <1>8 DEF DialNil
<1>9. ASSUME NEW s \in Sessions, DialErr(s) PROVE ControlInv'
    BY <1>1, <1>9 DEF DialErr
<1>10. ASSUME NEW s \in Sessions, Judge(s) PROVE ControlInv'
    BY <1>1, <1>10 DEF Judge
<1>11. ASSUME NEW s \in Sessions, TrackOut(s) PROVE ControlInv'
    BY <1>1, <1>11 DEF TrackOut
<1>12. ASSUME NEW s \in Sessions, Recheck(s) PROVE ControlInv'
    BY <1>1, <1>12 DEF Recheck
<1>13. ASSUME NEW s \in Sessions, RelayEnd(s) PROVE ControlInv'
    BY <1>1, <1>13 DEF RelayEnd
<1>14. ASSUME NEW s \in Sessions, NEW k \in Kinds, CloseSideBegin(s, k) PROVE ControlInv'
    BY <1>1, <1>14 DEF CloseSideBegin
<1>15. ASSUME NEW s \in Sessions, NEW k \in Kinds, CloseSideEnd(s, k) PROVE ControlInv'
    BY <1>1, <1>15 DEF CloseSideEnd
<1>16. ASSUME NEW s \in Sessions, NEW k \in Kinds, SweepOne(s, k) PROVE ControlInv'
    BY <1>1, <1>16 DEF SweepOne
<1>17. ASSUME NEW s \in Sessions, CloseSidesDone(s) PROVE ControlInv'
    BY <1>1, <1>17 DEF CloseSidesDone
<1>18. ASSUME NEW s \in Sessions, Latch(s) PROVE ControlInv'
    BY <1>1, <1>18 DEF Latch
<1>19. ASSUME NEW s \in Sessions, LatchPublish(s) PROVE ControlInv'
    BY <1>1, <1>19 DEF LatchPublish
<1>20. ASSUME NEW s \in Sessions, Finish(s) PROVE ControlInv'
    BY <1>1, <1>20 DEF Finish
<1>21. ASSUME NEW c \in Setters, NEW w \in {"nil", "net"}, Replace(c, w) PROVE ControlInv'
    BY <1>21, SMTT(90) DEF Replace, Detach, ChangeFree
<1>22. CASE CloseGate(Closer)
    BY <1>22, SMTT(90) DEF CloseGate, Detach, ChangeFree
<1>23. ASSUME NEW c \in Controllers, Retire(c) PROVE ControlInv'
    BY <1>23 DEF Retire, CloseScope, Doomed, IsOpen
<1>24. ASSUME NEW c \in Controllers, Retired(c) PROVE ControlInv'
  <2>1. CASE CGoto(c, "proceed") /\ UNCHANGED latched
      BY <1>24, <2>1, SMTT(90) DEF Retired
  <2>2. CASE want[c] # "close" /\ ce[c] < generation /\ latched' = latched \cup {generation} /\ CGoto(c, "idle")
      BY <1>24, <2>2 DEF Retired
  <2> QED
      BY <1>24, <2>1, <2>2 DEF Retired
<1>25. ASSUME NEW c \in Controllers, Proceed(c) PROVE ControlInv'
    BY <1>25, SMTT(90) DEF Proceed
<1>26. ASSUME NEW c \in Controllers, Attach(c) PROVE ControlInv'
    BY <1>26, SMTT(90) DEF Attach
<1>27. ASSUME NEW c \in Controllers, Reject(c) PROVE ControlInv'
    BY <1>27 DEF Reject
<1>28. ASSUME NEW c \in Controllers, Accept(c) PROVE ControlInv'
    BY <1>28, SMTT(90) DEF Accept, IsOpen
<1>29. ASSUME NEW c \in Controllers, Install(c) PROVE ControlInv'
    BY <1>29, SMTT(90) DEF Install
<1>30. ASSUME NEW g \in Gen, SweepEnd(g) PROVE ControlInv'
    BY <1>1, <1>30 DEF SweepEnd
<1>31. ASSUME NEW g \in Gen, Notify(g) PROVE ControlInv'
    BY <1>1, <1>31 DEF Notify
<1>32. ASSUME NEW g \in Gen, NotifyPublish(g) PROVE ControlInv'
    BY <1>1, <1>32 DEF NotifyPublish
<1>33. CASE UNCHANGED vars
    BY <1>1, <1>33 DEF vars
<1> HIDE DEF TypeInv, ControlInv, CLabels, Active, Gen, Controllers, Goto, CGoto, Set, gate, session,
   controller
<1> QED
    BY <1>2, <1>3, <1>4, <1>5, <1>6, <1>7, <1>8, <1>9, <1>10, <1>11, <1>12, <1>13, <1>14,
       <1>15, <1>16, <1>17, <1>18, <1>19, <1>20, <1>21, <1>22, <1>23, <1>24, <1>25, <1>26,
       <1>27, <1>28, <1>29, <1>30, <1>31, <1>32, <1>33 DEF Next, Running, SessionStep,
       DialReturn, ControllerStep, Finished

\* An epoch leaves the ones that are held only when its scope is done.
LEMMA ScopeKept == TypeInv /\ ControlInv /\ ScopeInv /\ [Next]_vars => ScopeInv'
<1> SUFFICES ASSUME TypeInv, ControlInv, ScopeInv, [Next]_vars PROVE ScopeInv'
    OBVIOUS
<1> USE GateAssumption DEF TypeInv, Controllers, Goto, CGoto, Set, gate, session, controller
<1>1. CASE UNCHANGED <<cpc, want, ce, gateClosed, current, generation, scope>>
    BY <1>1, ClosingKeeps DEF Unused
<1>2. ASSUME NEW s \in Sessions, DialPick(s) PROVE ScopeInv'
    BY <1>1, <1>2 DEF DialPick
<1>3. ASSUME NEW s \in Sessions, AddIn(s) PROVE ScopeInv'
    BY <1>1, <1>3 DEF AddIn
<1>4. ASSUME NEW s \in Sessions, Operation(s) PROVE ScopeInv'
    BY <1>1, <1>4 DEF Operation
<1>5. ASSUME NEW s \in Sessions, CheckCtx(s) PROVE ScopeInv'
    BY <1>1, <1>5 DEF CheckCtx
<1>6. ASSUME NEW s \in Sessions, Cancel(s) PROVE ScopeInv'
    BY <1>1, <1>6 DEF Cancel
<1>7. ASSUME NEW s \in Sessions, DialConn(s) PROVE ScopeInv'
    BY <1>1, <1>7 DEF DialConn
<1>8. ASSUME NEW s \in Sessions, DialNil(s) PROVE ScopeInv'
    BY <1>1, <1>8 DEF DialNil
<1>9. ASSUME NEW s \in Sessions, DialErr(s) PROVE ScopeInv'
    BY <1>1, <1>9 DEF DialErr
<1>10. ASSUME NEW s \in Sessions, Judge(s) PROVE ScopeInv'
    BY <1>1, <1>10 DEF Judge
<1>11. ASSUME NEW s \in Sessions, TrackOut(s) PROVE ScopeInv'
    BY <1>1, <1>11 DEF TrackOut
<1>12. ASSUME NEW s \in Sessions, Recheck(s) PROVE ScopeInv'
    BY <1>1, <1>12 DEF Recheck
<1>13. ASSUME NEW s \in Sessions, RelayEnd(s) PROVE ScopeInv'
    BY <1>1, <1>13 DEF RelayEnd
<1>14. ASSUME NEW s \in Sessions, NEW k \in Kinds, CloseSideBegin(s, k) PROVE ScopeInv'
    BY <1>1, <1>14 DEF CloseSideBegin
<1>15. ASSUME NEW s \in Sessions, NEW k \in Kinds, CloseSideEnd(s, k) PROVE ScopeInv'
    BY <1>1, <1>15 DEF CloseSideEnd
<1>16. ASSUME NEW s \in Sessions, NEW k \in Kinds, SweepOne(s, k) PROVE ScopeInv'
    BY <1>1, <1>16 DEF SweepOne
<1>17. ASSUME NEW s \in Sessions, CloseSidesDone(s) PROVE ScopeInv'
    BY <1>1, <1>17 DEF CloseSidesDone
<1>18. ASSUME NEW s \in Sessions, Latch(s) PROVE ScopeInv'
  <2>1. ep[s] \in Gen
      BY <1>18, EpochsExist DEF Latch, LatchTarget
  <2>2. CloseScope(ep[s])
      BY <1>18 DEF Latch, LatchTarget
  <2>3. /\ UNCHANGED <<current, generation, ce>>
        /\ \A d \in Controllers :
              /\ cpc'[d] \in {"retire", "retired"} <=> cpc[d] \in {"retire", "retired"}
              /\ cpc'[d] \in {"vet", "install"} <=> cpc[d] \in {"vet", "install"}
              /\ Unused(d)' <=> Unused(d)
      BY <1>18 DEF Latch, Unused
  <2> QED
      BY <2>1, <2>2, <2>3, CloseScopeKeeps
<1>19. ASSUME NEW s \in Sessions, LatchPublish(s) PROVE ScopeInv'
    BY <1>1, <1>19 DEF LatchPublish
<1>20. ASSUME NEW s \in Sessions, Finish(s) PROVE ScopeInv'
    BY <1>1, <1>20 DEF Finish
<1>21. ASSUME NEW c \in Setters, NEW w \in {"nil", "net"}, Replace(c, w) PROVE ScopeInv'
  <2>1. c \in Controllers /\ Detach(c, w) /\ generation' = generation + 1 /\ generation < MaxGeneration
      BY <1>21 DEF Replace
  <2> QED
      BY <2>1, DetachKeeps
<1>22. CASE CloseGate(Closer)
  <2>1. Closer \in Controllers /\ Detach(Closer, "close") /\ generation' = generation
      BY <1>22 DEF CloseGate
  <2> QED
      BY <2>1, DetachKeeps
<1>23. ASSUME NEW c \in Controllers, Retire(c) PROVE ScopeInv'
  <2>1. ce[c] \in Gen
      BY <1>23, EpochsExist DEF Retire
  <2>2. CloseScope(ce[c])
      BY <1>23 DEF Retire
  <2>3. /\ UNCHANGED <<current, generation, ce>>
        /\ \A d \in Controllers :
              /\ cpc'[d] \in {"retire", "retired"} <=> cpc[d] \in {"retire", "retired"}
              /\ cpc'[d] \in {"vet", "install"} <=> cpc[d] \in {"vet", "install"}
              /\ Unused(d)' <=> Unused(d)
      BY <1>23 DEF Retire, Unused
  <2> QED
      BY <2>1, <2>2, <2>3, CloseScopeKeeps, ZenonT(60)
<1>24. ASSUME NEW c \in Controllers, Retired(c) PROVE ScopeInv'
  <2>1. \A d \in Controllers : d # c => cpc'[d] = cpc[d]
      BY <1>24, SMTT(90) DEF Retired
  <2> QED
      BY <1>24, <2>1, ShutKeeps, ZenonT(60)
<1>25. ASSUME NEW c \in Controllers, Proceed(c) PROVE ScopeInv'
  <2>1. \A d \in Controllers : d # c => cpc'[d] = cpc[d]
      BY <1>25 DEF Proceed
  <2> QED
      BY <1>25, <2>1, ShutKeeps
<1>26. ASSUME NEW c \in Controllers, Attach(c) PROVE ScopeInv'
    BY <1>26, SMTT(90) DEF Attach, ScopeInv, Held, Unused, ControlInv, Active, CLabels, Gen
<1>27. ASSUME NEW c \in Controllers, Reject(c) PROVE ScopeInv'
    BY <1>27, SMTT(90) DEF Reject, ScopeInv, Held, Unused, ControlInv, Active, CLabels, Gen
<1>28. ASSUME NEW c \in Controllers, Accept(c) PROVE ScopeInv'
    BY <1>28, SMTT(90) DEF Accept, IsOpen, ScopeInv, Held, Unused, ControlInv, Active, CLabels, Gen
<1>29. ASSUME NEW c \in Controllers, Install(c) PROVE ScopeInv'
    BY <1>29, SMTT(90) DEF Install, ScopeInv, Held, Unused, ControlInv, Active, CLabels, Gen
<1>30. ASSUME NEW g \in Gen, SweepEnd(g) PROVE ScopeInv'
  <2>1. ASSUME NEW h \in Gen
        PROVE  /\ scope'[h] = "none" <=> scope[h] = "none"
               /\ scope[h] = "done" => scope'[h] = "done"
    <3>1. scope[g] = "closing" /\ scope' = [scope EXCEPT ![g] = "done"]
        BY <1>30 DEF SweepEnd
    <3>2. scope'[h] = IF h = g THEN "done" ELSE scope[h]
        BY <3>1, SMTT(90)
    <3> QED
        BY <3>1, <3>2, SMTT(90)
  <2>3. /\ UNCHANGED <<current, generation, ce>>
        /\ \A d \in Controllers :
              /\ cpc'[d] \in {"retire", "retired"} <=> cpc[d] \in {"retire", "retired"}
              /\ cpc'[d] \in {"vet", "install"} <=> cpc[d] \in {"vet", "install"}
              /\ Unused(d)' <=> Unused(d)
      BY <1>30 DEF SweepEnd, Unused
  <2> QED
      BY <2>1, <2>3, ClosingKeeps, ZenonT(60) DEF Unused
<1>31. ASSUME NEW g \in Gen, Notify(g) PROVE ScopeInv'
  <2>1. g \in Gen
      BY <1>31, EpochsExist DEF Notify
  <2>2. CloseScope(g)
      BY <1>31 DEF Notify
  <2>3. /\ UNCHANGED <<current, generation, ce>>
        /\ \A d \in Controllers :
              /\ cpc'[d] \in {"retire", "retired"} <=> cpc[d] \in {"retire", "retired"}
              /\ cpc'[d] \in {"vet", "install"} <=> cpc[d] \in {"vet", "install"}
              /\ Unused(d)' <=> Unused(d)
      BY <1>31 DEF Notify, Unused
  <2> QED
      BY <2>1, <2>2, <2>3, CloseScopeKeeps
<1>32. ASSUME NEW g \in Gen, NotifyPublish(g) PROVE ScopeInv'
    BY <1>1, <1>32 DEF NotifyPublish
<1>33. CASE UNCHANGED vars
    BY <1>1, <1>33 DEF vars
<1> HIDE DEF TypeInv, Controllers, Goto, CGoto, Set, gate, session, controller
<1> QED
    BY <1>2, <1>3, <1>4, <1>5, <1>6, <1>7, <1>8, <1>9, <1>10, <1>11, <1>12, <1>13, <1>14,
       <1>15, <1>16, <1>17, <1>18, <1>19, <1>20, <1>21, <1>22, <1>23, <1>24, <1>25, <1>26,
       <1>27, <1>28, <1>29, <1>30, <1>31, <1>32, <1>33 DEF Next, Running, SessionStep,
       DialReturn, ControllerStep, Finished

\* Registrations follow the state of their scope.
LEMMA ResKept == TypeInv /\ ControlInv /\ ScopeInv /\ ResInv /\ [Next]_vars => ResInv'
<1> SUFFICES ASSUME TypeInv, ControlInv, ScopeInv, ResInv, [Next]_vars PROVE ResInv'
    OBVIOUS
<1>0. \A g \in Gen : CloseScope(g) /\ UNCHANGED ep => ResInv'
    BY CloseScopeDooms
<1>1. CASE UNCHANGED <<scope, ep, res>>
    BY <1>1 DEF ResInv
<1>34. \A s \in Sessions : \A k \in Kinds : \A v \in {"raw", "closing", "closed"} :
          Set(s, k, v) /\ UNCHANGED <<scope, ep>> => ResInv'
    BY SetKeepsRes
<1>35. \A s \in Sessions : \A k \in Kinds :
          Set(s, k, Admitted(ep[s])) /\ pc[s] \notin {"start", "end"} /\ UNCHANGED <<scope, ep>> => ResInv'
  <2>1. \A s \in Sessions : pc[s] \notin {"start", "end"} => ep[s] \in Gen
      BY EpochsExist
  <2>2. \A g \in Gen : /\ Admitted(g) = "live" => scope[g] = "open"
                       /\ Admitted(g) \in {"live", "closed"}
      BY DEF Admitted, IsOpen
  <2> QED
      BY <2>1, <2>2, SetKeepsRes
<1>36. {"in", "op", "out"} = Kinds
    BY DEF Kinds
<1> USE DEF gate, session, controller
<1>2. ASSUME NEW s \in Sessions, DialPick(s) PROVE ResInv'
  <2>1. CASE UNCHANGED ep
      BY <1>1, <1>2, <2>1 DEF DialPick
  <2>2. CASE ep' = [ep EXCEPT ![s] = current]
    <3>1. \A k \in Kinds : res[s][k] = "none"
        BY <1>2 DEF DialPick, TypeInv
    <3>2. ep \in [Sessions -> 0 .. MaxGeneration] /\ UNCHANGED <<scope, res>>
        BY <1>2 DEF DialPick, TypeInv
    <3>3. \A p \in Sessions : p # s => ep'[p] = ep[p]
        BY <2>2, <3>2
    <3> QED
        BY <3>1, <3>2, <3>3, SMTT(90) DEF ResInv
  <2> QED
      BY <1>2, <2>1, <2>2 DEF DialPick
<1>3. ASSUME NEW s \in Sessions, AddIn(s) PROVE ResInv'
    BY <1>3, <1>35, <1>36 DEF AddIn
<1>4. ASSUME NEW s \in Sessions, Operation(s) PROVE ResInv'
    BY <1>4, <1>35, <1>36 DEF Operation
<1>5. ASSUME NEW s \in Sessions, CheckCtx(s) PROVE ResInv'
    BY <1>1, <1>5 DEF CheckCtx
<1>6. ASSUME NEW s \in Sessions, Cancel(s) PROVE ResInv'
    BY <1>1, <1>6 DEF Cancel
<1>7. ASSUME NEW s \in Sessions, DialConn(s) PROVE ResInv'
    BY <1>7, <1>34, <1>36 DEF DialConn
<1>8. ASSUME NEW s \in Sessions, DialNil(s) PROVE ResInv'
    BY <1>1, <1>8 DEF DialNil
<1>9. ASSUME NEW s \in Sessions, DialErr(s) PROVE ResInv'
    BY <1>1, <1>9 DEF DialErr
<1>10. ASSUME NEW s \in Sessions, Judge(s) PROVE ResInv'
    BY <1>1, <1>10 DEF Judge
<1>11. ASSUME NEW s \in Sessions, TrackOut(s) PROVE ResInv'
    BY <1>11, <1>35, <1>36 DEF TrackOut
<1>12. ASSUME NEW s \in Sessions, Recheck(s) PROVE ResInv'
    BY <1>1, <1>12, <1>34, <1>36 DEF Recheck
<1>13. ASSUME NEW s \in Sessions, RelayEnd(s) PROVE ResInv'
    BY <1>1, <1>13 DEF RelayEnd
<1>14. ASSUME NEW s \in Sessions, NEW k \in Kinds, CloseSideBegin(s, k) PROVE ResInv'
  <2>1. CASE res[s][k] = "live"
      BY <1>14, <1>34, <2>1 DEF CloseSideBegin
  <2>2. CASE res[s][k] = "doomed"
    <3>1. ep[s] \in Gen /\ scope[ep[s]] = "closing"
        BY <2>2 DEF ResInv
    <3>2. Set(s, k, "claimed") /\ UNCHANGED <<scope, ep>>
        BY <1>14, <2>2 DEF CloseSideBegin
    <3> QED
        BY <3>1, <3>2, SetKeepsRes
  <2> QED
      BY <1>14, <2>1, <2>2 DEF CloseSideBegin
<1>15. ASSUME NEW s \in Sessions, NEW k \in Kinds, CloseSideEnd(s, k) PROVE ResInv'
    BY <1>15, <1>34 DEF CloseSideEnd
<1>16. ASSUME NEW s \in Sessions, NEW k \in Kinds, SweepOne(s, k) PROVE ResInv'
    BY <1>16, <1>34 DEF SweepOne, Set
<1>17. ASSUME NEW s \in Sessions, CloseSidesDone(s) PROVE ResInv'
    BY <1>1, <1>17 DEF CloseSidesDone
<1>18. ASSUME NEW s \in Sessions, Latch(s) PROVE ResInv'
  <2>1. ep[s] \in Gen
      BY <1>18, EpochsExist DEF Latch, LatchTarget
  <2> QED
      BY <1>0, <1>18, <2>1 DEF Latch, LatchTarget
<1>19. ASSUME NEW s \in Sessions, LatchPublish(s) PROVE ResInv'
    BY <1>1, <1>19 DEF LatchPublish
<1>20. ASSUME NEW s \in Sessions, Finish(s) PROVE ResInv'
    BY <1>1, <1>20, <1>34, <1>36 DEF Finish
<1>21. ASSUME NEW c \in Setters, NEW w \in {"nil", "net"}, Replace(c, w) PROVE ResInv'
    BY <1>1, <1>21 DEF Replace, Detach
<1>22. CASE CloseGate(Closer)
    BY <1>1, <1>22 DEF CloseGate, Detach
<1>23. ASSUME NEW c \in Controllers, Retire(c) PROVE ResInv'
  <2>1. ce[c] \in Gen
      BY <1>23, EpochsExist DEF Retire
  <2> QED
      BY <1>0, <1>23, <2>1 DEF Retire
<1>24. ASSUME NEW c \in Controllers, Retired(c) PROVE ResInv'
    BY <1>1, <1>24 DEF Retired
<1>25. ASSUME NEW c \in Controllers, Proceed(c) PROVE ResInv'
    BY <1>1, <1>25 DEF Proceed
<1>26. ASSUME NEW c \in Controllers, Attach(c) PROVE ResInv'
  <2>1. generation \in Gen
      BY <1>26, EpochsExist DEF Attach, ControlInv, Active
  <2>2. scope[generation] = "none"
      BY <1>26 DEF Attach, ControlInv, ScopeInv, Unused
  <2>3. scope' = [scope EXCEPT ![generation] = "open"] /\ UNCHANGED <<ep, res>>
      BY <1>26 DEF Attach
  <2>4. \A g \in Gen : g # generation => scope'[g] = scope[g]
      BY <2>3, SMTT(90) DEF TypeInv
  <2> QED
      BY <2>2, <2>3, <2>4 DEF ResInv
<1>27. ASSUME NEW c \in Controllers, Reject(c) PROVE ResInv'
    BY <1>1, <1>27, ZenonT(60) DEF Reject
<1>28. ASSUME NEW c \in Controllers, Accept(c) PROVE ResInv'
    BY <1>1, <1>28 DEF Accept
<1>29. ASSUME NEW c \in Controllers, Install(c) PROVE ResInv'
    BY <1>1, <1>29 DEF Install
<1>30. ASSUME NEW g \in Gen, SweepEnd(g) PROVE ResInv'
  <2>1. scope' = [scope EXCEPT ![g] = "done"] /\ scope[g] = "closing" /\ UNCHANGED <<ep, res>>
      BY <1>30 DEF SweepEnd
  <2>2. \A h \in Gen : h # g => scope'[h] = scope[h]
      BY <2>1, SMTT(90) DEF TypeInv
  <2>3. \A s \in Sessions : ep[s] = g => \A k \in Kinds : res[s][k] \notin {"live", "doomed", "claimed"}
      BY <1>30, <2>1 DEF SweepEnd, Swept, ResInv
  <2> QED
      BY <2>1, <2>2, <2>3 DEF ResInv
<1>31. ASSUME NEW g \in Gen, Notify(g) PROVE ResInv'
    BY <1>0, <1>31 DEF Notify
<1>32. ASSUME NEW g \in Gen, NotifyPublish(g) PROVE ResInv'
    BY <1>1, <1>32, ZenonT(60) DEF NotifyPublish
<1>33. CASE UNCHANGED vars
    BY <1>1, <1>33 DEF vars
<1> QED
    BY <1>2, <1>3, <1>4, <1>5, <1>6, <1>7, <1>8, <1>9, <1>10, <1>11, <1>12, <1>13, <1>14,
       <1>15, <1>16, <1>17, <1>18, <1>19, <1>20, <1>21, <1>22, <1>23, <1>24, <1>25, <1>26,
       <1>27, <1>28, <1>29, <1>30, <1>31, <1>32, <1>33 DEF Next, Running, SessionStep,
       DialReturn, ControllerStep, Finished

\* A latched epoch stays shut.
LEMMA LatchKept == TypeInv /\ ControlInv /\ ScopeInv /\ LatchInv /\ [Next]_vars => LatchInv'
<1> SUFFICES ASSUME TypeInv, ControlInv, ScopeInv, LatchInv, [Next]_vars PROVE LatchInv'
    OBVIOUS
<1>0. \A g \in Gen : CloseScope(g) => \A h \in latched : scope'[h] = "open" => scope[h] = "open" /\ h # g
  <2>1. latched \subseteq Gen
      BY DEF TypeInv
  <2> QED
      BY <2>1, CloseScopeShuts
<1>1. CASE /\ UNCHANGED <<cpc, want, ce, generation, latched>>
           /\ \A h \in latched : scope'[h] = "open" => scope[h] = "open"
    BY <1>1 DEF LatchInv, Unused
<1> USE GateAssumption DEF TypeInv, CLabels, ControlInv, ScopeInv, LatchInv, Held, Unused, Active, Gen,
   Controllers, Goto, CGoto, Set, gate, session, controller
<1>2. ASSUME NEW s \in Sessions, DialPick(s) PROVE LatchInv'
    BY <1>1, <1>2, ZenonT(60) DEF DialPick
<1>3. ASSUME NEW s \in Sessions, AddIn(s) PROVE LatchInv'
    BY <1>1, <1>3, ZenonT(60) DEF AddIn
<1>4. ASSUME NEW s \in Sessions, Operation(s) PROVE LatchInv'
    BY <1>1, <1>4, ZenonT(60) DEF Operation
<1>5. ASSUME NEW s \in Sessions, CheckCtx(s) PROVE LatchInv'
    BY <1>1, <1>5, ZenonT(60) DEF CheckCtx
<1>6. ASSUME NEW s \in Sessions, Cancel(s) PROVE LatchInv'
    BY <1>1, <1>6, ZenonT(60) DEF Cancel
<1>7. ASSUME NEW s \in Sessions, DialConn(s) PROVE LatchInv'
    BY <1>1, <1>7, ZenonT(60) DEF DialConn
<1>8. ASSUME NEW s \in Sessions, DialNil(s) PROVE LatchInv'
    BY <1>1, <1>8, ZenonT(60) DEF DialNil
<1>9. ASSUME NEW s \in Sessions, DialErr(s) PROVE LatchInv'
    BY <1>1, <1>9, ZenonT(60) DEF DialErr
<1>10. ASSUME NEW s \in Sessions, Judge(s) PROVE LatchInv'
    BY <1>1, <1>10, ZenonT(60) DEF Judge
<1>11. ASSUME NEW s \in Sessions, TrackOut(s) PROVE LatchInv'
    BY <1>1, <1>11, ZenonT(60) DEF TrackOut
<1>12. ASSUME NEW s \in Sessions, Recheck(s) PROVE LatchInv'
    BY <1>1, <1>12, ZenonT(60) DEF Recheck
<1>13. ASSUME NEW s \in Sessions, RelayEnd(s) PROVE LatchInv'
    BY <1>1, <1>13, ZenonT(60) DEF RelayEnd
<1>14. ASSUME NEW s \in Sessions, NEW k \in Kinds, CloseSideBegin(s, k) PROVE LatchInv'
    BY <1>1, <1>14, ZenonT(60) DEF CloseSideBegin
<1>15. ASSUME NEW s \in Sessions, NEW k \in Kinds, CloseSideEnd(s, k) PROVE LatchInv'
    BY <1>1, <1>15, ZenonT(60) DEF CloseSideEnd
<1>16. ASSUME NEW s \in Sessions, NEW k \in Kinds, SweepOne(s, k) PROVE LatchInv'
    BY <1>1, <1>16, ZenonT(60) DEF SweepOne
<1>17. ASSUME NEW s \in Sessions, CloseSidesDone(s) PROVE LatchInv'
    BY <1>1, <1>17, ZenonT(60) DEF CloseSidesDone
<1>18. ASSUME NEW s \in Sessions, Latch(s) PROVE LatchInv'
  <2>1. ep[s] \in Gen
      BY <1>18, EpochsExist, ZenonT(60) DEF Latch, LatchTarget
  <2>2. \A h \in latched : scope'[h] = "open" => scope[h] = "open"
      BY <1>0, <1>18, <2>1 DEF Latch, LatchTarget
  <2> QED
      BY <1>1, <1>18, <2>2 DEF Latch
<1>19. ASSUME NEW s \in Sessions, LatchPublish(s) PROVE LatchInv'
    BY <1>19, SMTT(90) DEF LatchPublish
<1>20. ASSUME NEW s \in Sessions, Finish(s) PROVE LatchInv'
    BY <1>1, <1>20, ZenonT(60) DEF Finish
<1>21. ASSUME NEW c \in Setters, NEW w \in {"nil", "net"}, Replace(c, w) PROVE LatchInv'
    BY <1>21, SMTT(90) DEF Replace, Detach, ChangeFree
<1>22. CASE CloseGate(Closer)
    BY <1>22, ZenonT(60) DEF CloseGate, Detach, ChangeFree
<1>23. ASSUME NEW c \in Controllers, Retire(c) PROVE LatchInv'
  <2>1. ce[c] \in Gen
      BY <1>23 DEF Retire
  <2>4. /\ UNCHANGED <<want, ce, generation, latched>>
        /\ cpc[c] = "retire" /\ cpc'[c] = "retired"
        /\ \A d \in Controllers : d # c => cpc'[d] = cpc[d] /\ cpc[d] \in {"idle", "closed"}
      BY <1>23, ZenonT(60) DEF Retire
  <2>5. \A h \in latched : scope'[h] = "open" => scope[h] = "open" /\ h # ce[c]
      BY <1>0, <1>23, <2>1 DEF Retire
  <2> HIDE DEF TypeInv, ControlInv, ScopeInv
  <2>6. ASSUME NEW h \in latched, scope'[h] = "open" PROVE FALSE
    <3>1. scope[h] = "open" /\ h # ce[c]
        BY <2>5, <2>6, ZenonT(60)
    <3>2. PICK d \in Controllers : cpc[d] = "retire" /\ ce[d] = h
        BY <3>1, ZenonT(60) DEF LatchInv
    <3>3. d # c
        BY <3>1, <3>2, ZenonT(60)
    <3> QED
        BY <2>4, <3>2, <3>3, ZenonT(60)
  <2>7. \A d \in Controllers : Unused(d)' => Unused(d)
      BY <2>4, ZenonT(60)
  <2> HIDE DEF Unused, Controllers, Gen
  <2> QED
      BY <2>4, <2>6, <2>7, ZenonT(60)
<1>24. ASSUME NEW c \in Controllers, Retired(c) PROVE LatchInv'
  <2>1. \A h \in Gen : scope[h] \in {"none", "done"}
      BY <1>24, RetiredShut, ZenonT(60) DEF Retired
  <2>2. /\ UNCHANGED <<current, generation, want, ce, scope>> /\ cpc[c] = "retired"
        /\ \A d \in Controllers : d # c => cpc'[d] = cpc[d]
      BY <1>24, SMTT(90) DEF Retired
  <2>3. \A d \in Controllers : d # c => cpc[d] \in {"idle", "closed"}
      BY <2>2, ZenonT(60)
  <2>4. CASE CGoto(c, "proceed") /\ UNCHANGED latched
      BY <2>1, <2>2, <2>3, <2>4, SMTT(90)
  <2>5. CASE ce[c] < generation /\ latched' = latched \cup {generation} /\ CGoto(c, "idle")
      BY <2>1, <2>2, <2>3, <2>5, SMTT(90)
  <2> QED
      BY <1>24, <2>4, <2>5, ZenonT(60) DEF Retired
<1>25. ASSUME NEW c \in Controllers, Proceed(c) PROVE LatchInv'
    BY <1>25, SMTT(90) DEF Proceed
<1>26. ASSUME NEW c \in Controllers, Attach(c) PROVE LatchInv'
    BY <1>26, SMTT(90) DEF Attach
<1>27. ASSUME NEW c \in Controllers, Reject(c) PROVE LatchInv'
    BY <1>27, SMTT(90) DEF Reject
<1>28. ASSUME NEW c \in Controllers, Accept(c) PROVE LatchInv'
    BY <1>28, SMTT(90) DEF Accept, IsOpen
<1>29. ASSUME NEW c \in Controllers, Install(c) PROVE LatchInv'
    BY <1>29 DEF Install
<1>30. ASSUME NEW g \in Gen, SweepEnd(g) PROVE LatchInv'
    BY <1>30, SMTT(90) DEF SweepEnd, Swept
<1>31. ASSUME NEW g \in Gen, Notify(g) PROVE LatchInv'
  <2>1. \A h \in latched : scope'[h] = "open" => scope[h] = "open"
      BY <1>0, <1>31 DEF Notify
  <2> QED
      BY <1>1, <1>31, <2>1 DEF Notify
<1>32. ASSUME NEW g \in Gen, NotifyPublish(g) PROVE LatchInv'
    BY <1>32, SMTT(90) DEF NotifyPublish
<1>33. CASE UNCHANGED vars
    BY <1>1, <1>33, ZenonT(60) DEF vars
<1> HIDE DEF TypeInv, CLabels, ControlInv, ScopeInv, LatchInv, Held, Unused, Active, Gen, Controllers,
   Goto, CGoto, Set, gate, session, controller
<1> QED
    BY <1>2, <1>3, <1>4, <1>5, <1>6, <1>7, <1>8, <1>9, <1>10, <1>11, <1>12, <1>13, <1>14,
       <1>15, <1>16, <1>17, <1>18, <1>19, <1>20, <1>21, <1>22, <1>23, <1>24, <1>25, <1>26,
       <1>27, <1>28, <1>29, <1>30, <1>31, <1>32, <1>33 DEF Next, Running, SessionStep,
       DialReturn, ControllerStep, Finished

\* The only steps that close the installed epoch are its own, and none reopens one.
LEMMA LatchesOwn ==
    ASSUME TypeInv, ControlInv, ScopeInv, [Next]_vars, NEW h \in Gen
    PROVE  /\ scope[h] = "done" => scope'[h] = "done"
           /\ (Available(h) /\ scope'[h] # "open") =>
                 \/ cb[h] = "on" /\ cb'[h] = "wait"
                 \/ \E s \in Sessions : ep[s] = h /\ pc[s] = "latch" /\ pc'[s] = "latched"
<1> DEFINE Own ==
      /\ scope[h] = "done" => scope'[h] = "done"
      /\ (Available(h) /\ scope'[h] # "open") =>
            \/ cb[h] = "on" /\ cb'[h] = "wait"
            \/ \E s \in Sessions : ep[s] = h /\ pc[s] = "latch" /\ pc'[s] = "latched"
<1> SUFFICES Own
    BY ZenonT(60)
<1> USE GateAssumption DEF TypeInv, CLabels, ControlInv, ScopeInv, Held, Unused, Active, Gen,
   Controllers, Available, IsOpen, Goto, CGoto, Set, gate, session, controller
<1>1. CASE UNCHANGED scope
    BY <1>1
<1>2. ASSUME NEW s \in Sessions, DialPick(s) PROVE Own
    BY <1>1, <1>2, ZenonT(60) DEF DialPick
<1>3. ASSUME NEW s \in Sessions, AddIn(s) PROVE Own
    BY <1>1, <1>3, ZenonT(60) DEF AddIn
<1>4. ASSUME NEW s \in Sessions, Operation(s) PROVE Own
    BY <1>1, <1>4 DEF Operation
<1>5. ASSUME NEW s \in Sessions, CheckCtx(s) PROVE Own
    BY <1>1, <1>5 DEF CheckCtx
<1>6. ASSUME NEW s \in Sessions, Cancel(s) PROVE Own
    BY <1>1, <1>6 DEF Cancel
<1>7. ASSUME NEW s \in Sessions, DialConn(s) PROVE Own
    BY <1>1, <1>7 DEF DialConn
<1>8. ASSUME NEW s \in Sessions, DialNil(s) PROVE Own
    BY <1>1, <1>8 DEF DialNil
<1>9. ASSUME NEW s \in Sessions, DialErr(s) PROVE Own
    BY <1>1, <1>9 DEF DialErr
<1>10. ASSUME NEW s \in Sessions, Judge(s) PROVE Own
    BY <1>1, <1>10 DEF Judge
<1>11. ASSUME NEW s \in Sessions, TrackOut(s) PROVE Own
    BY <1>1, <1>11 DEF TrackOut
<1>12. ASSUME NEW s \in Sessions, Recheck(s) PROVE Own
    BY <1>1, <1>12 DEF Recheck
<1>13. ASSUME NEW s \in Sessions, RelayEnd(s) PROVE Own
    BY <1>1, <1>13 DEF RelayEnd
<1>14. ASSUME NEW s \in Sessions, NEW k \in Kinds, CloseSideBegin(s, k) PROVE Own
    BY <1>1, <1>14, ZenonT(60) DEF CloseSideBegin
<1>15. ASSUME NEW s \in Sessions, NEW k \in Kinds, CloseSideEnd(s, k) PROVE Own
    BY <1>1, <1>15, ZenonT(60) DEF CloseSideEnd
<1>16. ASSUME NEW s \in Sessions, NEW k \in Kinds, SweepOne(s, k) PROVE Own
    BY <1>1, <1>16 DEF SweepOne
<1>17. ASSUME NEW s \in Sessions, CloseSidesDone(s) PROVE Own
    BY <1>1, <1>17 DEF CloseSidesDone
<1>18. ASSUME NEW s \in Sessions, Latch(s) PROVE Own
    BY <1>18, SMTT(90) DEF Latch, LatchTarget, CloseScope, Doomed, IsOpen
<1>19. ASSUME NEW s \in Sessions, LatchPublish(s) PROVE Own
    BY <1>1, <1>19 DEF LatchPublish
<1>20. ASSUME NEW s \in Sessions, Finish(s) PROVE Own
    BY <1>1, <1>20 DEF Finish
<1>21. ASSUME NEW c \in Setters, NEW w \in {"nil", "net"}, Replace(c, w) PROVE Own
    BY <1>1, <1>21 DEF Replace, Detach
<1>22. CASE CloseGate(Closer)
    BY <1>1, <1>22 DEF CloseGate, Detach
<1>23. ASSUME NEW c \in Controllers, Retire(c) PROVE Own
    BY <1>23, SMTT(90) DEF Retire, CloseScope, Doomed, IsOpen
<1>24. ASSUME NEW c \in Controllers, Retired(c) PROVE Own
    BY <1>1, <1>24, ZenonT(60) DEF Retired
<1>25. ASSUME NEW c \in Controllers, Proceed(c) PROVE Own
    BY <1>1, <1>25 DEF Proceed
<1>26. ASSUME NEW c \in Controllers, Attach(c) PROVE Own
    BY <1>26, SMTT(90) DEF Attach
<1>27. ASSUME NEW c \in Controllers, Reject(c) PROVE Own
    BY <1>1, <1>27, ZenonT(60) DEF Reject
<1>28. ASSUME NEW c \in Controllers, Accept(c) PROVE Own
    BY <1>1, <1>28 DEF Accept
<1>29. ASSUME NEW c \in Controllers, Install(c) PROVE Own
    BY <1>1, <1>29 DEF Install
<1>30. ASSUME NEW g \in Gen, SweepEnd(g) PROVE Own
    BY <1>30, SMTT(90) DEF SweepEnd, Swept
<1>31. ASSUME NEW g \in Gen, Notify(g) PROVE Own
    BY <1>31, SMTT(90) DEF Notify, CloseScope, Doomed, IsOpen
<1>32. ASSUME NEW g \in Gen, NotifyPublish(g) PROVE Own
    BY <1>1, <1>32 DEF NotifyPublish
<1>33. CASE UNCHANGED vars
    BY <1>1, <1>33 DEF vars
<1> HIDE DEF Own, TypeInv, CLabels, ControlInv, ScopeInv, Held, Unused, Active, Gen, Controllers,
   Available, IsOpen, Goto, CGoto, Set, gate, session, controller
<1> QED
    BY <1>2, <1>3, <1>4, <1>5, <1>6, <1>7, <1>8, <1>9, <1>10, <1>11, <1>12, <1>13, <1>14,
       <1>15, <1>16, <1>17, <1>18, <1>19, <1>20, <1>21, <1>22, <1>23, <1>24, <1>25, <1>26,
       <1>27, <1>28, <1>29, <1>30, <1>31, <1>32, <1>33 DEF Next, Running, SessionStep,
       DialReturn, ControllerStep, Finished
-----------------------------------------------------------------------------
\* Every step keeps the invariant.
LEMMA StepKeeps == IInv /\ [Next]_vars => IInv'
    BY TypeKept, ControlKept, ScopeKept, ResKept, LatchKept DEF IInv

\* The inductive invariant holds.
LEMMA Invariance == Spec => []IInv
    BY InitIInv, StepKeeps, PTL DEF Spec

\* What the invariant says of the gate in every state.
LEMMA GateFacts == IInv => EpochsDoNotOverlap /\ ClosedEpochHoldsNothing /\ LatchedStaysBlocked
<1> SUFFICES ASSUME IInv PROVE EpochsDoNotOverlap /\ ClosedEpochHoldsNothing /\ LatchedStaysBlocked
    OBVIOUS
<1>1. EpochsDoNotOverlap
    BY GateAssumption DEF IInv, TypeInv, ControlInv, ScopeInv, Held, Active, Controllers, CLabels,
       EpochsDoNotOverlap
<1>2. ClosedEpochHoldsNothing
    BY ZenonT(60) DEF IInv, ResInv, ClosedEpochHoldsNothing
<1>3. LatchedStaysBlocked
    BY SMTT(90) DEF IInv, TypeInv, ControlInv, LatchInv, Active, Gen, Available, IsOpen, LatchedStaysBlocked
<1> QED
    BY <1>1, <1>2, <1>3

\* While an epoch is installed, and after gate.Close, every other epoch is shut
\* (proxy.go:87, 131, 136), for any number of replacements.
THEOREM NoOverlap == Spec => []EpochsDoNotOverlap
    BY GateFacts, Invariance, PTL

\* A closed epoch holds no connection and no context (proxy.go:162, 192).
THEOREM ClosedHoldsNothing == Spec => []ClosedEpochHoldsNothing
    BY GateFacts, Invariance, PTL

\* After a Latched event only SetOutbound makes the gate available again
\* (events.go, OutboundEvent.Latched).
THEOREM LatchedIsBlocked == Spec => []LatchedStaysBlocked
    BY GateFacts, Invariance, PTL

\* Only the network and the sessions of the installed epoch close it, and a closed
\* epoch is never reopened (proxy.go:68, 170).
THEOREM OwnFailuresLatch == Spec => OnlyOwnFailuresLatch
<1>1. IInv /\ [Next]_vars =>
        [\A g \in Gen :
           /\ scope[g] = "done" => scope'[g] = "done"
           /\ (Available(g) /\ scope'[g] # "open") =>
                 \/ cb[g] = "on" /\ cb'[g] = "wait"
                 \/ \E s \in Sessions : ep[s] = g /\ pc[s] = "latch" /\ pc'[s] = "latched"]_vars
    BY LatchesOwn DEF IInv
<1> QED
    BY <1>1, Invariance, PTL DEF Spec, OnlyOwnFailuresLatch

-----------------------------------------------------------------------------
(* ProxyServer.                                                             *)

\* What a session holds at which position: dial and relay close both sides before
\* the failure is judged, and the deferred finish drops the context.
SideInv ==
    \A s \in Sessions :
        /\ res[s]["op"] \in {"none", "live", "doomed", "closed"}
        /\ res[s]["in"] # "raw"
        /\ res[s]["out"] = "raw" <=> pc[s] = "track"
        /\ pc[s] = "start" => \A k \in Kinds : res[s][k] = "none"
        /\ pc[s] = "add" => res[s]["in"] = "none"
        /\ pc[s] \in {"add", "operation"} => res[s]["op"] = "none"
        /\ pc[s] \in {"check", "dial", "track", "recheck"} => res[s]["op"] # "none"
        /\ pc[s] \in {"add", "operation", "check", "dial"} => res[s]["out"] = "none"
        /\ pc[s] \in {"judge", "finish", "end"} =>
              res[s]["in"] \in {"none", "closed"} /\ res[s]["out"] \in {"none", "closed"}
        /\ pc[s] = "end" => res[s]["op"] \in {"none", "closed"}

\* The values of the server's variables.
ServerType ==
    /\ listening \in BOOLEAN /\ pscope \in {"open", "closing", "done"}
    /\ accept \in {"accept", "limit", "track", "done"} /\ hand \in Sessions \cup {Nobody}
    /\ stage \in [Sessions -> {"free", "accepted", "shake", "dial", "return", "leave", "gone"}]
    /\ inc \in [Sessions -> {"none", "raw", "open", "closed"}]
    /\ ppc \in {"idle", "scope", "wait", "closed"}

\* The connection in hand is the only one that is accepted and has no handler.
HandInv ==
    /\ accept \in {"limit", "track"} => hand \in Sessions /\ stage[hand] = "accepted"
    /\ \A s \in Sessions : stage[s] = "accepted" => s = hand /\ accept \in {"limit", "track"}
    /\ ppc = "closed" => AllGone

\* Where the inbound connection and the dial of a handler can be.
StageInv ==
    \A s \in Sessions :
        /\ stage[s] = "free" <=> inc[s] = "none"
        /\ stage[s] = "accepted" => inc[s] = "raw"
        /\ stage[s] \in {"leave", "gone"} => inc[s] = "closed"
        /\ stage[s] \in {"free", "accepted", "shake"} => pc[s] = "start"
        /\ stage[s] \in {"return", "leave", "gone"} => pc[s] \in {"start", "end"}

\* A slot is held by every handler, and by the connection in hand until it has one.
SlotInv ==
    /\ IsFiniteSet(Handlers)
    /\ slots = Cardinality(Handlers) + (IF accept = "track" THEN 1 ELSE 0)
    /\ slots <= Limit

\* The inductive invariant.
PInv == IInv /\ SideInv /\ ServerType /\ HandInv /\ StageInv /\ SlotInv

\* A session at rest: not begun, or over.
Rests == \A s \in Sessions : pc[s] \in {"start", "end"} => pc'[s] = pc[s]

\* Every step of a session, of SetOutbound and of a scope keeps what a session holds
\* in step with its position, and a session at rest stays there.
LEMMA SidesKept ==
    ASSUME pc \in [Sessions -> Labels], res \in [Sessions -> [Kinds -> Status]],
           next \in [Sessions -> {"finish", "latch", "judge"}], SideInv, Running
    PROVE  SideInv' /\ Rests
<1>1. ASSUME UNCHANGED <<pc, res>> PROVE SideInv' /\ Rests
  BY <1>1, SMTT(90) DEF SideInv, Rests
<1>2. ASSUME NEW s \in Sessions, Cancel(s) PROVE SideInv' /\ Rests
  BY <1>1, <1>2 DEF Cancel, session
<1>3. ASSUME NEW s \in Sessions, AddIn(s) PROVE SideInv' /\ Rests
  BY <1>3, SMTT(90) DEF AddIn, Admitted, SideInv, Rests, Kinds, Status, Goto, Set
<1>4. ASSUME NEW s \in Sessions, Operation(s) PROVE SideInv' /\ Rests
  BY <1>4, SMTT(90) DEF Operation, Admitted, SideInv, Rests, Kinds, Status, Goto, Set
<1>5. ASSUME NEW s \in Sessions, CheckCtx(s) PROVE SideInv' /\ Rests
  BY <1>5, SMTT(90) DEF CheckCtx, SideInv, Rests, Kinds, Status, Goto
<1>6. ASSUME NEW s \in Sessions, Judge(s) PROVE SideInv' /\ Rests
  BY <1>6, SMTT(90) DEF Judge, SideInv, Rests, Kinds, Status, Goto
<1>7. ASSUME NEW s \in Sessions, TrackOut(s) PROVE SideInv' /\ Rests
  BY <1>7, SMTT(90) DEF TrackOut, Admitted, SideInv, Rests, Kinds, Status, Goto, Set
<1>8. ASSUME NEW s \in Sessions, Recheck(s) PROVE SideInv' /\ Rests
  BY <1>8, SMTT(90) DEF Recheck, SideInv, Rests, Kinds, Status, Goto, Set
<1>9. ASSUME NEW s \in Sessions, CloseSidesDone(s) PROVE SideInv' /\ Rests
  BY <1>9, SMTT(90) DEF CloseSidesDone, SideInv, Rests, Kinds, Status, Goto
<1>10. ASSUME NEW s \in Sessions, Latch(s) PROVE SideInv' /\ Rests
  BY <1>10, SMTT(90) DEF Latch, LatchTarget, CloseScope, Doomed, SideInv, Rests, Kinds, Status, Goto
<1>11. ASSUME NEW s \in Sessions, LatchPublish(s) PROVE SideInv' /\ Rests
  BY <1>11, SMTT(90) DEF LatchPublish, SideInv, Rests, Kinds, Status, Goto
<1>12. ASSUME NEW s \in Sessions, Finish(s) PROVE SideInv' /\ Rests
  BY <1>12, SMTT(90) DEF Finish, SideInv, Rests, Kinds, Status, Goto, Set
<1>13. ASSUME NEW s \in Sessions, NEW k \in Kinds, CloseSideBegin(s, k) PROVE SideInv' /\ Rests
  BY <1>13, SMTT(90) DEF CloseSideBegin, session, SideInv, Rests, Kinds, Status, Set
<1>14. ASSUME NEW s \in Sessions, NEW k \in Kinds, CloseSideEnd(s, k) PROVE SideInv' /\ Rests
  BY <1>14, SMTT(90) DEF CloseSideEnd, session, SideInv, Rests, Kinds, Status, Set
<1>15. ASSUME NEW s \in Sessions, DialConn(s) PROVE SideInv' /\ Rests
  BY <1>15, SMTT(90) DEF DialConn, SideInv, Rests, Kinds, Status, Goto, Set
<1>16. ASSUME NEW s \in Sessions, DialNil(s) PROVE SideInv' /\ Rests
  BY <1>16 DEF DialNil, SideInv, Rests, Kinds, Status, Goto
<1>17. ASSUME NEW s \in Sessions, DialErr(s) PROVE SideInv' /\ Rests
  BY <1>17, SMTT(90) DEF DialErr, SideInv, Rests, Kinds, Status, Goto
<1>18. ASSUME NEW s \in Sessions, RelayEnd(s) PROVE SideInv' /\ Rests
  BY <1>18, SMTT(90) DEF RelayEnd, SideInv, Rests, Kinds, Status, Goto
<1>19. ASSUME NEW s \in Sessions, NEW k \in Kinds, SweepOne(s, k) PROVE SideInv' /\ Rests
  BY <1>19, SMTT(90) DEF SweepOne, session, SideInv, Rests, Kinds, Status
<1>20. ASSUME NEW c \in Setters, NEW w \in {"nil", "net"}, Replace(c, w) PROVE SideInv' /\ Rests
  BY <1>1, <1>20 DEF Replace, Detach, session
<1>21. ASSUME CloseGate(Closer) PROVE SideInv' /\ Rests
  BY <1>1, <1>21 DEF CloseGate, Detach, session
<1>22. ASSUME NEW c \in Controllers, Retire(c) PROVE SideInv' /\ Rests
  BY <1>22, SMTT(90) DEF Retire, CloseScope, Doomed, session, SideInv, Rests, Kinds, Status
<1>23. ASSUME NEW c \in Controllers, Retired(c) PROVE SideInv' /\ Rests
  BY <1>1, <1>23 DEF Retired, session
<1>24. ASSUME NEW c \in Controllers, Proceed(c) PROVE SideInv' /\ Rests
  BY <1>1, <1>24 DEF Proceed, session
<1>25. ASSUME NEW c \in Controllers, Attach(c) PROVE SideInv' /\ Rests
  BY <1>1, <1>25 DEF Attach, session
<1>26. ASSUME NEW c \in Controllers, Reject(c) PROVE SideInv' /\ Rests
  BY <1>1, <1>26 DEF Reject, session
<1>27. ASSUME NEW c \in Controllers, Accept(c) PROVE SideInv' /\ Rests
  BY <1>1, <1>27 DEF Accept, session
<1>28. ASSUME NEW c \in Controllers, Install(c) PROVE SideInv' /\ Rests
  BY <1>1, <1>28 DEF Install, session
<1>29. ASSUME NEW g \in Gen, SweepEnd(g) PROVE SideInv' /\ Rests
  BY <1>1, <1>29 DEF SweepEnd, session
<1>30. ASSUME NEW g \in Gen, Notify(g) PROVE SideInv' /\ Rests
  BY <1>30, SMTT(90) DEF Notify, CloseScope, Doomed, session, SideInv, Rests, Kinds, Status
<1>31. ASSUME NEW g \in Gen, NotifyPublish(g) PROVE SideInv' /\ Rests
  BY <1>1, <1>31 DEF NotifyPublish, session
<1> QED
  BY <1>2, <1>3, <1>4, <1>5, <1>6, <1>7, <1>8, <1>9, <1>10, <1>11, <1>12, <1>13, <1>14, <1>15,
     <1>16, <1>17, <1>18, <1>19, <1>20, <1>21, <1>22, <1>23, <1>24, <1>25, <1>26, <1>27, <1>28, <1>29, <1>30, <1>31
  DEF Running, SessionStep, DialReturn, ControllerStep

\* dial begins with nothing in hand, and begins for one session (proxy.go:154).
LEMMA PickKept ==
    ASSUME pc \in [Sessions -> Labels], SideInv, NEW s \in Sessions, DialPick(s)
    PROVE  SideInv' /\ \A t \in Sessions : t # s => pc'[t] = pc[t]
  BY SMTT(90) DEF DialPick, SideInv, Goto, Kinds

\* A step of the server is a step of the gate, leaves the gate alone, or cancels
\* the contexts of the handlers.
LEMMA GateStep ==
    ASSUME IInv, ProxyNext
    PROVE  IInv'
<1>1. CASE Running \/ \E s \in Sessions : DialPick(s)
  BY <1>1, StepKeeps DEF Next
<1>2. CASE UNCHANGED vars
  BY <1>2, StepKeeps
<1>3. CASE CloseProxy
  <2>1. UNCHANGED <<gateClosed, current, generation, scope, cb, latched, pc, ep, next, res, cpc, want, ce>>
    BY <1>3 DEF CloseProxy, gate, controller
  <2>2. TypeInv /\ ControlInv /\ ScopeInv /\ ResInv /\ LatchInv
    BY DEF IInv
  <2>3. TypeInv'
    BY <2>1, <2>2 DEF TypeInv
  <2>4. ControlInv'
    BY <2>1, <2>2 DEF ControlInv, Active
  <2>5. ScopeInv'
    BY <2>1, <2>2 DEF ScopeInv, Held, Unused
  <2>6. ResInv' /\ LatchInv'
    BY <2>1, <2>2 DEF ResInv, LatchInv, Unused
  <2> QED
    BY <2>3, <2>4, <2>5, <2>6 DEF IInv
<1> QED
  BY <1>1, <1>2, <1>3
  DEF ProxyNext, HandlerStep, ServeStep, CloseStep, Dial, Accepts, ShakeDone, ShakeFails, AfterFunc,
      HandleReturns, CloseTracked, Leave, AcceptFails, TakeSlot, OverLimit, Track, TrackRefused,
      SweepInc, CloseListener, ProxyClosed, ProxyFinished, allVars

\* The part of the gate's invariant that the lemmas below use.
LEMMA TypesOfGate ==
    ASSUME IInv
    PROVE  /\ pc \in [Sessions -> Labels] /\ res \in [Sessions -> [Kinds -> Status]]
           /\ next \in [Sessions -> {"finish", "latch", "judge"}]
  BY DEF IInv, TypeInv

\* The same for the steps of the server.
LEMMA SidesKeptByServer ==
    ASSUME IInv, SideInv, ProxyNext
    PROVE  SideInv'
<1>1. CASE Running
  BY <1>1, TypesOfGate, SidesKept
<1>2. CASE \E s \in Sessions : DialPick(s)
  BY <1>2, TypesOfGate, PickKept
<1>3. CASE UNCHANGED <<pc, res>>
  BY <1>3, SMTT(90) DEF SideInv
<1> QED
  BY <1>1, <1>2, <1>3
  DEF ProxyNext, HandlerStep, ServeStep, CloseStep, Dial, Accepts, ShakeDone, ShakeFails, AfterFunc,
      HandleReturns, CloseTracked, Leave, AcceptFails, TakeSlot, OverLimit, Track, TrackRefused,
      SweepInc, CloseListener, ProxyClosed, CloseProxy, ProxyFinished, allVars, vars

\* Every step of serve, of a handler and of proxyServer.Close keeps the positions and
\* the inbound connections in step (proxy.go:231-326).
LEMMA ServerKept ==
    ASSUME IInv, SideInv, ServerType, HandInv, StageInv, ProxyNext
    PROVE  (ServerType /\ HandInv /\ StageInv)'
<1> USE DEF ServerType, HandInv, StageInv, AllGone, Handlers
<1>1. CASE Running /\ UNCHANGED pvars
  <2>1. Rests
    BY <1>1, TypesOfGate, SidesKept
  <2> QED
    BY <1>1, <2>1 DEF Rests, pvars
<1>2. ASSUME NEW s \in Sessions, Dial(s) PROVE (ServerType /\ HandInv /\ StageInv)'
  <2>1. \A t \in Sessions : t # s => pc'[t] = pc[t]
    BY <1>2, TypesOfGate, PickKept DEF Dial
  <2> QED
    BY <1>2, <2>1 DEF Dial, pvars
<1>3. ASSUME NEW s \in Sessions, Accepts(s) PROVE (ServerType /\ HandInv /\ StageInv)'
  BY <1>3, ProxyAssumption DEF Accepts, Arrives, Stage, vars
<1>4. CASE AcceptFails
  BY <1>4, ProxyAssumption DEF AcceptFails, vars
<1>5. CASE TakeSlot
  BY <1>5, ProxyAssumption DEF TakeSlot, vars
<1>6. CASE OverLimit
  BY <1>6, ProxyAssumption DEF OverLimit, Stage, CloseInc, vars
<1>7. CASE Track
  BY <1>7, ProxyAssumption DEF Track, Stage, vars
<1>8. CASE TrackRefused
  BY <1>8, ProxyAssumption DEF TrackRefused, Stage, CloseInc, vars
<1>9. ASSUME NEW s \in Sessions, ShakeDone(s) PROVE (ServerType /\ HandInv /\ StageInv)'
  BY <1>9, ProxyAssumption DEF ShakeDone, Stage, vars
<1>10. ASSUME NEW s \in Sessions, ShakeFails(s) PROVE (ServerType /\ HandInv /\ StageInv)'
  BY <1>10, ProxyAssumption, SMTT(90) DEF ShakeFails, Stage, vars
<1>11. ASSUME NEW s \in Sessions, AfterFunc(s) PROVE (ServerType /\ HandInv /\ StageInv)'
  BY <1>11, ProxyAssumption, SMTT(90) DEF AfterFunc, CloseInc, vars
<1>12. ASSUME NEW s \in Sessions, HandleReturns(s) PROVE (ServerType /\ HandInv /\ StageInv)'
  BY <1>12, ProxyAssumption, SMTT(90) DEF HandleReturns, Stage, vars
<1>13. ASSUME NEW s \in Sessions, CloseTracked(s) PROVE (ServerType /\ HandInv /\ StageInv)'
  BY <1>13, ProxyAssumption, SMTT(90) DEF CloseTracked, Stage, CloseInc, vars
<1>14. ASSUME NEW s \in Sessions, Leave(s) PROVE (ServerType /\ HandInv /\ StageInv)'
  BY <1>14, ProxyAssumption, SMTT(90) DEF Leave, Stage, vars
<1>15. CASE CloseProxy
  BY <1>15, ProxyAssumption DEF CloseProxy, vars
<1>16. ASSUME NEW s \in Sessions, SweepInc(s) PROVE (ServerType /\ HandInv /\ StageInv)'
  BY <1>16, ProxyAssumption DEF SweepInc, CloseInc, vars
<1>17. CASE CloseListener
  BY <1>17, ProxyAssumption DEF CloseListener, ListeningAfterClose, vars
<1>18. CASE ProxyClosed
  BY <1>18, ProxyAssumption DEF ProxyClosed, vars
<1>19. CASE ProxyFinished
  BY <1>19 DEF ProxyFinished, allVars, pvars, vars
<1> HIDE DEF ServerType, HandInv, StageInv, AllGone, Handlers
<1> QED
  BY <1>1, <1>2, <1>3, <1>4, <1>5, <1>6, <1>7, <1>8, <1>9, <1>10, <1>11, <1>12, <1>13, <1>14, <1>15,
     <1>16, <1>17, <1>18, <1>19 DEF ProxyNext, HandlerStep, ServeStep, CloseStep

\* serve takes a slot for the connection in hand; its handler, or serve itself when
\* the scope refuses it, gives the slot back.
LEMMA SlotsKept ==
    ASSUME ServerType, HandInv, SlotInv, ProxyNext
    PROVE  SlotInv'
<1>1. ASSUME UNCHANGED <<slots, accept>>, Handlers' = Handlers PROVE SlotInv'
  BY <1>1 DEF SlotInv
<1>2. CASE TakeSlot
  <2>1. Handlers' = Handlers
    BY <1>2 DEF TakeSlot, Handlers
  <2>2. Cardinality(Handlers) \in Nat
    BY FS_CardinalityType DEF SlotInv
  <2> QED
    BY <1>2, <2>1, <2>2, ProxyAssumption, SMTT(90) DEF TakeSlot, Room, SlotInv
<1>3. CASE Track
  <2>1. hand \in Sessions /\ hand \notin Handlers
    BY <1>3 DEF Track, HandInv, Handlers
  <2>2. Handlers' = Handlers \cup {hand}
    BY <1>3, <2>1 DEF Track, Stage, Handlers, ServerType
  <2>3. Cardinality(Handlers) \in Nat
    BY FS_CardinalityType DEF SlotInv
  <2>4. IsFiniteSet(Handlers') /\ Cardinality(Handlers') = Cardinality(Handlers) + 1
    BY <2>1, <2>2, FS_AddElement DEF SlotInv
  <2> QED
    BY <1>3, <2>3, <2>4, SMTT(90) DEF Track, SlotInv
<1>4. CASE TrackRefused
  <2>1. Handlers' = Handlers
    BY <1>4 DEF TrackRefused, HandInv, Stage, Handlers, ServerType
  <2>2. Cardinality(Handlers) \in Nat
    BY FS_CardinalityType DEF SlotInv
  <2> QED
    BY <1>4, <2>1, <2>2, ProxyAssumption, SMTT(90) DEF TrackRefused, SlotsAfterRefusal, SlotInv
<1>5. ASSUME NEW s \in Sessions, Leave(s) PROVE SlotInv'
  <2>1. s \in Handlers
    BY <1>5 DEF Leave, Handlers
  <2>2. Handlers' = Handlers \ {s}
    BY <1>5 DEF Leave, Stage, Handlers, ServerType
  <2>3. Cardinality(Handlers) \in Nat
    BY FS_CardinalityType DEF SlotInv
  <2>4. IsFiniteSet(Handlers') /\ Cardinality(Handlers') = Cardinality(Handlers) - 1
    BY <2>1, <2>2, FS_RemoveElement DEF SlotInv
  <2> QED
    BY <1>5, <2>3, <2>4, ProxyAssumption, SMTT(90) DEF Leave, SlotInv
<1>6. ASSUME NEW s \in Sessions, Accepts(s) PROVE SlotInv'
  <2>1. Handlers' = Handlers
    BY <1>6 DEF Accepts, Arrives, Stage, Handlers, ServerType
  <2> QED
    BY <1>6, <2>1 DEF Accepts, SlotInv
<1>7. CASE OverLimit
  <2>1. Handlers' = Handlers
    BY <1>7 DEF OverLimit, HandInv, Stage, Handlers, ServerType
  <2> QED
    BY <1>7, <2>1 DEF OverLimit, SlotInv
<1>8. ASSUME NEW s \in Sessions, ShakeDone(s) \/ ShakeFails(s) \/ HandleReturns(s) \/ CloseTracked(s)
      PROVE  SlotInv'
  <2>1. Handlers' = Handlers
    BY <1>8 DEF ShakeDone, ShakeFails, HandleReturns, CloseTracked, Stage, Handlers, ServerType
  <2> QED
    BY <1>1, <1>8, <2>1 DEF ShakeDone, ShakeFails, HandleReturns, CloseTracked
<1>9. CASE AcceptFails
  <2>1. Handlers' = Handlers
    BY <1>9 DEF AcceptFails, Handlers
  <2> QED
    BY <1>9, <2>1 DEF AcceptFails, SlotInv
<1>10. CASE UNCHANGED <<slots, accept, stage>>
  BY <1>1, <1>10 DEF Handlers
<1> QED
  BY <1>2, <1>3, <1>4, <1>5, <1>6, <1>7, <1>8, <1>9, <1>10
  DEF ProxyNext, HandlerStep, ServeStep, CloseStep, Dial, AfterFunc, SweepInc, CloseProxy,
     CloseListener,
      ProxyClosed, ProxyFinished, allVars, pvars

\* newProxy has no connection, no handler and no slot taken.
LEMMA ServerInit == ProxyInit => PInv
<1> SUFFICES ASSUME ProxyInit PROVE PInv
  OBVIOUS
<1>1. IInv /\ SideInv
  BY InitIInv DEF ProxyInit, Init, SideInv, Kinds
<1>2. ServerType /\ HandInv /\ StageInv
  BY ProxyAssumption DEF ProxyInit, Init, ServerType, HandInv, StageInv
<1>3. Handlers = {}
  BY DEF ProxyInit, Handlers
<1>4. SlotInv
  BY <1>3, FS_EmptySet, ProxyAssumption, SMTT(90) DEF ProxyInit, SlotInv
<1> QED
  BY <1>1, <1>2, <1>4 DEF PInv

\* The inductive invariant of the gate and the server together.
LEMMA ServerInvariance == ProxySpec => []PInv
<1>1. PInv /\ [ProxyNext]_allVars => PInv'
  <2> SUFFICES ASSUME PInv, [ProxyNext]_allVars PROVE PInv'
    OBVIOUS
  <2>1. CASE ProxyNext
    BY <2>1, GateStep, SidesKeptByServer, ServerKept, SlotsKept DEF PInv
  <2>2. CASE UNCHANGED allVars
    <3>1. IInv'
      BY <2>2, StepKeeps DEF PInv, allVars
    <3>2. UNCHANGED <<listening, pscope, accept, hand, slots, stage, inc, ppc, pc, res>>
      BY <2>2 DEF allVars, vars, pvars
    <3>3. SideInv' /\ ServerType' /\ StageInv'
      BY <2>2, <3>2 DEF PInv, SideInv, ServerType, StageInv
    <3>4. HandInv' /\ SlotInv'
      BY <2>2, <3>2 DEF PInv, HandInv, SlotInv, AllGone, Handlers
    <3> QED
      BY <3>1, <3>3, <3>4 DEF PInv
  <2> QED
    BY <2>1, <2>2
<1> QED
  BY <1>1, ServerInit, PTL DEF ProxySpec

\* The slots in use are the running handlers and the connection being tracked, at
\* most the limit: no error path loses or doubles a slot.
THEOREM SlotsAreHandlers == ProxySpec => []SlotsMatchHandlers
<1>1. PInv => SlotsMatchHandlers
  BY DEF PInv, ServerType, SlotInv, SlotsMatchHandlers
<1> QED
  BY <1>1, ServerInvariance, PTL

\* When proxyServer.Close returns, every handler has returned and nothing of a
\* session is open: no connection, no context, no slot.
THEOREM ProxyLeavesNothing == ProxySpec => []NothingOutlivesProxy
<1>1. PInv => NothingOutlivesProxy
  <2> SUFFICES ASSUME PInv, ppc = "closed" PROVE NothingOutlivesProxy
    BY DEF NothingOutlivesProxy
  <2>1. accept = "done" /\ Handlers = {}
    BY DEF PInv, HandInv, AllGone
  <2>2. slots = 0
    BY <2>1, FS_EmptySet, SMTT(90) DEF PInv, SlotInv
  <2>3. ASSUME NEW s \in Sessions
        PROVE  stage[s] \in {"free", "gone"} /\ inc[s] \in {"none", "closed"}
    BY <2>1 DEF PInv, ServerType, HandInv, StageInv, Handlers
  <2>4. ASSUME NEW s \in Sessions, NEW k \in Kinds
        PROVE  res[s][k] \in {"none", "closed"}
    <3>1. pc[s] \in {"start", "end"}
      BY <2>3 DEF PInv, StageInv
    <3> QED
      BY <3>1 DEF PInv, SideInv, Kinds
  <2> QED
    BY <2>1, <2>2, <2>3, <2>4 DEF NothingOutlivesProxy
<1> QED
  BY <1>1, ServerInvariance, PTL

\* A session that has not begun or is over holds nothing: dial and the handler
\* close both sides and finish the context on every path (proxy.go:154-208, 267-326).
EndedHoldsNothing ==
    \A s \in Sessions : pc[s] \in {"start", "end"} => \A k \in Kinds : res[s][k] \in {"none", "closed"}

\* A new gate has no session under way.
LEMMA SidesInit == ASSUME Init PROVE SideInv
  BY DEF Init, SideInv, Kinds

\* Every step of the gate, the start of a dial included, keeps SideInv.
LEMMA SidesStay == IInv /\ SideInv /\ [Next]_vars => SideInv'
<1> SUFFICES ASSUME IInv, SideInv, [Next]_vars PROVE SideInv'
  OBVIOUS
<1>1. CASE Running
  BY <1>1, TypesOfGate, SidesKept
<1>2. CASE \E s \in Sessions : DialPick(s)
  BY <1>2, TypesOfGate, PickKept
<1>3. CASE UNCHANGED <<pc, res>>
  BY <1>3, SMTT(90) DEF SideInv
<1> QED
  BY <1>1, <1>2, <1>3 DEF Next, Finished, vars

\* That holds of the gate whatever starts its sessions, not only behind this server.
THEOREM SessionsEndClean == Spec => []EndedHoldsNothing
<1>1. SideInv => EndedHoldsNothing
  BY DEF SideInv, EndedHoldsNothing, Kinds
<1> QED
  BY <1>1, SidesInit, SidesStay, Invariance, PTL DEF Spec

\* The gate keeps its promises behind the server, whose Close cancels the contexts of
\* all handlers at once: epochs do not overlap, a closed epoch holds nothing, and a
\* latched one stays blocked.
THEOREM GateBehindServer ==
    ProxySpec => [](EpochsDoNotOverlap /\ ClosedEpochHoldsNothing /\ LatchedStaysBlocked)
<1>1. PInv => EpochsDoNotOverlap /\ ClosedEpochHoldsNothing /\ LatchedStaysBlocked
  BY GateFacts DEF PInv
<1> QED
  BY <1>1, ServerInvariance, PTL

\* Nor does the server close an epoch by itself: behind it, too, only the network and
\* the sessions of the installed epoch do, and a closed one is never reopened.
THEOREM LatchBehindServer == ProxySpec => OnlyOwnFailuresLatch
<1> DEFINE Own ==
      \A g \in Gen :
         /\ scope[g] = "done" => scope'[g] = "done"
         /\ (Available(g) /\ scope'[g] # "open") =>
               \/ cb[g] = "on" /\ cb'[g] = "wait"
               \/ \E s \in Sessions : ep[s] = g /\ pc[s] = "latch" /\ pc'[s] = "latched"
<1>1. ASSUME PInv, [ProxyNext]_allVars PROVE [Own]_vars
  <2>1. CASE [Next]_vars
    BY <1>1, <2>1, LatchesOwn, ZenonT(60) DEF PInv, IInv
  <2>2. CASE UNCHANGED scope
    BY <2>2 DEF Available, IsOpen
  <2> HIDE DEF Own
  <2>3. CASE Running \/ \E s \in Sessions : DialPick(s)
    BY <2>1, <2>3 DEF Next
  <2>4. CASE CloseProxy
    BY <2>2, <2>4 DEF CloseProxy, gate
  <2>5. CASE UNCHANGED vars
    BY <2>5
  <2> QED
    BY <1>1, <2>3, <2>4, <2>5
    DEF ProxyNext, HandlerStep, ServeStep, CloseStep, Dial, Accepts, ShakeDone, ShakeFails, AfterFunc,
        HandleReturns, CloseTracked, Leave, AcceptFails, TakeSlot, OverLimit, Track, TrackRefused,
        SweepInc, CloseListener, ProxyClosed, ProxyFinished, allVars
<1> QED
  BY <1>1, ServerInvariance, PTL DEF ProxySpec, OnlyOwnFailuresLatch

-----------------------------------------------------------------------------
(* Ownership.                                                               *)

\* A registration, seen as a resource of the epoch's scope: what the closing scope
\* has put in its slice it owns until it is closed, by whomever.
Part(status) ==
    CASE status \in {"none", "raw"} -> "new"
      [] status \in {"live", "doomed", "claimed"} -> "owned"
      [] status = "closing" -> "leaving"
      [] status = "closed" -> "closed"

EpochPhase(g) == IF scope[g] = "none" THEN "open" ELSE scope[g]

EpochState(g) ==
    [x \in Sessions \X Kinds |-> IF ep[x[1]] = g THEN Part(res[x[1]][x[2]]) ELSE "new"]

\* An epoch as a scope of Ownership.tla.  A context is finished in one step here.
Epoch(g) == INSTANCE Ownership WITH
    Resources <- Sessions \X Kinds, AtOnce <- Sessions \X {"op"},
    phase <- EpochPhase(g), state <- EpochState(g)

\* Sessions are in epochs that exist.
EpochInv == \A s \in Sessions : ep[s] \in Gen => scope[ep[s]] # "none"

\* A function that differs at one argument only.
LEMMA Altered ==
    ASSUME NEW D, NEW f, NEW h, NEW a \in D, NEW v, NEW R, f \in [D -> R], h \in [D -> R],
           \A x \in D : h[x] = IF x = a THEN v ELSE f[x]
    PROVE  h = [f EXCEPT ![a] = v]
    BY SMTT(90)

\* Other epochs do not notice a registration, its own sees it change state.
LEMMA PartMoves ==
    ASSUME TypeInv, NEW g \in Gen, NEW s \in Sessions, NEW k \in Kinds, NEW v \in Status,
           Set(s, k, v), UNCHANGED <<scope, ep>>
    PROVE  /\ ep[s] # g => UNCHANGED Epoch(g)!avars
           /\ ep[s] = g => Epoch(g)!Becomes(<<s, k>>, Part(v))
<1>1. res \in [Sessions -> [Kinds -> Status]]
    BY DEF TypeInv
<1>2. \A p \in Sessions, j \in Kinds : res'[p][j] = IF p = s /\ j = k THEN v ELSE res[p][j]
    BY <1>1, SMTT(90) DEF Set
<1>3. EpochPhase(g)' = EpochPhase(g)
    BY DEF EpochPhase
<1>4. ASSUME ep[s] # g PROVE EpochState(g)' = EpochState(g)
  <2>1. \A x \in Sessions \X Kinds : EpochState(g)'[x] = EpochState(g)[x]
      BY <1>2, <1>4, SMTT(90) DEF EpochState
  <2> QED
      BY <2>1, SMTT(90) DEF EpochState
<1>5. ASSUME ep[s] = g PROVE EpochState(g)' = [EpochState(g) EXCEPT ![<<s, k>>] = Part(v)]
  <2>1. \A x \in Sessions \X Kinds : EpochState(g)'[x] = IF x = <<s, k>> THEN Part(v) ELSE EpochState(g)[x]
      BY <1>2, <1>5, SMTT(90) DEF EpochState
  <2>2. EpochState(g) \in [Sessions \X Kinds -> {"new", "owned", "leaving", "closed"}]
      BY <1>1, SMTT(90) DEF EpochState, Part, Status
  <2>3. EpochState(g)' \in [Sessions \X Kinds -> {"new", "owned", "leaving", "closed"}]
      BY <1>1, <1>2, SMTT(90) DEF EpochState, Part, Status
  <2>4. <<s, k>> \in Sessions \X Kinds
      OBVIOUS
  <2> QED
      BY <2>1, <2>2, <2>3, <2>4, Altered
<1> QED
    BY <1>3, <1>4, <1>5 DEF Epoch!avars, Epoch!Becomes

\* How a registration may change: it is prepared, admitted, refused or closed.
Moves(s, k, v) ==
    LET u == res[s][k] IN
    \/ u \in {"none", "raw"} /\ v = "raw"
    \/ u \in {"none", "raw"} /\ v = "live" /\ scope[ep[s]] = "open"
    \/ u \in {"none", "raw"} /\ v = "closed" /\ scope[ep[s]] \in {"closing", "done"}
    \/ u = "live" /\ v = "closing"
    \/ u = "doomed" /\ v = "claimed"
    \/ u \in {"doomed", "closing", "claimed"} /\ v = "closed"
    \/ k = "op" /\ u = "live" /\ v = "closed"

\* Each of these changes is a step that Ownership allows, or none.
LEMMA MovesAreSteps ==
    ASSUME TypeInv, ResInv, NEW g \in Gen, NEW s \in Sessions, NEW k \in Kinds, NEW v \in Status,
           Set(s, k, v), UNCHANGED <<scope, ep>>, Moves(s, k, v)
    PROVE  [Epoch(g)!Next]_(Epoch(g)!avars)
<1>1. CASE ep[s] # g
  <2>1. UNCHANGED Epoch(g)!avars
      BY <1>1, PartMoves
  <2> QED
      BY <2>1
<1>2. CASE ep[s] = g
  <2>1. Epoch(g)!Becomes(<<s, k>>, Part(v))
      BY <1>2, PartMoves
  <2>2. <<s, k>> \in Sessions \X Kinds
      OBVIOUS
  <2>3. EpochState(g)[<<s, k>>] = Part(res[s][k])
      BY <1>2, <2>2, SMTT(90) DEF EpochState
  <2>4. /\ res[s][k] = "live" => scope[g] = "open"
        /\ res[s][k] \in {"doomed", "claimed"} => scope[g] = "closing"
      BY <1>2 DEF ResInv
  <2>5. CASE Part(res[s][k]) = Part(v)
    <3>1. EpochState(g) \in [Sessions \X Kinds -> {"new", "owned", "leaving", "closed"}]
        BY SMTT(90) DEF EpochState, Part, Status, TypeInv
    <3>2. EpochState(g)' = EpochState(g)
        BY <2>1, <2>2, <2>3, <2>5, <3>1, SMTT(90) DEF Epoch!Becomes
    <3> QED
        BY <2>1, <3>2 DEF Epoch!avars, Epoch!Becomes
  <2>6. CASE res[s][k] \in {"none", "raw"} /\ v = "live" /\ scope[g] = "open"
    <3>1. Epoch(g)!Acquire(<<s, k>>)
        BY <2>1, <2>3, <2>6, SMTT(90) DEF Epoch!Acquire, EpochPhase, Part
    <3> QED
        BY <2>2, <3>1 DEF Epoch!Next
  <2>7. CASE res[s][k] \in {"none", "raw"} /\ v = "closed" /\ scope[g] \in {"closing", "done"}
    <3>1. Epoch(g)!Refuse(<<s, k>>)
        BY <2>1, <2>3, <2>7, SMTT(90) DEF Epoch!Refuse, EpochPhase, Part
    <3> QED
        BY <2>2, <3>1 DEF Epoch!Next
  <2>8. CASE res[s][k] = "live" /\ v = "closing"
    <3>1. Epoch(g)!Leave(<<s, k>>)
        BY <2>1, <2>3, <2>4, <2>8, SMTT(90) DEF Epoch!Leave, EpochPhase, Part
    <3> QED
        BY <2>2, <3>1 DEF Epoch!Next
  <2>9. CASE res[s][k] \in {"doomed", "closing", "claimed"} /\ v = "closed"
    <3>1. Epoch(g)!Shut(<<s, k>>)
        BY <2>1, <2>3, <2>4, <2>9, SMTT(90) DEF Epoch!Shut, EpochPhase, Part
    <3> QED
        BY <2>2, <3>1 DEF Epoch!Next
  <2>10. CASE k = "op" /\ res[s][k] = "live" /\ v = "closed"
    <3>1. Epoch(g)!Drop(<<s, k>>)
        BY <2>1, <2>3, <2>4, <2>10, SMTT(90) DEF Epoch!Drop, EpochPhase, Part
    <3>2. <<s, k>> \in Sessions \X {"op"}
        BY <2>10, SMTT(90)
    <3> QED
        BY <3>1, <3>2 DEF Epoch!Next
  <2>11. \/ Part(res[s][k]) = Part(v)
         \/ res[s][k] \in {"none", "raw"} /\ v = "live" /\ scope[g] = "open"
         \/ res[s][k] \in {"none", "raw"} /\ v = "closed" /\ scope[g] \in {"closing", "done"}
         \/ res[s][k] = "live" /\ v = "closing"
         \/ res[s][k] \in {"doomed", "closing", "claimed"} /\ v = "closed"
         \/ k = "op" /\ res[s][k] = "live" /\ v = "closed"
      BY <1>2, SMTT(90) DEF Moves, Part
  <2> QED
      BY <2>5, <2>6, <2>7, <2>8, <2>9, <2>10, <2>11
<1> QED
    BY <1>1, <1>2

\* All that a step of the gate does to scopes and registrations: dial picks an epoch,
\* a scope is created, closed or swept to the end, or one registration changes.
Picks(s) ==
    /\ pc[s] = "start" /\ current \in Gen /\ IsOpen(current)
    /\ ep' = [ep EXCEPT ![s] = current]
    /\ UNCHANGED <<scope, res>>

Registers(s, k, v) == Moves(s, k, v) /\ Set(s, k, v) /\ UNCHANGED <<scope, ep>>

Opens(g) == scope[g] = "none" /\ scope' = [scope EXCEPT ![g] = "open"] /\ UNCHANGED <<ep, res>>

Effect ==
    \/ UNCHANGED <<scope, ep, res>>
    \/ \E s \in Sessions : Picks(s)
    \/ \E s \in Sessions, k \in Kinds, v \in Status : Registers(s, k, v)
    \/ \E g \in Gen : Opens(g) \/ SweepEnd(g) \/ (CloseScope(g) /\ UNCHANGED ep)

\* Every step has one of these effects.
LEMMA StepEffect ==
    ASSUME IInv, SideInv, EpochInv, [Next]_vars
    PROVE  Effect
<1>0. TypeInv /\ ControlInv /\ ScopeInv /\ ResInv
    BY DEF IInv
<1>1. CASE UNCHANGED <<scope, ep, res>>
    BY <1>1 DEF Effect
<1>34. \A s \in Sessions, k \in Kinds, v \in {"raw", "live", "closing", "claimed", "closed"} :
          Registers(s, k, v) => Effect
  <2>1. {"raw", "live", "closing", "claimed", "closed"} \subseteq Status
      BY DEF Status
  <2> QED
      BY <2>1 DEF Effect
<1>35. \A s \in Sessions, k \in Kinds :
          (/\ Set(s, k, Admitted(ep[s])) /\ pc[s] \notin {"start", "end"} /\ UNCHANGED <<scope, ep>>
           /\ res[s][k] \in {"none", "raw"}) => Effect
  <2> SUFFICES ASSUME NEW s \in Sessions, NEW k \in Kinds, Set(s, k, Admitted(ep[s])),
                      pc[s] \notin {"start", "end"}, UNCHANGED <<scope, ep>>, res[s][k] \in {"none", "raw"}
               PROVE  Effect
      OBVIOUS
  <2>1. ep[s] \in Gen
      BY <1>0, EpochsExist
  <2>2. scope[ep[s]] \in {"open", "closing", "done"}
      BY <1>0, <2>1, SMTT(90) DEF EpochInv, TypeInv
  <2>3. Moves(s, k, Admitted(ep[s])) /\ Admitted(ep[s]) \in {"live", "closed"}
      BY <2>2 DEF Moves, Admitted, IsOpen
  <2> QED
      BY <2>3, <1>34 DEF Registers
<1>36. {"in", "op", "out"} = Kinds
    BY DEF Kinds
<1>37. \A g \in Gen : CloseScope(g) /\ UNCHANGED ep => Effect
    BY DEF Effect
<1> USE DEF gate, session, controller
<1>2. ASSUME NEW s \in Sessions, DialPick(s) PROVE Effect
  <2>1. CASE UNCHANGED ep
      BY <1>1, <1>2, <2>1 DEF DialPick
  <2>2. CASE ep' = [ep EXCEPT ![s] = current] /\ current \in Gen /\ Available(current)
      BY <1>2, <2>2 DEF DialPick, Picks, Available, Effect
  <2> QED
      BY <1>2, <2>1, <2>2 DEF DialPick
<1>3. ASSUME NEW s \in Sessions, AddIn(s) PROVE Effect
  <2>1. pc[s] = "add" /\ res[s]["in"] = "none"
      BY <1>3 DEF AddIn, SideInv
  <2> QED
      BY <1>3, <1>35, <1>36, <2>1 DEF AddIn
<1>4. ASSUME NEW s \in Sessions, Operation(s) PROVE Effect
  <2>1. pc[s] = "operation" /\ res[s]["op"] = "none"
      BY <1>4 DEF Operation, SideInv
  <2> QED
      BY <1>4, <1>35, <1>36, <2>1 DEF Operation
<1>5. ASSUME NEW s \in Sessions, CheckCtx(s) PROVE Effect
    BY <1>1, <1>5 DEF CheckCtx
<1>6. ASSUME NEW s \in Sessions, Cancel(s) PROVE Effect
    BY <1>1, <1>6 DEF Cancel
<1>7. ASSUME NEW s \in Sessions, DialConn(s) PROVE Effect
  <2>1. res[s]["out"] = "none"
      BY <1>7 DEF DialConn, SideInv
  <2>2. Registers(s, "out", "raw")
      BY <1>7, <2>1 DEF DialConn, Registers, Moves
  <2> QED
      BY <1>34, <1>36, <2>2
<1>8. ASSUME NEW s \in Sessions, DialNil(s) PROVE Effect
    BY <1>1, <1>8 DEF DialNil
<1>9. ASSUME NEW s \in Sessions, DialErr(s) PROVE Effect
    BY <1>1, <1>9 DEF DialErr
<1>10. ASSUME NEW s \in Sessions, Judge(s) PROVE Effect
    BY <1>1, <1>10 DEF Judge
<1>11. ASSUME NEW s \in Sessions, TrackOut(s) PROVE Effect
  <2>1. pc[s] = "track" /\ res[s]["out"] = "raw"
      BY <1>11 DEF TrackOut, SideInv
  <2> QED
      BY <1>11, <1>35, <1>36, <2>1 DEF TrackOut
<1>12. ASSUME NEW s \in Sessions, Recheck(s) PROVE Effect
  <2>1. CASE Set(s, "op", "closed") /\ ~CtxErr(s)
    <3>1. res[s]["op"] \in {"live", "doomed"}
        BY <1>12, <2>1 DEF Recheck, SideInv, CtxErr
    <3>2. Registers(s, "op", "closed")
        BY <1>12, <2>1, <3>1 DEF Recheck, Registers, Moves
    <3> QED
        BY <1>34, <1>36, <3>2
  <2> QED
      BY <1>1, <1>12, <2>1 DEF Recheck
<1>13. ASSUME NEW s \in Sessions, RelayEnd(s) PROVE Effect
    BY <1>1, <1>13 DEF RelayEnd
<1>14. ASSUME NEW s \in Sessions, NEW k \in Kinds, CloseSideBegin(s, k) PROVE Effect
  <2>1. Registers(s, k, IF res[s][k] = "live" THEN "closing" ELSE "claimed")
      BY <1>14 DEF CloseSideBegin, Registers, Moves
  <2> QED
      BY <1>34, <2>1
<1>15. ASSUME NEW s \in Sessions, NEW k \in Kinds, CloseSideEnd(s, k) PROVE Effect
  <2>1. Registers(s, k, "closed")
      BY <1>15 DEF CloseSideEnd, Registers, Moves
  <2> QED
      BY <1>34, <2>1
<1>16. ASSUME NEW s \in Sessions, NEW k \in Kinds, SweepOne(s, k) PROVE Effect
  <2>1. Registers(s, k, "closed")
      BY <1>16 DEF SweepOne, Set, Registers, Moves
  <2> QED
      BY <1>34, <2>1
<1>17. ASSUME NEW s \in Sessions, CloseSidesDone(s) PROVE Effect
    BY <1>1, <1>17 DEF CloseSidesDone
<1>18. ASSUME NEW s \in Sessions, Latch(s) PROVE Effect
  <2>1. ep[s] \in Gen
      BY <1>0, <1>18, EpochsExist DEF Latch
  <2> QED
      BY <1>18, <1>37, <2>1 DEF Latch, LatchTarget
<1>19. ASSUME NEW s \in Sessions, LatchPublish(s) PROVE Effect
    BY <1>1, <1>19 DEF LatchPublish
<1>20. ASSUME NEW s \in Sessions, Finish(s) PROVE Effect
  <2>1. CASE res[s]["op"] \in {"live", "doomed"}
    <3>1. Registers(s, "op", "closed")
        BY <1>20, <2>1 DEF Finish, Registers, Moves
    <3> QED
        BY <1>34, <1>36, <3>1
  <2> QED
      BY <1>1, <1>20, <2>1 DEF Finish
<1>21. ASSUME NEW c \in Setters, NEW w \in {"nil", "net"}, Replace(c, w) PROVE Effect
    BY <1>1, <1>21 DEF Replace, Detach
<1>22. CASE CloseGate(Closer)
    BY <1>1, <1>22 DEF CloseGate, Detach
<1>23. ASSUME NEW c \in Controllers, Retire(c) PROVE Effect
  <2>1. ce[c] \in Gen
      BY <1>0, <1>23, EpochsExist DEF Retire
  <2> QED
      BY <1>23, <1>37, <2>1 DEF Retire
<1>24. ASSUME NEW c \in Controllers, Retired(c) PROVE Effect
    BY <1>1, <1>24 DEF Retired
<1>25. ASSUME NEW c \in Controllers, Proceed(c) PROVE Effect
    BY <1>1, <1>25 DEF Proceed
<1>26. ASSUME NEW c \in Controllers, Attach(c) PROVE Effect
  <2>1. generation \in Gen /\ scope[generation] = "none"
      BY <1>0, <1>26 DEF Attach, ControlInv, ScopeInv, Active, Unused
  <2> QED
      BY <1>26, <2>1 DEF Attach, Opens, Effect
<1>27. ASSUME NEW c \in Controllers, Reject(c) PROVE Effect
    BY <1>1, <1>27 DEF Reject
<1>28. ASSUME NEW c \in Controllers, Accept(c) PROVE Effect
    BY <1>1, <1>28 DEF Accept
<1>29. ASSUME NEW c \in Controllers, Install(c) PROVE Effect
    BY <1>1, <1>29 DEF Install
<1>30. ASSUME NEW g \in Gen, SweepEnd(g) PROVE Effect
    BY <1>30 DEF Effect
<1>31. ASSUME NEW g \in Gen, Notify(g) PROVE Effect
    BY <1>31, <1>37 DEF Notify
<1>32. ASSUME NEW g \in Gen, NotifyPublish(g) PROVE Effect
    BY <1>1, <1>32 DEF NotifyPublish
<1>33. CASE UNCHANGED vars
    BY <1>1, <1>33 DEF vars
<1> QED
    BY <1>2, <1>3, <1>4, <1>5, <1>6, <1>7, <1>8, <1>9, <1>10, <1>11, <1>12, <1>13, <1>14,
       <1>15, <1>16, <1>17, <1>18, <1>19, <1>20, <1>21, <1>22, <1>23, <1>24, <1>25, <1>26,
       <1>27, <1>28, <1>29, <1>30, <1>31, <1>32, <1>33 DEF Next, Running, SessionStep,
       DialReturn, ControllerStep, Finished

\* No effect takes an epoch away from its sessions.
LEMMA EpochKept ==
    ASSUME TypeInv, EpochInv, Effect
    PROVE  EpochInv'
<1>1. CASE \E s \in Sessions : Picks(s)
  <2>1. PICK s \in Sessions : Picks(s)
      BY <1>1
  <2>2. UNCHANGED scope /\ scope[current] = "open" /\ \A p \in Sessions : ep'[p] = IF p = s THEN current ELSE ep[p]
      BY <2>1, SMTT(90) DEF Picks, IsOpen, TypeInv
  <2> QED
      BY <2>2 DEF EpochInv
<1>2. ASSUME UNCHANGED ep, \A g \in Gen : scope'[g] = "none" => scope[g] = "none"
      PROVE  EpochInv'
    BY <1>2 DEF EpochInv
<1>3. ASSUME NEW g \in Gen, NEW v \in {"open", "done"}, scope' = [scope EXCEPT ![g] = v]
      PROVE  \A h \in Gen : scope'[h] = "none" => scope[h] = "none"
    BY <1>3, SMTT(90) DEF TypeInv
<1>4. ASSUME NEW g \in Gen, Opens(g) PROVE EpochInv'
    BY <1>2, <1>3, <1>4 DEF Opens
<1>5. ASSUME NEW g \in Gen, SweepEnd(g) PROVE EpochInv'
    BY <1>2, <1>3, <1>5 DEF SweepEnd, session
<1>6. ASSUME NEW g \in Gen, CloseScope(g), UNCHANGED ep PROVE EpochInv'
  <2>1. \A h \in Gen : scope'[h] = IF h = g /\ scope[g] = "open" THEN "closing" ELSE scope[h]
      BY <1>6, CloseScopeEffect
  <2> QED
      BY <1>2, <1>6, <2>1
<1>7. CASE UNCHANGED <<scope, ep>>
    BY <1>2, <1>7
<1> QED
    BY <1>1, <1>4, <1>5, <1>6, <1>7 DEF Effect, Registers

\* Each effect is a step of Ownership for the epoch it concerns, and none for the others.
LEMMA EffectOwns ==
    ASSUME TypeInv, ResInv, SideInv, EpochInv, Effect, NEW g \in Gen
    PROVE  [Epoch(g)!Next]_(Epoch(g)!avars)
<1>1. ASSUME EpochPhase(g)' = EpochPhase(g), EpochState(g)' = EpochState(g)
      PROVE  [Epoch(g)!Next]_(Epoch(g)!avars)
    BY <1>1 DEF Epoch!avars
<1>2. CASE UNCHANGED <<scope, ep, res>>
    BY <1>1, <1>2 DEF EpochPhase, EpochState
<1>3. ASSUME NEW s \in Sessions, Picks(s) PROVE [Epoch(g)!Next]_(Epoch(g)!avars)
  <2>1. \A p \in Sessions : ep'[p] = IF p = s THEN current ELSE ep[p]
      BY <1>3, SMTT(90) DEF Picks, TypeInv
  <2>2. \A k \in Kinds : Part(res[s][k]) = "new"
    <3>1. \A k \in Kinds : res[s][k] = "none"
        BY <1>3 DEF Picks, SideInv
    <3> QED
        BY <3>1, SMTT(90) DEF Part
  <2>3. UNCHANGED <<scope, res>>
      BY <1>3 DEF Picks
  <2>4. EpochState(g)' = EpochState(g)
      BY <2>1, <2>2, <2>3, SMTT(90) DEF EpochState
  <2> QED
      BY <1>1, <2>3, <2>4 DEF EpochPhase
<1>4. ASSUME NEW s \in Sessions, NEW k \in Kinds, NEW v \in Status, Registers(s, k, v)
      PROVE  [Epoch(g)!Next]_(Epoch(g)!avars)
    BY <1>4, MovesAreSteps DEF Registers
<1>5. ASSUME NEW h \in Gen, Opens(h) PROVE [Epoch(g)!Next]_(Epoch(g)!avars)
  <2>1. EpochPhase(g)' = EpochPhase(g)
      BY <1>5, SMTT(90) DEF Opens, EpochPhase, TypeInv
  <2> QED
      BY <1>1, <1>5, <2>1 DEF Opens, EpochState
<1>6. ASSUME NEW h \in Gen, SweepEnd(h) PROVE [Epoch(g)!Next]_(Epoch(g)!avars)
  <2>1. UNCHANGED <<ep, res>> /\ EpochState(g)' = EpochState(g)
      BY <1>6 DEF SweepEnd, session, EpochState
  <2>2. CASE h # g
    <3>1. EpochPhase(g)' = EpochPhase(g)
        BY <1>6, <2>2, SMTT(90) DEF SweepEnd, EpochPhase, TypeInv
    <3> QED
        BY <1>1, <2>1, <3>1
  <2>3. CASE h = g
    <3>1. EpochPhase(g) = "closing" /\ EpochPhase(g)' = "done"
        BY <1>6, <2>3, SMTT(90) DEF SweepEnd, EpochPhase, TypeInv
    <3>2. \A s \in Sessions, k \in Kinds : ep[s] = g => res[s][k] \notin {"live", "doomed", "claimed"}
        BY <1>6, <2>3 DEF SweepEnd, Swept, ResInv
    <3>3. \A x \in Sessions \X Kinds : EpochState(g)[x] # "owned"
        BY <3>2, SMTT(90) DEF EpochState, Part, TypeInv, Status
    <3>4. Epoch(g)!EndClose
        BY <2>1, <3>1, <3>3 DEF Epoch!EndClose
    <3> QED
        BY <3>4 DEF Epoch!Next
  <2> QED
      BY <2>2, <2>3
<1>7. ASSUME NEW h \in Gen, CloseScope(h), UNCHANGED ep PROVE [Epoch(g)!Next]_(Epoch(g)!avars)
  <2>1. \A s \in Sessions : \A k \in Kinds : Part(res'[s][k]) = Part(res[s][k])
    <3> SUFFICES ASSUME NEW s \in Sessions, NEW k \in Kinds PROVE Part(res'[s][k]) = Part(res[s][k])
        OBVIOUS
    <3>1. res'[s][k] = IF scope[h] = "open" /\ ep[s] = h /\ res[s][k] = "live" THEN "doomed" ELSE res[s][k]
        BY <1>7, CloseScopeEffect, ZenonT(60)
    <3>2. Part("live") = "owned" /\ Part("doomed") = "owned"
        BY SMTT(90) DEF Part
    <3> QED
        BY <3>1, <3>2
  <2>2. EpochState(g)' = EpochState(g)
      BY <1>7, <2>1, SMTT(90) DEF EpochState
  <2>3. scope'[g] = IF g = h /\ scope[h] = "open" THEN "closing" ELSE scope[g]
      BY <1>7, CloseScopeEffect
  <2>4. CASE g = h /\ scope[h] = "open"
    <3>1. Epoch(g)!BeginClose
        BY <2>2, <2>3, <2>4 DEF Epoch!BeginClose, EpochPhase
    <3> QED
        BY <3>1 DEF Epoch!Next
  <2>5. CASE ~(g = h /\ scope[h] = "open")
    <3>1. EpochPhase(g)' = EpochPhase(g)
        BY <2>3, <2>5 DEF EpochPhase
    <3> QED
        BY <1>1, <2>2, <3>1
  <2> QED
      BY <2>4, <2>5
<1> QED
    BY <1>2, <1>3, <1>4, <1>5, <1>6, <1>7 DEF Effect

\* A gate starts with nothing registered anywhere.
LEMMA InitEpoch ==
    ASSUME NEW g \in Gen, Init
    PROVE  EpochInv /\ Epoch(g)!Init
<1>1. EpochPhase(g) = "open"
    BY DEF Init, EpochPhase
<1>2. EpochState(g) = [x \in Sessions \X Kinds |-> "new"]
    BY SMTT(90) DEF Init, EpochState, Part
<1>3. EpochInv
    BY GateAssumption, SMTT(90) DEF Init, EpochInv, Gen
<1> QED
    BY <1>1, <1>2, <1>3 DEF Epoch!Init

\* Every epoch keeps the promise of a scope to its sessions (proxy.go:162, 168, 192;
\* scope.go:38-80): what is registered in it is owned until its session lets go of it
\* or the closing epoch closes it; closing ends only when nothing is owned; and what
\* is registered later, such as the connection of a late dial, is closed at once.
THEOREM EpochsOwn ==
    ASSUME NEW g \in Gen
    PROVE  Spec => Epoch(g)!Spec
<1>1. Init => SideInv /\ EpochInv /\ Epoch(g)!Init
    BY InitEpoch, SidesInit
<1>2. IInv /\ SideInv /\ [Next]_vars => SideInv'
    BY SidesStay
<1>3. IInv /\ SideInv /\ EpochInv /\ [Next]_vars => EpochInv' /\ [Epoch(g)!Next]_(Epoch(g)!avars)
    BY StepEffect, EpochKept, EffectOwns DEF IInv
<1> QED
    BY <1>1, <1>2, <1>3, Invariance, PTL DEF Spec, Epoch!Spec

\* So it does behind the proxy server.
THEOREM EpochsOwnBehindServer ==
    ASSUME NEW g \in Gen
    PROVE  ProxySpec => Epoch(g)!Spec
<1>1. ProxyInit => EpochInv /\ Epoch(g)!Init
    BY InitEpoch DEF ProxyInit
<1>2. ASSUME PInv, EpochInv, [ProxyNext]_allVars PROVE Effect
  <2>1. CASE [Next]_vars
      BY <1>2, <2>1, StepEffect DEF PInv
  <2>2. CASE UNCHANGED <<scope, ep, res>>
      BY <2>2 DEF Effect
  <2>3. CASE Running \/ \E s \in Sessions : DialPick(s)
      BY <2>1, <2>3 DEF Next
  <2> QED
      BY <1>2, <2>2, <2>3
      DEF ProxyNext, HandlerStep, ServeStep, CloseStep, Dial, Accepts, ShakeDone, ShakeFails, AfterFunc,
          HandleReturns, CloseTracked, Leave, AcceptFails, TakeSlot, OverLimit, Track, TrackRefused,
          SweepInc, CloseListener, ProxyClosed, CloseProxy, ProxyFinished, allVars, vars
<1>3. PInv /\ EpochInv /\ [ProxyNext]_allVars => EpochInv' /\ [Epoch(g)!Next]_(Epoch(g)!avars)
    BY <1>2, EpochKept, EffectOwns DEF PInv, IInv
<1> QED
    BY <1>1, <1>3, ServerInvariance, PTL DEF ProxySpec, Epoch!Spec
=============================================================================
