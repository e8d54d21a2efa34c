---------------------------- MODULE ScopeProofs ----------------------------
(***************************************************************************)
(* Proofs about Scope.tla for any number of goroutines and closers.        *)
(***************************************************************************)
EXTENDS Scope, TLAPS

\* Time for the provers on a slow machine.
USE SMTT(90), ZenonT(60)

\* A goroutine that is about to call the underlying closer of its argument.
Committed(t) == pc[t] \in {"once", "close", "reject"}

\* Who may be where: the goroutines inside a call agree with the state of the
\* closer they work on, and no two of them are about to close the same one.
CallsInv ==
    /\ \A t \in Threads : pc[t] \in {"once", "close"} => reg[arg[t]] = "added" /\ once[arg[t]] = "running"
    /\ \A t \in Threads : pc[t] = "waitOnce" => reg[arg[t]] = "added"
    /\ \A t \in Threads : pc[t] = "reject" => reg[arg[t]] = "rejected" /\ calls[arg[t]] = 0
    /\ \A t, u \in Threads : Committed(t) /\ Committed(u) /\ arg[t] = arg[u] => t = u

\* What is known of one closer: it has been called exactly if its once is done
\* or a rejecting add is through with it.
CloserInv ==
    \A r \in Resources :
        /\ reg[r] # "added" => once[r] = "fresh" /\ r \notin items \cup released \cup snapshot
        /\ reg[r] = "new" => calls[r] = 0
        /\ reg[r] = "rejected" => calls[r] = 1 \/ (calls[r] = 0 /\ \E t \in Threads : pc[t] = "reject" /\ arg[t] = r)
        /\ reg[r] = "added" => calls[r] = IF once[r] = "done" THEN 1 ELSE 0
        /\ once[r] = "running" => \E t \in Threads : pc[t] \in {"once", "close"} /\ arg[t] = r

\* One goroutine sweeps; what it has left behind is closed.
SweepInv ==
    /\ todo \subseteq snapshot
    /\ ~closed => snapshot = {} /\ sweeping = {}
    /\ done => closed /\ todo = {} /\ sweeping = {} /\ err = snapshot \cap Failing
    /\ \A t, u \in sweeping : t = u
    /\ \A t \in Threads : t \in sweeping => pc[t] \in {"sweep", "once", "close", "waitOnce"}
    /\ \A t \in Threads : pc[t] = "sweep" => t \in sweeping
    /\ \A r \in snapshot : r \in todo \/ calls[r] = 1 \/ \E t \in sweeping : arg[t] = r

\* What has not been released is in items before the scope is closed and in
\* todo after, until somebody starts to close it.
OwnedInv ==
    /\ released \subseteq Subscribed
    /\ \A r \in released : once[r] = "fresh" /\ r \notin items \cup snapshot
    /\ \A r \in Subscribed : ~closed => once[r] = "fresh"
    /\ \A r \in Resources : (reg[r] = "added" /\ once[r] = "fresh" /\ r \notin released) =>
           IF closed THEN r \in todo ELSE r \in items
    /\ \A t \in Threads : pc[t] = "once" => IF closed THEN arg[t] \in snapshot ELSE arg[t] \in items
    /\ \A t \in Threads : pc[t] = "close" => arg[t] \notin items
    /\ closed => items \subseteq snapshot
    /\ \A r \in Resources : reg[r] = "rejected" => closed

ReturnInv == CloseResultsAgree

IInv == TypeOK /\ CallsInv /\ CloserInv /\ SweepInv /\ OwnedInv /\ ReturnInv

-----------------------------------------------------------------------------
\* A new scope satisfies the invariant.
LEMMA InitIInv == Init => IInv
<1> SUFFICES ASSUME Init PROVE IInv
    OBVIOUS
<1> USE ScopeAssumption DEF Init
<1>1. TypeOK
  <2>1. returned \in [Threads -> SUBSET (Resources \cup {NoResource})]
      BY DEF NoReturn
  <2> QED
      BY <2>1, ZenonT(60) DEF TypeOK, Labels
<1>2. CallsInv /\ CloserInv /\ SweepInv /\ OwnedInv
    BY DEF CallsInv, Committed, CloserInv, SweepInv, OwnedInv
<1>3. ReturnInv
    BY DEF ReturnInv, CloseResultsAgree
<1> QED
    BY <1>1, <1>2, <1>3 DEF IInv

\* scope.add keeps the invariant: it registers a new closer in an open scope, and
\* commits its goroutine to closing it in a closed one.
LEMMA AddKeeps ==
    ASSUME IInv, NEW t \in Threads, NEW r \in Resources, Add(t, r)
    PROVE  IInv'
<1> USE ScopeAssumption DEF IInv, Add, Admits, Goto
<1>1. TypeOK'
    BY DEF TypeOK, CallsInv, CloserInv, Labels
<1>2. CallsInv'
    BY DEF TypeOK, CallsInv, Committed, CloserInv, SweepInv, OwnedInv
<1>3. CloserInv'
    BY DEF TypeOK, CallsInv, Committed, CloserInv, SweepInv, OwnedInv
<1>4. SweepInv'
    BY DEF TypeOK, CallsInv, Committed, CloserInv, SweepInv
<1>5. OwnedInv'
    BY DEF TypeOK, CallsInv, Committed, CloserInv, SweepInv, OwnedInv
<1>6. ReturnInv'
    BY DEF TypeOK, SweepInv, ReturnInv, CloseResultsAgree, NoReturn
<1> QED
    BY <1>1, <1>2, <1>3, <1>4, <1>5, <1>6

\* The rejecting add keeps the invariant: it is the only call of that closer.
LEMMA AddRejectKeeps ==
    ASSUME IInv, NEW t \in Threads, AddReject(t)
    PROVE  IInv'
<1> USE ScopeAssumption DEF IInv, AddReject, Reject, Goto
<1>1. TypeOK'
    BY DEF TypeOK, CallsInv, CloserInv, Labels
<1>2. CallsInv'
    BY DEF TypeOK, CallsInv, Committed, CloserInv, SweepInv, OwnedInv
<1>3. CloserInv'
    BY DEF TypeOK, CallsInv, Committed, CloserInv, SweepInv, OwnedInv
<1>4. SweepInv'
    BY DEF TypeOK, CallsInv, Committed, CloserInv, SweepInv
<1>5. OwnedInv'
    BY DEF TypeOK, CallsInv, Committed, CloserInv, SweepInv, OwnedInv
<1>6. ReturnInv'
    BY DEF TypeOK, SweepInv, ReturnInv, CloseResultsAgree, NoReturn
<1> QED
    BY <1>1, <1>2, <1>3, <1>4, <1>5, <1>6

\* A call of resource.Close keeps the invariant: one goroutine gets to run the body.
LEMMA ResourceCloseKeeps ==
    ASSUME IInv, NEW t \in Threads, NEW r \in Resources, ResourceClose(t, r)
    PROVE  IInv'
<1> USE ScopeAssumption DEF IInv, ResourceClose, EnterOnce, RunsBody, Goto
<1>1. TypeOK'
    BY DEF TypeOK, CallsInv, CloserInv, Labels
<1>2. CallsInv'
    BY DEF TypeOK, CallsInv, Committed, CloserInv, SweepInv, OwnedInv
<1>3. CloserInv'
    BY DEF TypeOK, CallsInv, Committed, CloserInv, SweepInv, OwnedInv
<1>4. SweepInv'
    BY DEF TypeOK, CallsInv, Committed, CloserInv, SweepInv
<1>5. OwnedInv'
    BY DEF TypeOK, CallsInv, Committed, CloserInv, SweepInv, OwnedInv
<1>6. ReturnInv'
    BY DEF TypeOK, SweepInv, ReturnInv, CloseResultsAgree, NoReturn
<1> QED
    BY <1>1, <1>2, <1>3, <1>4, <1>5, <1>6

\* Taking the resource out of scope.items keeps the invariant.
LEMMA OnceRemoveKeeps ==
    ASSUME IInv, NEW t \in Threads, OnceRemove(t)
    PROVE  IInv'
<1> USE ScopeAssumption DEF IInv, OnceRemove, Goto
<1>1. TypeOK'
    BY DEF TypeOK, CallsInv, CloserInv, Labels
<1>2. CallsInv'
    BY DEF TypeOK, CallsInv, Committed, CloserInv, SweepInv, OwnedInv
<1>3. CloserInv'
    BY DEF TypeOK, CallsInv, Committed, CloserInv, SweepInv, OwnedInv
<1>4. SweepInv'
    BY DEF TypeOK, CallsInv, Committed, CloserInv, SweepInv
<1>5. OwnedInv'
    BY DEF TypeOK, CallsInv, Committed, CloserInv, SweepInv, OwnedInv
<1>6. ReturnInv'
    BY DEF TypeOK, SweepInv, ReturnInv, CloseResultsAgree, NoReturn
<1> QED
    BY <1>1, <1>2, <1>3, <1>4, <1>5, <1>6

\* Calling the underlying closer keeps the invariant.
LEMMA OnceCloseKeeps ==
    ASSUME IInv, NEW t \in Threads, OnceClose(t)
    PROVE  IInv'
<1> USE ScopeAssumption DEF IInv, OnceClose, Resume, Goto
<1>1. TypeOK'
    BY DEF TypeOK, CallsInv, CloserInv, Labels
<1>2. CallsInv'
    BY DEF TypeOK, CallsInv, Committed, CloserInv, SweepInv, OwnedInv
<1>3. CloserInv'
    BY DEF TypeOK, CallsInv, Committed, CloserInv, SweepInv, OwnedInv
<1>4. SweepInv'
    BY DEF TypeOK, CallsInv, Committed, CloserInv, SweepInv
<1>5. OwnedInv'
    BY DEF TypeOK, CallsInv, Committed, CloserInv, SweepInv, OwnedInv
<1>6. ReturnInv'
    BY DEF TypeOK, SweepInv, ReturnInv, CloseResultsAgree, NoReturn
<1> QED
    BY <1>1, <1>2, <1>3, <1>4, <1>5, <1>6

\* The return of a waiting resource.Close keeps the invariant.
LEMMA OnceWaitKeeps ==
    ASSUME IInv, NEW t \in Threads, OnceWait(t)
    PROVE  IInv'
<1> USE ScopeAssumption DEF IInv, OnceWait, BodyReturned, Resume, Goto
<1>1. TypeOK'
    BY DEF TypeOK, CallsInv, CloserInv, Labels
<1>2. CallsInv'
    BY DEF TypeOK, CallsInv, Committed, CloserInv, SweepInv, OwnedInv
<1>3. CloserInv'
    BY DEF TypeOK, CallsInv, Committed, CloserInv, SweepInv, OwnedInv
<1>4. SweepInv'
    BY DEF TypeOK, CallsInv, Committed, CloserInv, SweepInv
<1>5. OwnedInv'
    BY DEF TypeOK, CallsInv, Committed, CloserInv, SweepInv, OwnedInv
<1>6. ReturnInv'
    BY DEF TypeOK, SweepInv, ReturnInv, CloseResultsAgree, NoReturn
<1> QED
    BY <1>1, <1>2, <1>3, <1>4, <1>5, <1>6

\* Dropping a registration keeps the invariant.
LEMMA UnsubscribeKeeps ==
    ASSUME IInv, NEW r \in Resources, Unsubscribe(r)
    PROVE  IInv'
<1> USE ScopeAssumption DEF IInv, Unsubscribe, Unsubscribed
<1>1. TypeOK'
    BY DEF TypeOK, CallsInv, CloserInv, Labels
<1>2. CallsInv'
    BY DEF TypeOK, CallsInv, Committed, CloserInv, SweepInv, OwnedInv
<1>3. CloserInv'
    BY DEF TypeOK, CallsInv, Committed, CloserInv, SweepInv, OwnedInv
<1>4. SweepInv'
    BY DEF TypeOK, CallsInv, Committed, CloserInv, SweepInv
<1>5. OwnedInv'
    BY DEF TypeOK, CallsInv, Committed, CloserInv, SweepInv, OwnedInv
<1>6. ReturnInv'
    BY DEF TypeOK, SweepInv, ReturnInv, CloseResultsAgree, NoReturn
<1> QED
    BY <1>1, <1>2, <1>3, <1>4, <1>5, <1>6

\* The critical section of scope.Close keeps the invariant.
LEMMA ScopeCloseKeeps ==
    ASSUME IInv, NEW t \in Threads, ScopeClose(t)
    PROVE  IInv'
<1> USE ScopeAssumption DEF IInv, ScopeClose, Goto
<1>1. TypeOK'
  <2>1. CASE closed
      BY <2>1 DEF TypeOK, Labels
  <2>2. CASE ~closed
      BY <2>2, ZenonT(60) DEF TypeOK, Labels
  <2> QED
      BY <2>1, <2>2
<1>2. CallsInv'
    BY DEF TypeOK, CallsInv, Committed, CloserInv, SweepInv, OwnedInv
<1>3. CloserInv'
    BY DEF TypeOK, CallsInv, Committed, CloserInv, SweepInv, OwnedInv
<1>4. SweepInv'
    BY DEF TypeOK, CallsInv, Committed, CloserInv, SweepInv
<1>5. OwnedInv'
    BY DEF TypeOK, CallsInv, Committed, CloserInv, SweepInv, OwnedInv
<1>6. ReturnInv'
    BY DEF TypeOK, SweepInv, ReturnInv, CloseResultsAgree, NoReturn
<1> QED
    BY <1>1, <1>2, <1>3, <1>4, <1>5, <1>6

\* An iteration of scope.Close's loop keeps the invariant.
LEMMA SweepNextKeeps ==
    ASSUME IInv, NEW t \in Threads, NEW r \in Resources, SweepNext(t, r)
    PROVE  IInv'
<1> USE ScopeAssumption DEF IInv, SweepNext, EnterOnce, RunsBody, Goto
<1>1. TypeOK'
    BY DEF TypeOK, CallsInv, CloserInv, Labels
<1>2. CallsInv'
    BY DEF TypeOK, CallsInv, Committed, CloserInv, SweepInv, OwnedInv
<1>3. CloserInv'
    BY DEF TypeOK, CallsInv, Committed, CloserInv, SweepInv, OwnedInv
<1>4. SweepInv'
    BY DEF TypeOK, CallsInv, Committed, CloserInv, SweepInv
<1>5. OwnedInv'
    BY DEF TypeOK, CallsInv, Committed, CloserInv, SweepInv, OwnedInv
<1>6. ReturnInv'
    BY DEF TypeOK, SweepInv, ReturnInv, CloseResultsAgree, NoReturn
<1> QED
    BY <1>1, <1>2, <1>3, <1>4, <1>5, <1>6

\* The end of scope.Close keeps the invariant.
LEMMA SweepEndKeeps ==
    ASSUME IInv, NEW t \in Threads, SweepEnd(t)
    PROVE  IInv'
<1> USE ScopeAssumption DEF IInv, SweepEnd, Signal, Goto
<1>1. TypeOK'
    BY DEF TypeOK, CallsInv, CloserInv, Labels
<1>2. CallsInv'
    BY DEF TypeOK, CallsInv, Committed, CloserInv, SweepInv, OwnedInv
<1>3. CloserInv'
    BY DEF TypeOK, CallsInv, Committed, CloserInv, SweepInv, OwnedInv
<1>4. SweepInv'
    BY DEF TypeOK, CallsInv, Committed, CloserInv, SweepInv
<1>5. OwnedInv'
    BY DEF TypeOK, CallsInv, Committed, CloserInv, SweepInv, OwnedInv
<1>6. ReturnInv'
    BY DEF TypeOK, SweepInv, ReturnInv, CloseResultsAgree, NoReturn
<1> QED
    BY <1>1, <1>2, <1>3, <1>4, <1>5, <1>6

\* The return of a waiting scope.Close keeps the invariant.
LEMMA WaitDoneKeeps ==
    ASSUME IInv, NEW t \in Threads, WaitDone(t)
    PROVE  IInv'
<1> USE ScopeAssumption DEF IInv, WaitDone, Signalled, Goto
<1>1. TypeOK'
    BY DEF TypeOK, CallsInv, CloserInv, Labels
<1>2. CallsInv'
    BY DEF TypeOK, CallsInv, Committed, CloserInv, SweepInv, OwnedInv
<1>3. CloserInv'
    BY DEF TypeOK, CallsInv, Committed, CloserInv, SweepInv, OwnedInv
<1>4. SweepInv'
    BY DEF TypeOK, CallsInv, Committed, CloserInv, SweepInv
<1>5. OwnedInv'
    BY DEF TypeOK, CallsInv, Committed, CloserInv, SweepInv, OwnedInv
<1>6. ReturnInv'
    BY DEF TypeOK, SweepInv, ReturnInv, CloseResultsAgree, NoReturn
<1> QED
    BY <1>1, <1>2, <1>3, <1>4, <1>5, <1>6

-----------------------------------------------------------------------------
\* Every step of every goroutine keeps the invariant.
LEMMA NextIInv == IInv /\ [Next]_vars => IInv'
<1> SUFFICES ASSUME IInv, [Next]_vars PROVE IInv'
    OBVIOUS
<1>1. CASE \E t \in Threads : Step(t)
    BY <1>1, AddRejectKeeps, OnceRemoveKeeps, OnceCloseKeeps, OnceWaitKeeps, SweepEndKeeps, WaitDoneKeeps,
       SweepNextKeeps DEF Step
<1>2. CASE \E t \in Threads : Call(t)
    BY <1>2, ScopeCloseKeeps, AddKeeps, ResourceCloseKeeps DEF Call
<1>3. CASE \E r \in Resources : Unsubscribe(r)
    BY <1>3, UnsubscribeKeeps
<1>4. CASE UNCHANGED vars
    BY <1>4 DEF vars, IInv, TypeOK, CallsInv, Committed, CloserInv, SweepInv, OwnedInv, ReturnInv, CloseResultsAgree
<1> QED
    BY <1>1, <1>2, <1>3, <1>4 DEF Next

\* The inductive invariant holds in every reachable state of a scope.
THEOREM Invariance == Spec => []IInv
BY InitIInv, NextIInv, PTL DEF Spec

\* The type invariant of the scope, for any goroutines and closers.
THEOREM TypeCorrect == Spec => []TypeOK
<1>1. IInv => TypeOK
    BY DEF IInv
<1> QED
    BY <1>1, Invariance, PTL

\* No closer is called twice, whoever races to close it: its owner, the sweep
\* of scope.Close, a rejecting add (scope.go:40, 47, 73).
THEOREM AtMostOnce == Spec => []ClosedAtMostOnce
<1>1. IInv => ClosedAtMostOnce
    BY DEF IInv, TypeOK, CloserInv, ClosedAtMostOnce
<1> QED
    BY <1>1, Invariance, PTL

\* When scope.Close releases its waiters, its whole snapshot is closed, also
\* what another goroutine was closing (scope.go:72, 78).
THEOREM SnapshotClosed == Spec => []CloseWaitsForSnapshot
<1>1. IInv => CloseWaitsForSnapshot
    BY DEF IInv, SweepInv, CloseWaitsForSnapshot
<1> QED
    BY <1>1, Invariance, PTL

\* After scope.Close nothing that was handed to the scope stays open, late
\* acquisitions included (scope.go:14).
THEOREM NothingOutlives == Spec => []NothingOutlivesClose
<1>1. IInv => NothingOutlivesClose
  <2> SUFFICES ASSUME IInv, done, NEW r \in Resources, reg[r] # "new", r \notin released, calls[r] # 1
               PROVE  \E t \in Threads : arg[t] = r /\ pc[t] \in {"close", "reject"}
      BY DEF NothingOutlivesClose
  <2>1. CASE reg[r] = "rejected"
      BY <2>1 DEF IInv, CloserInv
  <2>2. CASE reg[r] = "added"
    <3>1. once[r] = "running"
        BY <2>2 DEF IInv, TypeOK, CloserInv, SweepInv, OwnedInv
    <3>2. PICK t \in Threads : pc[t] \in {"once", "close"} /\ arg[t] = r
        BY <3>1 DEF IInv, CloserInv
    <3>3. pc[t] # "once"
        BY <3>2 DEF IInv, SweepInv, OwnedInv
    <3> QED
        BY <3>2, <3>3
  <2> QED
      BY <2>1, <2>2 DEF IInv, TypeOK
<1> QED
    BY <1>1, Invariance, PTL

\* A closer that was unsubscribed from an open scope is never closed by it
\* (service.go:508, network.go:65).
THEOREM ReleasedStays == Spec => []ReleasedStaysOpen
<1>1. IInv => ReleasedStaysOpen
    BY DEF IInv, TypeOK, CloserInv, OwnedInv, ReleasedStaysOpen
<1> QED
    BY <1>1, Invariance, PTL

\* Every caller of scope.Close gets the error joined over the whole snapshot
\* (scope.go:59, 73).
THEOREM ResultsAgree == Spec => []CloseResultsAgree
<1>1. IInv => CloseResultsAgree
    BY DEF IInv, ReturnInv
<1> QED
    BY <1>1, Invariance, PTL

-----------------------------------------------------------------------------
\* The initial state of a scope is the one of Ownership.
LEMMA InitOwn == Init => Own!Init
BY DEF Init, Own!Init, Phase, State

\* A step that changes neither the phase nor the state of any resource.
LEMMA Stutters ==
    ASSUME UNCHANGED <<closed, done, items, reg, calls, released, snapshot>>
    PROVE  UNCHANGED Own!avars
BY DEF Own!avars, Phase, State

\* A step that changes the state of one resource only.
LEMMA Changes ==
    ASSUME NEW r \in Resources, NEW s, UNCHANGED <<closed, done>>,
           State'[r] = s, \A q \in Resources \ {r} : State'[q] = State[q]
    PROVE  Own!Becomes(r, s)
<1>1. State' = [q \in Resources |-> State'[q]] /\ State = [q \in Resources |-> State[q]]
    BY DEF State
<1> QED
    BY <1>1 DEF Own!Becomes, Phase

\* Registering with an open scope acquires, registering with a closed one
\* changes nothing yet ...
LEMMA AddOwn ==
    ASSUME IInv, NEW t \in Threads, NEW r \in Resources, Add(t, r)
    PROVE  [Own!Next]_Own!avars
<1>1. CASE ~closed
  <2>1. State[r] = "new" /\ State'[r] = "owned" /\ \A q \in Resources \ {r} : State'[q] = State[q]
      BY <1>1 DEF IInv, TypeOK, CloserInv, SweepInv, Add, Admits, State
  <2>2. Own!Acquire(r)
      BY <1>1, <2>1, Changes DEF IInv, SweepInv, Add, Own!Acquire, Phase
  <2> QED
      BY <2>2 DEF Own!Next
<1>2. CASE closed
    BY <1>2 DEF IInv, TypeOK, CloserInv, Add, Admits, Own!avars, Phase, State
<1> QED
    BY <1>1, <1>2

\* ... until the rejecting add has closed the closer.
LEMMA AddRejectOwn ==
    ASSUME IInv, NEW t \in Threads, AddReject(t)
    PROVE  Own!Next
<1>1. arg[t] \in Resources /\ reg[arg[t]] = "rejected" /\ calls[arg[t]] = 0 /\ closed
    BY DEF IInv, TypeOK, CallsInv, OwnedInv, AddReject
<1>2. State[arg[t]] = "new" /\ State'[arg[t]] = "closed" /\ \A q \in Resources \ {arg[t]} : State'[q] = State[q]
    BY <1>1 DEF IInv, TypeOK, CloserInv, AddReject, Reject, State
<1>3. Own!Refuse(arg[t])
    BY <1>1, <1>2, Changes DEF AddReject, Own!Refuse, Phase
<1> QED
    BY <1>1, <1>3 DEF Own!Next

\* A closer that leaves the items of an open scope is leaving; the sweep's own
\* removals change nothing.
LEMMA OnceRemoveOwn ==
    ASSUME IInv, NEW t \in Threads, OnceRemove(t)
    PROVE  [Own!Next]_Own!avars
<1>1. arg[t] \in Resources /\ reg[arg[t]] = "added" /\ calls[arg[t]] = 0 /\ arg[t] \notin released
    BY DEF IInv, TypeOK, CallsInv, CloserInv, OwnedInv, OnceRemove
<1>2. CASE ~closed
  <2>1. State[arg[t]] = "owned" /\ State'[arg[t]] = "leaving" /\ \A q \in Resources \ {arg[t]} : State'[q] = State[q]
      BY <1>1, <1>2 DEF IInv, TypeOK, SweepInv, OwnedInv, OnceRemove, State
  <2>2. Own!Leave(arg[t])
      BY <1>1, <1>2, <2>1, Changes DEF IInv, SweepInv, OnceRemove, Own!Leave, Phase
  <2> QED
      BY <1>1, <2>2 DEF Own!Next
<1>3. CASE closed
    BY <1>1, <1>3 DEF IInv, OwnedInv, OnceRemove, Own!avars, Phase, State
<1> QED
    BY <1>2, <1>3

\* The call of the closer shuts it.
LEMMA OnceCloseOwn ==
    ASSUME IInv, NEW t \in Threads, OnceClose(t)
    PROVE  Own!Next
<1>1. arg[t] \in Resources /\ reg[arg[t]] = "added" /\ calls[arg[t]] = 0 /\ arg[t] \notin released /\ arg[t] \notin items
    BY DEF IInv, TypeOK, CallsInv, CloserInv, OwnedInv, OnceClose
<1>2. arg[t] \in snapshot => closed /\ ~done
    BY <1>1 DEF IInv, SweepInv
<1>3. State[arg[t]] = (IF arg[t] \in snapshot THEN "owned" ELSE "leaving") /\ State'[arg[t]] = "closed"
    BY <1>1 DEF IInv, TypeOK, OnceClose, State
<1>4. \A q \in Resources \ {arg[t]} : State'[q] = State[q]
    BY <1>1 DEF IInv, TypeOK, OnceClose, State
<1>5. Own!Shut(arg[t])
    BY <1>1, <1>2, <1>3, <1>4, Changes DEF OnceClose, Own!Shut, Phase
<1> QED
    BY <1>1, <1>5 DEF Own!Next

\* Unsubscribing from an open scope releases; from a closed one it is void.
LEMMA UnsubscribeOwn ==
    ASSUME IInv, NEW r \in Resources, Unsubscribe(r)
    PROVE  [Own!Next]_Own!avars
<1>1. CASE ~closed
  <2>1. r \in items /\ calls[r] = 0
      BY <1>1 DEF IInv, CloserInv, OwnedInv, Unsubscribe
  <2>2. State[r] = "owned" /\ State'[r] = "released" /\ \A q \in Resources \ {r} : State'[q] = State[q]
      BY <1>1, <2>1 DEF IInv, TypeOK, SweepInv, Unsubscribe, Unsubscribed, State
  <2>3. Own!Release(r)
      BY <1>1, <2>2, Changes DEF IInv, SweepInv, Unsubscribe, Own!Release, Phase
  <2> QED
      BY <2>3 DEF Own!Next
<1>2. CASE closed
    BY <1>2 DEF IInv, OwnedInv, Unsubscribe, Unsubscribed, Own!avars, Phase, State
<1> QED
    BY <1>1, <1>2

\* The critical section of scope.Close begins the closing: the snapshot is what
\* is owned.
LEMMA ScopeCloseOwn ==
    ASSUME IInv, NEW t \in Threads, ScopeClose(t)
    PROVE  [Own!Next]_Own!avars
<1>1. CASE ~closed
  <2>1. Own!BeginClose
      BY <1>1 DEF IInv, SweepInv, ScopeClose, Own!BeginClose, Phase, State
  <2> QED
      BY <2>1 DEF Own!Next
<1>2. CASE closed
    BY <1>2, Stutters DEF ScopeClose
<1> QED
    BY <1>1, <1>2

\* When the loop of scope.Close is over, nothing is owned.
LEMMA SweepEndOwn ==
    ASSUME IInv, NEW t \in Threads, SweepEnd(t)
    PROVE  Own!Next
<1>1. closed /\ ~done /\ t \in sweeping
    BY DEF IInv, SweepInv, SweepEnd
<1>2. \A r \in snapshot : calls[r] = 1
    BY <1>1 DEF IInv, TypeOK, SweepInv, SweepEnd
<1>3. \A r \in Resources : State[r] # "owned"
    BY <1>1, <1>2 DEF IInv, OwnedInv, State
<1>4. Own!EndClose
    BY <1>1, <1>3 DEF SweepEnd, Signal, Own!EndClose, Phase, State
<1> QED
    BY <1>4 DEF Own!Next

\* Every step of a goroutine is a step of Ownership or changes nothing in it.
LEMMA NextOwn == IInv /\ [Next]_vars => [Own!Next]_Own!avars
<1> SUFFICES ASSUME IInv, [Next]_vars PROVE [Own!Next]_Own!avars
    OBVIOUS
<1>1. ASSUME NEW t \in Threads, Step(t) PROVE [Own!Next]_Own!avars
  <2>1. CASE OnceWait(t) \/ WaitDone(t) \/ \E r \in Resources : SweepNext(t, r)
    <3>1. CASE OnceWait(t)
        BY <3>1, Stutters DEF OnceWait
    <3>2. CASE WaitDone(t)
        BY <3>2, Stutters DEF WaitDone
    <3>3. CASE \E r \in Resources : SweepNext(t, r)
        BY <3>3, Stutters DEF SweepNext
    <3> QED
        BY <2>1, <3>1, <3>2, <3>3
  <2> QED
      BY <1>1, <2>1, AddRejectOwn, OnceRemoveOwn, OnceCloseOwn, SweepEndOwn DEF Step
<1>2. ASSUME NEW t \in Threads, Call(t) PROVE [Own!Next]_Own!avars
  <2>1. CASE \E r \in Resources : ResourceClose(t, r)
      BY <2>1, Stutters DEF ResourceClose
  <2> QED
      BY <1>2, <2>1, ScopeCloseOwn, AddOwn DEF Call
<1>3. CASE UNCHANGED vars
    BY <1>3, Stutters DEF vars
<1> QED
    BY <1>1, <1>2, <1>3, UnsubscribeOwn DEF Next

\* scope.go implements Ownership, for any goroutines and closers: what is
\* acquired is owned until it is closed or released, what comes late is closed,
\* and scope.Close completes with nothing owned (scope.go:14, 35, 46, 55).
THEOREM Refinement == Spec => OwnershipKept
BY InitOwn, NextOwn, Invariance, PTL DEF Spec, OwnershipKept, Own!Spec
=============================================================================
