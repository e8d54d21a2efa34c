------------------------------- MODULE Scope -------------------------------
(***************************************************************************)
(* The ownership primitive of scope.go.  A scope owns closers: add         *)
(* registers one or, once the scope is closed, closes it on the spot;      *)
(* resource.Close closes one early; scope.Close closes the rest and keeps  *)
(* later callers waiting until it is through.  Goroutines interleave at    *)
(* the granularity of the mutex, the sync.Once and the done channel.       *)
(***************************************************************************)
EXTENDS Naturals, FiniteSets

CONSTANTS
    Threads,        \* goroutines using the scope
    Resources,      \* closers they may register, each at most once
    Subscribed,     \* those registered through SubscribeCloser: callers hold only an unsubscribe
    Failing,        \* closers whose Close reports an error
    NoResource      \* argument of a goroutine that is not closing anything

ASSUME ScopeAssumption ==
    /\ Subscribed \subseteq Resources
    /\ Failing \subseteq Resources
    /\ NoResource \notin Resources

VARIABLES
    closed,     \* scope.closed; its context is cancelled in the same critical section
    items,      \* scope.items
    done,       \* scope.done has been closed
    err,        \* scope.err: the failing closers that scope.Close joined
    reg,        \* "new", "added" (add returned a resource) or "rejected" (add returned ErrClosed)
    once,       \* resource.once: "fresh", "running", "done"
    calls,      \* how often Close of the underlying closer has returned
    released,   \* unsubscribed while the scope was open
    todo,       \* rest of the slice scope.Close iterates over
    snapshot,   \* that slice as it was taken
    sweeping,   \* the goroutine executing scope.Close past its critical section
    pc, arg,    \* position of each goroutine, and the closer it works on
    returned    \* what a finished scope.Close returned to each goroutine

vars == <<closed, items, done, err, reg, once, calls, released, todo, snapshot,
          sweeping, pc, arg, returned>>

Labels == {"idle", "reject", "once", "close", "waitOnce", "sweep", "waitDone"}
NoReturn == {NoResource}

Init ==
    /\ closed = FALSE /\ done = FALSE
    /\ items = {} /\ err = {} /\ released = {} /\ todo = {} /\ snapshot = {}
    /\ reg = [r \in Resources |-> "new"]
    /\ once = [r \in Resources |-> "fresh"]
    /\ calls = [r \in Resources |-> 0]
    /\ sweeping = {}
    /\ pc = [t \in Threads |-> "idle"]
    /\ arg = [t \in Threads |-> NoResource]
    /\ returned = [t \in Threads |-> NoReturn]

Goto(t, label) == pc' = [pc EXCEPT ![t] = label]

\* Where a resource.Close call returns to: the loop of scope.Close or the caller.
ResumeFallsThrough(t) == IF t \in sweeping THEN "sweep" ELSE "close"
Resume(t) == IF t \in sweeping THEN "sweep" ELSE "idle"

\* The condition under which add registers a closer.
AdmitsAlways == TRUE
Admits == ~closed

\* What add does with a closer it rejects.
RejectLeaks(r) == calls
Reject(r) == [calls EXCEPT ![r] = @ + 1]

\* once.Do: the first caller runs the body, the others wait for it to return.
RunsBodyAlways(r) == TRUE
RunsBody(r) == once[r] = "fresh"

BodyReturnedUnchecked(r) == TRUE
BodyReturned(r) == once[r] = "done"

\* The registrations left by the function that SubscribeCloser returns.
UnsubscribedNothing(r) == items
Unsubscribed(r) == items \ {r}

\* close(s.done) and the receive that waits for it.
Signal == done' = TRUE

SignalledUnchecked == TRUE
Signalled == done

-----------------------------------------------------------------------------
\* scope.add, up to the unlock; a closed scope leaves c.Close() to AddReject.
Add(t, r) ==
    /\ pc[t] = "idle"
    /\ reg[r] = "new"
    /\ \/ /\ Admits
          /\ reg' = [reg EXCEPT ![r] = "added"]
          /\ items' = items \cup {r}
          /\ UNCHANGED <<pc, arg>>
       \/ /\ ~Admits
          /\ reg' = [reg EXCEPT ![r] = "rejected"]
          /\ arg' = [arg EXCEPT ![t] = r]
          /\ Goto(t, "reject")
          /\ UNCHANGED items
    /\ UNCHANGED <<closed, done, err, once, calls, released, todo, snapshot, sweeping, returned>>

\* The late acquisition is closed before add returns ErrClosed.
AddReject(t) ==
    /\ pc[t] = "reject"
    /\ calls' = Reject(arg[t])
    /\ arg' = [arg EXCEPT ![t] = NoResource]
    /\ Goto(t, "idle")
    /\ UNCHANGED <<closed, items, done, err, reg, once, released, todo, snapshot, sweeping, returned>>

\* A call of resource.Close enters its once.Do.
EnterOnce(t, r) ==
    /\ arg' = [arg EXCEPT ![t] = r]
    /\ once' = [once EXCEPT ![r] = IF RunsBody(r) THEN "running" ELSE @]
    /\ Goto(t, IF RunsBody(r) THEN "once" ELSE "waitOnce")

\* resource.Close called by the owner of the resource.
ResourceClose(t, r) ==
    /\ pc[t] = "idle"
    /\ reg[r] = "added"
    /\ r \notin Subscribed
    /\ EnterOnce(t, r)
    /\ UNCHANGED <<closed, items, done, err, reg, calls, released, todo, snapshot, sweeping, returned>>

\* Body of the once: the resource leaves scope.items first ...
OnceRemove(t) ==
    /\ pc[t] = "once"
    /\ items' = items \ {arg[t]}
    /\ Goto(t, "close")
    /\ UNCHANGED <<closed, done, err, reg, once, calls, released, todo, snapshot, sweeping, arg, returned>>

\* ... and the underlying closer is called outside the mutex.
OnceClose(t) ==
    /\ pc[t] = "close"
    /\ calls' = [calls EXCEPT ![arg[t]] = @ + 1]
    /\ once' = [once EXCEPT ![arg[t]] = "done"]
    /\ arg' = [arg EXCEPT ![t] = NoResource]
    /\ Goto(t, Resume(t))
    /\ UNCHANGED <<closed, items, done, err, reg, released, todo, snapshot, sweeping, returned>>

OnceWait(t) ==
    /\ pc[t] = "waitOnce"
    /\ BodyReturned(arg[t])
    /\ arg' = [arg EXCEPT ![t] = NoResource]
    /\ Goto(t, Resume(t))
    /\ UNCHANGED <<closed, items, done, err, reg, once, calls, released, todo, snapshot, sweeping, returned>>

\* The function SubscribeCloser returns: it drops the registration only.
Unsubscribe(r) ==
    /\ reg[r] = "added"
    /\ r \in Subscribed \ released
    /\ items' = Unsubscribed(r)
    /\ released' = IF ~closed THEN released \cup {r} ELSE released
    /\ UNCHANGED <<closed, done, err, reg, once, calls, todo, snapshot, sweeping, pc, arg, returned>>

\* Critical section of scope.Close: close the scope and snapshot its items,
\* or find it closed already and wait for the goroutine that did.
ScopeClose(t) ==
    /\ pc[t] = "idle"
    /\ \/ /\ closed
          /\ Goto(t, "waitDone")
          /\ UNCHANGED <<closed, todo, snapshot, sweeping>>
       \/ /\ ~closed
          /\ closed' = TRUE
          /\ todo' = items
          /\ snapshot' = items
          /\ sweeping' = {t}
          /\ Goto(t, "sweep")
    /\ UNCHANGED <<items, done, err, reg, once, calls, released, arg, returned>>

\* One iteration of the loop over the snapshot, in map order (any order).
SweepNext(t, r) ==
    /\ pc[t] = "sweep"
    /\ r \in todo
    /\ todo' = todo \ {r}
    /\ EnterOnce(t, r)
    /\ UNCHANGED <<closed, items, done, err, reg, calls, released, snapshot, sweeping, returned>>

\* The loop is over: publish the joined error, release the waiters, return.
SweepEnd(t) ==
    /\ pc[t] = "sweep"
    /\ todo = {}
    /\ err' = snapshot \cap Failing
    /\ Signal
    /\ sweeping' = {}
    /\ returned' = [returned EXCEPT ![t] = snapshot \cap Failing]
    /\ Goto(t, "idle")
    /\ UNCHANGED <<closed, items, reg, once, calls, released, todo, snapshot, arg>>

WaitDone(t) ==
    /\ pc[t] = "waitDone"
    /\ Signalled
    /\ returned' = [returned EXCEPT ![t] = err]
    /\ Goto(t, "idle")
    /\ UNCHANGED <<closed, items, done, err, reg, once, calls, released, todo, snapshot, sweeping, arg>>

\* A goroutine that runs until its current call returns.
Step(t) ==
    \/ AddReject(t) \/ OnceRemove(t) \/ OnceClose(t) \/ OnceWait(t)
    \/ SweepEnd(t) \/ WaitDone(t)
    \/ \E r \in Resources : SweepNext(t, r)

Call(t) ==
    \/ ScopeClose(t)
    \/ \E r \in Resources : Add(t, r) \/ ResourceClose(t, r)

Next == \/ \E t \in Threads : Step(t) \/ Call(t)
        \/ \E r \in Resources : Unsubscribe(r)

Spec == Init /\ [][Next]_vars

\* The Go scheduler keeps running a goroutine that can run; the registered
\* closers return.  Nobody is obliged to start a new call.
FairSpec == Spec /\ \A t \in Threads : WF_vars(Step(t))

-----------------------------------------------------------------------------
\* Every variable stays in its type, and a goroutine has an argument exactly
\* while it is inside a call that works on one closer.
TypeOK ==
    /\ closed \in BOOLEAN /\ done \in BOOLEAN
    /\ items \subseteq Resources /\ err \subseteq Resources /\ released \subseteq Resources
    /\ todo \subseteq Resources /\ snapshot \subseteq Resources
    /\ reg \in [Resources -> {"new", "added", "rejected"}]
    /\ once \in [Resources -> {"fresh", "running", "done"}]
    /\ calls \in [Resources -> Nat]
    /\ sweeping \subseteq Threads
    /\ pc \in [Threads -> Labels]
    /\ arg \in [Threads -> Resources \cup {NoResource}]
    /\ \A t \in Threads : arg[t] \in Resources <=> pc[t] \in {"reject", "once", "close", "waitOnce"}
    /\ returned \in [Threads -> SUBSET (Resources \cup {NoResource})]

\* No closer is ever called twice, although its owner, the sweep of scope.Close
\* and a rejecting add may race to close it (scope.go:40, 47, 73).
ClosedAtMostOnce == \A r \in Resources : calls[r] <= 1

\* Once scope.Close has released its waiters, everything it found registered
\* has been closed, also what another goroutine was in the middle of closing.
CloseWaitsForSnapshot == done => \A r \in snapshot : calls[r] = 1

\* "scope rejects late acquisitions as well as closing existing resources"
\* (scope.go:14): after scope.Close, a resource that is still open is in the
\* hands of a goroutine that has already committed to closing it.
NothingOutlivesClose ==
    done => \A r \in Resources :
              \/ reg[r] = "new"
              \/ r \in released
              \/ calls[r] = 1
              \/ \E t \in Threads : arg[t] = r /\ pc[t] \in {"close", "reject"}

\* A closer unsubscribed before scope.Close stays with its owner: the scope
\* never closes it (service.go:508, network.go:65).
ReleasedStaysOpen == \A r \in released : calls[r] = 0

\* All callers of scope.Close get the same error, the one joined over the
\* whole snapshot, and only after the sweep is through.
CloseResultsAgree == \A t \in Threads : returned[t] # NoReturn => done /\ returned[t] = snapshot \cap Failing

\* The promise of a scope, seen through its fields: see Ownership.tla.
Phase == IF done THEN "done" ELSE IF closed THEN "closing" ELSE "open"
State == [r \in Resources |->
            IF calls[r] > 0 THEN "closed"
            ELSE IF r \in released THEN "released"
            ELSE IF reg[r] # "added" THEN "new"
            ELSE IF r \in items \cup snapshot THEN "owned" ELSE "leaving"]
Own == INSTANCE Ownership WITH AtOnce <- {}, phase <- Phase, state <- State

\* scope.go implements Ownership: acquisitions are owned or refused, a closer is
\* closed by its holder or by the closing scope and by nobody once released, and
\* scope.Close completes only with nothing owned (scope.go:14, 35, 46, 55).
OwnershipKept == Own!Spec

\* Every call of scope.Close returns, and everything ever handed to a scope
\* that is closed ends up closed, except what was unsubscribed before.
CloseCompletes ==
    /\ \A t \in Threads : pc[t] \in {"sweep", "waitDone"} ~> pc[t] = "idle"
    /\ \A r \in Resources : (closed /\ reg[r] # "new" /\ r \notin released) ~> calls[r] = 1
=============================================================================
