---------------------------- MODULE EventBroker ----------------------------
(***************************************************************************)
(* The event broker of events.go with its two users.  The driver keeps its *)
(* recent events under Driver.mu and publishes after the unlock; a service *)
(* keeps its last publication state and publishes it while it still holds  *)
(* publicationMu.  A subscriber starts with the kept events.  Channels are *)
(* bounded; the readers take no lock and read when they like.              *)
(***************************************************************************)
EXTENDS Naturals, Sequences, Functions

CONSTANTS
    Publishers, Subscribers,
    Nobody,         \* no publisher: a mutex is free
    Buffer,         \* the capacity every subscriber asks for
    RecentLimit,    \* recentLimit of publishDriverEvent
    MaxEvents       \* bound on the number of published events

ASSUME BrokerAssumption ==
    /\ Buffer \in [Subscribers -> Nat \ {0}] /\ RecentLimit \in Nat \ {0} /\ MaxEvents \in Nat
    /\ Nobody \notin Publishers

VARIABLES
    user,           \* whose broker it is: "driver" or "service"
    closing,        \* Driver.closed, Service.closing
    closed,         \* eventBroker.closed
    kept,           \* Driver.recentEvents, <<Service.publication>>
    count,          \* events so far; an event is its number
    bmu, pmu,       \* holder of eventBroker.mu, of publicationMu
    pc, event,      \* position and event of every publisher
    todo, at,       \* subscribers the loop under bmu has still to serve, the one with a full channel
    chan,           \* "none", "open" (in subs), "closed"
    queue,          \* buffered events of every subscriber
    offered,        \* history: everything a subscriber was given or offered
    since, doubt,   \* count at its subscription, and the events then appended but not published
    behind          \* history: for every event, the ones still on the way when it was kept

vars == <<user, closing, closed, kept, count, bmu, pmu, pc, event, todo, at, chan, queue, offered, since, doubt,
          behind>>
broker == <<closing, closed>>
log == <<kept, count>>
history == <<since, doubt, behind>>

Newest(q, n) == IF Len(q) <= n THEN q ELSE SubSeq(q, Len(q) - n + 1, Len(q))

\* A new driver has no events; a new service is pending (event 0).
Init ==
    /\ user \in {"driver", "service"}
    /\ closing = FALSE /\ closed = FALSE
    /\ kept = IF user = "driver" THEN <<>> ELSE <<0>>
    /\ count = 0
    /\ bmu = Nobody /\ pmu = Nobody
    /\ pc = [p \in Publishers |-> "idle"]
    /\ event = [p \in Publishers |-> 0]
    /\ todo = {} /\ at = {}
    /\ chan = [s \in Subscribers |-> "none"]
    /\ queue = [s \in Subscribers |-> <<>>]
    /\ offered = [s \in Subscribers |-> <<>>]
    /\ since = [s \in Subscribers |-> 0]
    /\ doubt = [s \in Subscribers |-> {}]
    /\ behind = [e \in 1..MaxEvents |-> {}]

Goto(p, label) == pc' = [pc EXCEPT ![p] = label]
Return(p) == Goto(p, "idle") /\ event' = [event EXCEPT ![p] = 0]

BrokerFreeAlways == TRUE
BrokerFree == bmu = Nobody

-----------------------------------------------------------------------------
(* publishDriverEvent, and handlePublication of an event it does not drop.  *)

\* What is kept with a new event: the newest of the driver, the last of a service.
Kept(e) == IF user = "driver" THEN Newest(Append(kept, e), RecentLimit) ELSE <<e>>

\* Only the service holds its lock until the event is published.
HolderNone(p) == Nobody
Holder(p) == IF user = "service" THEN p ELSE Nobody

\* The events whose publishers have not returned.
OnTheWay == {event[x] : x \in {y \in Publishers : pc[y] # "idle"}}

Keep(p) ==
    /\ pc[p] = "idle"
    /\ pmu = Nobody
    /\ count < MaxEvents
    /\ count' = count + 1
    /\ event' = [event EXCEPT ![p] = count + 1]
    /\ kept' = Kept(count + 1)
    /\ pmu' = Holder(p)
    /\ behind' = [behind EXCEPT ![count + 1] = OnTheWay]
    /\ Goto(p, "publish")
    /\ UNCHANGED <<user, broker, bmu, todo, at, chan, queue, offered, since, doubt>>

\* eventBroker.publish locks; a closed broker publishes nothing.
PublishClosed(p) ==
    /\ pc[p] = "publish"
    /\ bmu = Nobody
    /\ closed
    /\ pmu' = Nobody
    /\ Return(p)
    /\ UNCHANGED <<user, broker, log, bmu, todo, at, chan, queue, offered, history>>

Publish(p) ==
    /\ pc[p] = "publish"
    /\ bmu = Nobody
    /\ ~closed
    /\ bmu' = p
    /\ todo' = {s \in Subscribers : chan[s] = "open"}
    /\ Goto(p, "loop")
    /\ UNCHANGED <<user, broker, log, pmu, event, at, chan, queue, offered, history>>

\* A send happens if the channel has room.
Full(s) == Len(queue[s]) = Buffer[s]

Offer(p, s) ==
    /\ queue' = [queue EXCEPT ![s] = IF Full(s) THEN @ ELSE Append(@, event[p])]
    /\ offered' = [offered EXCEPT ![s] = Append(@, event[p])]

\* The first select of the loop, over the subscribers in any order.
DefaultNever(s) == FALSE
Default(s) == Full(s)

Send(p, s) ==
    /\ pc[p] = "loop"
    /\ s \in todo
    /\ todo' = todo \ {s}
    /\ \/ /\ ~Full(s)
          /\ Offer(p, s)
          /\ UNCHANGED <<pc, at>>
       \/ /\ Default(s)
          /\ at' = {s}
          /\ Goto(p, "evict")
          /\ UNCHANGED <<queue, offered>>
    /\ UNCHANGED <<user, broker, log, bmu, pmu, event, chan, history>>

\* The channel was full.  The second select drops the oldest event, unless the
\* reader has emptied the channel meanwhile; the third one sends.
EvictedNewest(q) == IF q = <<>> THEN q ELSE SubSeq(q, 1, Len(q) - 1)
Evicted(q) == IF q = <<>> THEN q ELSE Tail(q)

Evict(p, s) ==
    /\ pc[p] = "evict"
    /\ s \in at
    /\ queue' = [queue EXCEPT ![s] = Evicted(@)]
    /\ Goto(p, "resend")
    /\ UNCHANGED <<user, broker, log, bmu, pmu, event, todo, at, chan, offered, history>>

Resend(p, s) ==
    /\ pc[p] = "resend"
    /\ s \in at
    /\ Offer(p, s)
    /\ at' = {}
    /\ Goto(p, "loop")
    /\ UNCHANGED <<user, broker, log, bmu, pmu, event, todo, chan, history>>

PublishEnd(p) ==
    /\ pc[p] = "loop"
    /\ todo = {}
    /\ bmu' = Nobody /\ pmu' = Nobody
    /\ Return(p)
    /\ UNCHANGED <<user, broker, log, todo, at, chan, queue, offered, history>>

-----------------------------------------------------------------------------
(* SubscribeEvents, cancel, the reader, and the end of the broker.           *)

InFlight == {event[p] : p \in {x \in Publishers : pc[x] = "publish"}}

\* Driver.mu (or publicationMu) and then the broker's lock are held throughout,
\* so the kept events are read and the channel is entered in one step.
Subscribe(s) ==
    /\ chan[s] = "none"
    /\ ~closing /\ ~closed
    /\ pmu = Nobody
    /\ BrokerFree
    /\ chan' = [chan EXCEPT ![s] = "open"]
    /\ queue' = [queue EXCEPT ![s] = Newest(kept, Buffer[s])]
    /\ offered' = [offered EXCEPT ![s] = Newest(kept, Buffer[s])]
    /\ since' = [since EXCEPT ![s] = count]
    /\ doubt' = [doubt EXCEPT ![s] = InFlight]
    /\ UNCHANGED <<user, broker, log, bmu, pmu, pc, event, todo, at, behind>>

Cancel(s) ==
    /\ chan[s] = "open"
    /\ BrokerFree
    /\ chan' = [chan EXCEPT ![s] = "closed"]
    /\ UNCHANGED <<user, broker, log, bmu, pmu, pc, event, todo, at, queue, offered, history>>

\* The application reads; what was buffered can be read after the close.
Read(s) ==
    /\ queue[s] # <<>>
    /\ queue' = [queue EXCEPT ![s] = Tail(@)]
    /\ UNCHANGED <<user, broker, log, bmu, pmu, pc, event, todo, at, chan, offered, history>>

BeginClose ==
    /\ ~closing
    /\ closing' = TRUE
    /\ UNCHANGED <<user, closed, log, bmu, pmu, pc, event, todo, at, chan, queue, offered, history>>

\* eventBroker.close.  Driver.Close calls it last; the scope of a service also
\* does when the driver sweeps it without closing the service.
CloseBroker ==
    /\ closing \/ user = "service"
    /\ ~closed
    /\ BrokerFree
    /\ closed' = TRUE
    /\ chan' = [s \in Subscribers |-> IF chan[s] = "open" THEN "closed" ELSE chan[s]]
    /\ UNCHANGED <<user, closing, log, bmu, pmu, pc, event, todo, at, queue, offered, history>>

PublisherStep(p) ==
    \/ PublishClosed(p) \/ Publish(p) \/ PublishEnd(p)
    \/ \E s \in Subscribers : Send(p, s) \/ Evict(p, s) \/ Resend(p, s)

Next ==
    \/ \E p \in Publishers : Keep(p) \/ PublisherStep(p)
    \/ \E s \in Subscribers : Subscribe(s) \/ Cancel(s) \/ Read(s)
    \/ BeginClose \/ CloseBroker

\* A goroutine that publishes keeps running; sync.Mutex starves nobody.  The
\* readers owe nothing.
Fairness == \A p \in Publishers : SF_vars(PublisherStep(p))

Spec == Init /\ [][Next]_vars
FairSpec == Spec /\ Fairness

-----------------------------------------------------------------------------
(* Properties                                                                *)

\* A slow subscriber keeps the newest events (SubscribeEvents): whatever the
\* reader takes between the three selects of publish, its channel holds the
\* last events it was offered, in order, and none was skipped.
KeepsNewest ==
    \A s \in Subscribers :
        (s \notin at) => queue[s] = Newest(offered[s], Len(queue[s]))

\* What a subscriber finds when it comes: the newest events, as many as are kept
\* and its channel holds.  The first state of a service is event 0.
First == IF user = "driver" THEN 1 ELSE 0
Limit == IF user = "driver" THEN RecentLimit ELSE 1
Found(s) == {e \in First..since[s] : since[s] - e < Limit /\ since[s] - e < Buffer[s]}

\* A subscription joins a running stream without a gap: the newest of the kept
\* events are there from the start, and every later event is offered, unless its
\* publisher is still on the way.  A service offers each state once and in order,
\* because it publishes under publicationMu.  The driver publishes after the
\* unlock.  There an event comes twice only if it was on the way at the
\* subscription, and after a newer one only if its publisher had not returned when
\* the newer one was kept (driver.go:590, 673-680; events.go:223, 256).
JoinsStream ==
    \A s \in Subscribers :
        chan[s] = "open" =>
            /\ Found(s) \subseteq Range(offered[s])
            /\ (since[s] + 1)..count \subseteq Range(offered[s]) \cup OnTheWay
            /\ \A i, j \in DOMAIN offered[s] :
                  LET x == offered[s][i]
                      y == offered[s][j]
                  IN  i < j => \/ x < y
                               \/ user = "driver" /\ x = y /\ y \in doubt[s]
                               \/ user = "driver" /\ x > y /\ y \in behind[x]

\* publish never sends on a channel that cancel or close has closed (a panic of
\* the program): its loop works on open channels only.  A closed broker has no
\* open channel left, so no reader waits on it for ever.
NoSendOnClosed ==
    /\ \A s \in todo \cup at : chan[s] = "open"
    /\ closed => \A s \in Subscribers : chan[s] # "open"

\* Publishing returns whatever the subscribers do: readers that never read hold
\* up neither the control event loop nor Driver.Close.
PublishReturns == \A p \in Publishers : (pc[p] # "idle") ~> (pc[p] = "idle")
=============================================================================
