------------------------- MODULE EventBrokerProofs -------------------------
(***************************************************************************)
(* Proofs about EventBroker.tla for any number of publishers, subscribers  *)
(* and events, and for channels of any capacity.                           *)
(***************************************************************************)
EXTENDS EventBroker, SequenceTheorems, TLAPS

\* Zenon goes first, with time for a slow machine; a leaf that needs SMT says so.
USE ZenonT(20), SMTT(90)

\* q is the end of o.
Suffix(q, o) ==
    /\ Len(q) <= Len(o)
    /\ \A i \in 1..Len(q) : q[i] = o[Len(o) - Len(q) + i]

Labels == {"idle", "publish", "loop", "evict", "resend"}

\* The values of the variables.
TypeInv ==
    /\ closed \in BOOLEAN /\ count \in Nat
    /\ kept \in Seq(Nat)
    /\ bmu \in Publishers \cup {Nobody}
    /\ pc \in [Publishers -> Labels]
    /\ event \in [Publishers -> Nat]
    /\ todo \subseteq Subscribers /\ at \subseteq Subscribers
    /\ chan \in [Subscribers -> {"none", "open", "closed"}]
    /\ queue \in [Subscribers -> Seq(Nat)]
    /\ offered \in [Subscribers -> Seq(Nat)]

\* One publisher is in the loop, with the lock; only it has channels to serve,
\* and those stay open as long.
LockInv ==
    /\ \A p \in Publishers : pc[p] \in {"loop", "evict", "resend"} <=> bmu = p
    /\ bmu = Nobody => todo = {} /\ at = {}
    /\ \A p \in Publishers : pc[p] = "loop" => at = {}
    /\ \A s, u \in at : s = u
    /\ closed => bmu = Nobody /\ \A s \in Subscribers : chan[s] # "open"
    /\ \A s \in todo \cup at : chan[s] = "open"

\* A channel holds the end of what it was offered; between the second and the
\* third select it has room, because nobody else sends.
QueueInv ==
    /\ \A s \in Subscribers : Len(queue[s]) <= Buffer[s] /\ Suffix(queue[s], offered[s])
    /\ \A p \in Publishers : pc[p] = "resend" => \A s \in at : Len(queue[s]) < Buffer[s]

IInv == TypeInv /\ LockInv /\ QueueInv

-----------------------------------------------------------------------------
(* Ends of sequences.                                                        *)

\* Newest keeps at most n elements.
LEMMA NewestBound ==
    ASSUME NEW q \in Seq(Nat), NEW n \in Nat \ {0}
    PROVE  Newest(q, n) \in Seq(Nat) /\ Len(Newest(q, n)) <= n
<1>1. CASE Len(q) <= n
    BY <1>1 DEF Newest
<1>2. CASE ~(Len(q) <= n)
  <2>1. \A i \in Len(q) - n + 1 .. Len(q) : q[i] \in Nat
      BY <1>2, SMTT(90)
  <2>2. Len(q) - n + 1 \in Int /\ Len(q) \in Int
      BY SMTT(90)
  <2> QED
      BY <1>2, <2>1, <2>2, SubSeqProperties, SMTT(90) DEF Newest
<1> QED
    BY <1>1, <1>2

\* A sequence is its own end.
LEMMA SuffixItself == ASSUME NEW q \in Seq(Nat) PROVE Suffix(q, q)
    BY SMTT(90) DEF Suffix

\* Reading, or dropping the oldest element, leaves an end.
LEMMA SuffixTail ==
    ASSUME NEW q \in Seq(Nat), NEW o \in Seq(Nat), q # <<>>, Suffix(q, o)
    PROVE  /\ Tail(q) \in Seq(Nat)
           /\ Len(Tail(q)) = Len(q) - 1
           /\ Suffix(Tail(q), o)
<1>1. /\ Tail(q) \in Seq(Nat)
      /\ Len(Tail(q)) = Len(q) - 1
      /\ \A i \in 1 .. Len(Tail(q)) : Tail(q)[i] = q[i+1]
    BY HeadTailProperties
<1> QED
    BY <1>1, SMTT(90) DEF Suffix

\* Sending extends both.
LEMMA SuffixAppend ==
    ASSUME NEW q \in Seq(Nat), NEW o \in Seq(Nat), NEW e \in Nat, Suffix(q, o)
    PROVE  Suffix(Append(q, e), Append(o, e))
<1>1. /\ Len(Append(q, e)) = Len(q) + 1
      /\ \A i \in 1 .. Len(q) : Append(q, e)[i] = q[i]
      /\ Append(q, e)[Len(q) + 1] = e
    BY AppendProperties, SMTT(90)
<1>2. /\ Len(Append(o, e)) = Len(o) + 1
      /\ \A i \in 1 .. Len(o) : Append(o, e)[i] = o[i]
      /\ Append(o, e)[Len(o) + 1] = e
    BY AppendProperties, SMTT(90)
<1> HIDE DEF Suffix
<1>3. ASSUME NEW i \in 1 .. Len(q) + 1
      PROVE  Append(q, e)[i] = Append(o, e)[Len(o) - Len(q) + i]
  <2>1. CASE i = Len(q) + 1
      BY <1>1, <1>2, <2>1, SMTT(90) DEF Suffix
  <2>2. CASE i \in 1 .. Len(q)
      BY <1>1, <1>2, <2>2, SMTT(90) DEF Suffix
  <2>3. Len(q) \in Nat
      BY SMTT(90)
  <2>4. i = Len(q) + 1 \/ i \in 1 .. Len(q)
      BY <2>3, SMTT(90)
  <2> QED
      BY <2>1, <2>2, <2>4, ZenonT(60)
<1>4. Len(q) \in Nat /\ Len(o) \in Nat
    BY SMTT(90)
<1>5. Len(Append(q, e)) <= Len(Append(o, e))
    BY <1>1, <1>2, <1>4, SMTT(90) DEF Suffix
<1>6. Len(Append(o, e)) - Len(Append(q, e)) = Len(o) - Len(q)
    BY <1>1, <1>2, <1>4, SMTT(90)
<1> QED
    BY <1>1, <1>3, <1>5, <1>6, ZenonT(60) DEF Suffix

\* The end of a sequence is its newest elements.
LEMMA SuffixNewest ==
    ASSUME NEW q \in Seq(Nat), NEW o \in Seq(Nat), Suffix(q, o)
    PROVE  q = Newest(o, Len(q))
<1>1. CASE Len(o) <= Len(q)
  <2>1. Len(q) = Len(o) /\ \A i \in 1..Len(q) : q[i] = o[i]
      BY <1>1, SMTT(90) DEF Suffix
  <2> QED
      BY <1>1, <2>1, SeqEqual DEF Newest
<1>2. CASE ~(Len(o) <= Len(q))
  <2> DEFINE t == SubSeq(o, Len(o) - Len(q) + 1, Len(o))
  <2>1. Len(q) \in Nat /\ Len(o) \in Nat /\ Len(q) < Len(o)
      BY <1>2, SMTT(90)
  <2>2. \A i \in Len(o) - Len(q) + 1 .. Len(o) : o[i] \in Nat
      BY <2>1, SMTT(90)
  <2>3. /\ t \in Seq(Nat)
        /\ Len(t) = IF Len(o) - Len(q) + 1 <= Len(o) THEN Len(o) - (Len(o) - Len(q) + 1) + 1 ELSE 0
        /\ \A i \in 1 .. Len(o) - (Len(o) - Len(q) + 1) + 1 : t[i] = o[(Len(o) - Len(q) + 1) + i - 1]
      BY <2>1, <2>2, SubSeqProperties, SMTT(90)
  <2> HIDE DEF t
  <2>4. Len(t) = Len(q) /\ \A i \in 1..Len(q) : q[i] = t[i]
      BY <2>1, <2>3, SMTT(90) DEF Suffix
  <2>5. q = t
      BY <2>3, <2>4, SeqEqual, ZenonT(60)
  <2> QED
      BY <1>2, <2>5 DEF Newest, t
<1> QED
    BY <1>1, <1>2

-----------------------------------------------------------------------------
\* A new broker satisfies the invariant.
LEMMA InitIInv == Init => IInv
<1> SUFFICES ASSUME Init PROVE IInv
    OBVIOUS
<1> USE BrokerAssumption DEF Init
<1>1. TypeInv
  <2>1. <<>> \in Seq(Nat) /\ <<0>> \in Seq(Nat)
      BY SMTT(90)
  <2>2. kept \in Seq(Nat)
      BY <2>1
  <2> QED
      BY <2>1, <2>2, ZenonT(60) DEF TypeInv, Labels
<1>2. LockInv
    BY DEF LockInv
<1>3. QueueInv
  <2>1. <<>> \in Seq(Nat)
      BY SMTT(90)
  <2>2. Suffix(<<>>, <<>>)
      BY <2>1, SuffixItself, ZenonT(60)
  <2> QED
      BY <2>2, SMTT(90) DEF QueueInv
<1> QED
    BY <1>1, <1>2, <1>3 DEF IInv

\* Every step keeps the types.
LEMMA TypeKept == TypeInv /\ [Next]_vars => TypeInv'
<1> SUFFICES ASSUME TypeInv, [Next]_vars PROVE TypeInv'
    OBVIOUS
<1> USE BrokerAssumption DEF TypeInv, Labels, Goto, broker, log, history
<1>1. ASSUME NEW p \in Publishers, Keep(p) PROVE TypeInv'
  <2>1. Kept(count + 1) \in Seq(Nat)
    <3>1. Append(kept, count + 1) \in Seq(Nat) /\ <<count + 1>> \in Seq(Nat)
        BY SMTT(90)
    <3> QED
        BY <3>1, NewestBound, ZenonT(60) DEF Kept
  <2> QED
      BY <1>1, <2>1, SMTT(90) DEF Keep
<1>2. ASSUME NEW p \in Publishers, PublishClosed(p) PROVE TypeInv'
    BY <1>2 DEF PublishClosed, Return
<1>3. ASSUME NEW p \in Publishers, Publish(p) PROVE TypeInv'
    BY <1>3 DEF Publish
<1>4. ASSUME NEW p \in Publishers, NEW s \in Subscribers, Send(p, s) PROVE TypeInv'
  <2>1. Append(queue[s], event[p]) \in Seq(Nat) /\ Append(offered[s], event[p]) \in Seq(Nat)
      BY SMTT(90)
  <2>2. queue' \in [Subscribers -> Seq(Nat)] /\ offered' \in [Subscribers -> Seq(Nat)]
    <3>1. CASE Offer(p, s)
        BY <2>1, <3>1 DEF Offer
    <3>2. CASE UNCHANGED <<queue, offered>>
        BY <3>2
    <3> QED
        BY <1>4, <3>1, <3>2 DEF Send
  <2>3. pc' \in [Publishers -> Labels] /\ at' \subseteq Subscribers
      BY <1>4, ZenonT(60) DEF Send
  <2> QED
      BY <1>4, <2>2, <2>3 DEF Send
<1>5. ASSUME NEW p \in Publishers, NEW s \in Subscribers, Evict(p, s) PROVE TypeInv'
  <2>1. Evicted(queue[s]) \in Seq(Nat)
      BY HeadTailProperties DEF Evicted
  <2> QED
      BY <1>5, <2>1 DEF Evict
<1>6. ASSUME NEW p \in Publishers, NEW s \in Subscribers, Resend(p, s) PROVE TypeInv'
  <2>1. Append(queue[s], event[p]) \in Seq(Nat) /\ Append(offered[s], event[p]) \in Seq(Nat)
      BY SMTT(90)
  <2> QED
      BY <1>6, <2>1 DEF Resend, Offer
<1>7. ASSUME NEW p \in Publishers, PublishEnd(p) PROVE TypeInv'
    BY <1>7 DEF PublishEnd, Return
<1>8. ASSUME NEW s \in Subscribers, Subscribe(s) PROVE TypeInv'
  <2>1. Newest(kept, Buffer[s]) \in Seq(Nat)
      BY NewestBound
  <2> QED
      BY <1>8, <2>1 DEF Subscribe
<1>9. ASSUME NEW s \in Subscribers, Cancel(s) PROVE TypeInv'
    BY <1>9 DEF Cancel, BrokerFree
<1>10. ASSUME NEW s \in Subscribers, Read(s) PROVE TypeInv'
  <2>1. Tail(queue[s]) \in Seq(Nat)
      BY <1>10, HeadTailProperties DEF Read
  <2> QED
      BY <1>10, <2>1 DEF Read
<1>11. CASE BeginClose
    BY <1>11 DEF BeginClose
<1>12. CASE CloseBroker
    BY <1>12 DEF CloseBroker, BrokerFree
<1>13. CASE UNCHANGED vars
    BY <1>13 DEF vars
<1> HIDE DEF TypeInv, Labels, Goto, broker, log, history
<1> QED
    BY <1>1, <1>2, <1>3, <1>4, <1>5, <1>6, <1>7, <1>8, <1>9, <1>10, <1>11, <1>12, <1>13
       DEF Next, PublisherStep

\* Channels are opened and closed only while nobody publishes.
LEMMA LockKept == TypeInv /\ LockInv /\ [Next]_vars => LockInv'
<1> SUFFICES ASSUME TypeInv, LockInv, [Next]_vars PROVE LockInv'
    OBVIOUS
<1> USE BrokerAssumption DEF TypeInv, LockInv, Goto, broker, log, history
<1>1. ASSUME NEW p \in Publishers, Keep(p) PROVE LockInv'
    BY <1>1 DEF Keep, Holder, Kept
<1>2. ASSUME NEW p \in Publishers, PublishClosed(p) PROVE LockInv'
    BY <1>2 DEF PublishClosed, Return
<1>3. ASSUME NEW p \in Publishers, Publish(p) PROVE LockInv'
    BY <1>3 DEF Publish
<1>4. ASSUME NEW p \in Publishers, NEW s \in Subscribers, Send(p, s) PROVE LockInv'
    BY <1>4, ZenonT(60) DEF Send, Full, Default, Offer
<1>5. ASSUME NEW p \in Publishers, NEW s \in Subscribers, Evict(p, s) PROVE LockInv'
    BY <1>5 DEF Evict, Evicted
<1>6. ASSUME NEW p \in Publishers, NEW s \in Subscribers, Resend(p, s) PROVE LockInv'
    BY <1>6 DEF Resend, Offer, Full
<1>7. ASSUME NEW p \in Publishers, PublishEnd(p) PROVE LockInv'
    BY <1>7 DEF PublishEnd, Return
<1>8. ASSUME NEW s \in Subscribers, Subscribe(s) PROVE LockInv'
    BY <1>8 DEF Subscribe, BrokerFree
<1>9. ASSUME NEW s \in Subscribers, Cancel(s) PROVE LockInv'
    BY <1>9 DEF Cancel, BrokerFree
<1>10. ASSUME NEW s \in Subscribers, Read(s) PROVE LockInv'
    BY <1>10 DEF Read
<1>11. CASE BeginClose
    BY <1>11 DEF BeginClose
<1>12. CASE CloseBroker
    BY <1>12 DEF CloseBroker, BrokerFree
<1>13. CASE UNCHANGED vars
    BY <1>13 DEF vars
<1> HIDE DEF TypeInv, LockInv, Goto, broker, log, history
<1> QED
    BY <1>1, <1>2, <1>3, <1>4, <1>5, <1>6, <1>7, <1>8, <1>9, <1>10, <1>11, <1>12, <1>13
       DEF Next, PublisherStep

\* Every send and every removal leaves the newest events in the channel.
LEMMA QueueKept == TypeInv /\ LockInv /\ QueueInv /\ [Next]_vars => QueueInv'
<1> SUFFICES ASSUME TypeInv, LockInv, QueueInv, [Next]_vars PROVE QueueInv'
    OBVIOUS
<1> USE BrokerAssumption DEF TypeInv, LockInv, QueueInv, Goto, broker, log, history
<1>1. ASSUME NEW p \in Publishers, Keep(p) PROVE QueueInv'
    BY <1>1 DEF Keep, Holder, Kept
<1>2. ASSUME NEW p \in Publishers, PublishClosed(p) PROVE QueueInv'
    BY <1>2 DEF PublishClosed, Return
<1>3. ASSUME NEW p \in Publishers, Publish(p) PROVE QueueInv'
    BY <1>3 DEF Publish
<1>4. ASSUME NEW p \in Publishers, NEW s \in Subscribers, Send(p, s) PROVE QueueInv'
  <2>1. Suffix(Append(queue[s], event[p]), Append(offered[s], event[p]))
      BY SuffixAppend
  <2>2. Len(Append(queue[s], event[p])) = Len(queue[s]) + 1 /\ Len(queue[s]) \in Nat /\ Buffer[s] \in Nat
      BY SMTT(90)
  <2>3. CASE ~Full(s) /\ Offer(p, s) /\ UNCHANGED <<pc, at>>
    <3>1. /\ queue' = [queue EXCEPT ![s] = Append(@, event[p])]
          /\ offered' = [offered EXCEPT ![s] = Append(@, event[p])]
          /\ Len(queue[s]) < Buffer[s]
        BY <2>2, <2>3, SMTT(90) DEF Full, Offer
    <3>2. \A q \in Publishers : pc[q] # "resend"
        BY <1>4 DEF Send
    <3> QED
        BY <2>1, <2>2, <2>3, <3>1, <3>2, SMTT(90)
  <2>4. CASE at' = {s} /\ Goto(p, "evict") /\ UNCHANGED <<queue, offered>>
      BY <1>4, <2>4 DEF Send
  <2> QED
      BY <1>4, <2>3, <2>4 DEF Send
<1>5. ASSUME NEW p \in Publishers, NEW s \in Subscribers, Evict(p, s) PROVE QueueInv'
  <2>1. /\ Suffix(Evicted(queue[s]), offered[s]) /\ Evicted(queue[s]) \in Seq(Nat)
        /\ Len(Evicted(queue[s])) < Buffer[s]
    <3>1. Len(queue[s]) \in Nat /\ Buffer[s] \in Nat \ {0}
        BY SMTT(90)
    <3>2. CASE queue[s] = <<>>
        BY <3>1, <3>2, SMTT(90) DEF Evicted
    <3>3. CASE queue[s] # <<>>
        BY <3>1, <3>3, SuffixTail, SMTT(90) DEF Evicted
    <3> QED
        BY <3>2, <3>3
  <2>2. at = {s}
      BY <1>5 DEF Evict
  <2> QED
      BY <1>5, <2>1, <2>2, SMTT(90) DEF Evict
<1>6. ASSUME NEW p \in Publishers, NEW s \in Subscribers, Resend(p, s) PROVE QueueInv'
  <2>1. Suffix(Append(queue[s], event[p]), Append(offered[s], event[p]))
      BY SuffixAppend
  <2>2. Len(Append(queue[s], event[p])) = Len(queue[s]) + 1 /\ Len(queue[s]) \in Nat /\ Buffer[s] \in Nat
      BY SMTT(90)
  <2>3. Len(queue[s]) < Buffer[s]
      BY <1>6 DEF Resend
  <2>4. ~Full(s)
      BY <2>2, <2>3, SMTT(90) DEF Full
  <2>5. /\ queue' = [queue EXCEPT ![s] = Append(@, event[p])]
        /\ offered' = [offered EXCEPT ![s] = Append(@, event[p])]
        /\ at' = {}
      BY <1>6, <2>4 DEF Resend, Offer
  <2> QED
      BY <2>1, <2>2, <2>3, <2>5, SMTT(90)
<1>7. ASSUME NEW p \in Publishers, PublishEnd(p) PROVE QueueInv'
    BY <1>7 DEF PublishEnd, Return
<1>8. ASSUME NEW s \in Subscribers, Subscribe(s) PROVE QueueInv'
  <2>1. /\ Newest(kept, Buffer[s]) \in Seq(Nat)
        /\ Len(Newest(kept, Buffer[s])) <= Buffer[s]
      BY NewestBound
  <2>2. Suffix(Newest(kept, Buffer[s]), Newest(kept, Buffer[s]))
      BY <2>1, SuffixItself
  <2>3. at = {}
      BY <1>8 DEF Subscribe, BrokerFree
  <2> QED
      BY <1>8, <2>1, <2>2, <2>3 DEF Subscribe
<1>9. ASSUME NEW s \in Subscribers, Cancel(s) PROVE QueueInv'
    BY <1>9 DEF Cancel, BrokerFree
<1>10. ASSUME NEW s \in Subscribers, Read(s) PROVE QueueInv'
  <2>1. Suffix(Tail(queue[s]), offered[s]) /\ Len(Tail(queue[s])) = Len(queue[s]) - 1
      BY <1>10, SuffixTail DEF Read
  <2>2. Len(queue[s]) \in Nat /\ Buffer[s] \in Nat
      BY SMTT(90)
  <2> QED
      BY <1>10, <2>1, <2>2, SMTT(90) DEF Read
<1>11. CASE BeginClose
    BY <1>11 DEF BeginClose
<1>12. CASE CloseBroker
    BY <1>12 DEF CloseBroker, BrokerFree
<1>13. CASE UNCHANGED vars
    BY <1>13 DEF vars
<1> HIDE DEF TypeInv, LockInv, QueueInv, Goto, broker, log, history
<1> QED
    BY <1>1, <1>2, <1>3, <1>4, <1>5, <1>6, <1>7, <1>8, <1>9, <1>10, <1>11, <1>12, <1>13
       DEF Next, PublisherStep
-----------------------------------------------------------------------------
\* Every step keeps the invariant.
LEMMA StepKeeps == IInv /\ [Next]_vars => IInv'
    BY TypeKept, LockKept, QueueKept DEF IInv

\* The inductive invariant holds.
LEMMA Invariance == Spec => []IInv
    BY InitIInv, StepKeeps, PTL DEF Spec

\* "A slow subscriber keeps the newest buffered events" (driver.go:579): its
\* channel holds the newest events it was offered, in order, for every capacity
\* and whatever its reader takes between the selects of publish (events.go:262).
THEOREM SlowKeepsNewest == Spec => []KeepsNewest
<1>1. IInv => KeepsNewest
    BY SuffixNewest DEF IInv, TypeInv, QueueInv, KeepsNewest
<1> QED
    BY <1>1, Invariance, PTL

\* publish sends on open channels only (events.go:256): a cancelled channel, or
\* one closed with the broker, is never sent to.
THEOREM SendsOnOpen == Spec => []NoSendOnClosed
<1>1. IInv => NoSendOnClosed
    BY DEF IInv, LockInv, NoSendOnClosed
<1> QED
    BY <1>1, Invariance, PTL

-----------------------------------------------------------------------------
(* The stream that a subscription joins.                                    *)

\* A publisher on the way, and one in the loop of publish.
Active(p) == pc[p] # "idle"
Looping(p) == pc[p] \in {"loop", "evict", "resend"}

\* It has still to offer its event to the subscriber.
Due(p, s) == pc[p] = "publish" \/ (Looping(p) /\ s \in todo \cup at)

\* Every event has one publisher, and what is kept is in order.  A service has one
\* publisher at a time, the one that holds publicationMu.
EventInv ==
    /\ user \in {"driver", "service"}
    /\ pmu \in Publishers \cup {Nobody}
    /\ since \in [Subscribers -> Nat] /\ doubt \in [Subscribers -> SUBSET Nat]
    /\ \A i \in 1..Len(kept) : kept[i] <= count
    /\ \A i, j \in 1..Len(kept) : i < j => kept[i] < kept[j]
    /\ \A p \in Publishers : Active(p) => event[p] \in 1..count
    /\ \A p, q \in Publishers : (Active(p) /\ Active(q) /\ event[p] = event[q]) => p = q
    /\ user = "service" => \A p \in Publishers : (Active(p) => pmu = p /\ event[p] = count)

\* An event still due to a subscriber is new to it, or was on the way when it
\* subscribed; one that is no longer due was offered.
DueInv ==
    \A s \in Subscribers :
        /\ \A i \in 1..Len(offered[s]) : offered[s][i] <= count
        /\ chan[s] = "open" => \A p \in Publishers :
              /\ Due(p, s) => \A i \in 1..Len(offered[s]) :
                    /\ user = "service" => offered[s][i] < event[p]
                    /\ offered[s][i] = event[p] => event[p] \in doubt[s]
              /\ Looping(p) /\ ~Due(p, s) => \E i \in 1..Len(offered[s]) : offered[s][i] = event[p]

\* A subscriber is served once by the loop of publish.
Apart == todo \cap at = {}

\* What a subscriber was offered.
Ordered(s) ==
    \A i, j \in 1..Len(offered[s]) :
        i < j => \/ offered[s][i] < offered[s][j]
                 \/ user = "driver" /\ (offered[s][i] = offered[s][j] => offered[s][i] \in doubt[s])
Complete(s) ==
    \A e \in (since[s] + 1)..count :
        \/ \E i \in 1..Len(offered[s]) : offered[s][i] = e
        \/ \E p \in Publishers : event[p] = e /\ Active(p)
StreamInv == \A s \in Subscribers : Ordered(s) /\ (chan[s] = "open" => Complete(s))

\* Newest keeps an end of the sequence.
LEMMA NewestSuffix ==
    ASSUME NEW q \in Seq(Nat), NEW n \in Nat \ {0}
    PROVE  Newest(q, n) \in Seq(Nat) /\ Suffix(Newest(q, n), q)
<1>1. CASE Len(q) <= n
  BY <1>1, SuffixItself DEF Newest
<1>2. CASE ~(Len(q) <= n)
  <2> DEFINE w == SubSeq(q, Len(q) - n + 1, Len(q))
  <2>1. Len(q) \in Nat /\ n \in Nat /\ n < Len(q)
    BY <1>2, SMTT(90)
  <2>2. \A i \in Len(q) - n + 1 .. Len(q) : q[i] \in Nat
    BY <2>1, SMTT(90)
  <2>3. /\ w \in Seq(Nat)
        /\ Len(w) = IF Len(q) - n + 1 <= Len(q) THEN Len(q) - (Len(q) - n + 1) + 1 ELSE 0
        /\ \A i \in 1 .. Len(q) - (Len(q) - n + 1) + 1 : w[i] = q[(Len(q) - n + 1) + i - 1]
    BY <2>1, <2>2, SubSeqProperties, SMTT(90)
  <2> HIDE DEF w
  <2>4. Len(w) = n /\ \A i \in 1..n : w[i] = q[Len(q) - n + i]
    BY <2>1, <2>3, SMTT(90)
  <2>5. Suffix(w, q)
    BY <2>1, <2>4, SMTT(90) DEF Suffix
  <2> QED
    BY <1>2, <2>3, <2>5 DEF Newest, w
<1> QED
  BY <1>1, <1>2

\* An increasing sequence stays one when an end of it is kept.
LEMMA SuffixOrdered ==
    ASSUME NEW q \in Seq(Nat), NEW w \in Seq(Nat), Suffix(w, q), NEW c \in Nat,
           \A i \in 1..Len(q) : q[i] <= c,
           \A i, j \in 1..Len(q) : i < j => q[i] < q[j]
    PROVE  /\ \A i \in 1..Len(w) : w[i] <= c
           /\ \A i, j \in 1..Len(w) : i < j => w[i] < w[j]
<1>1. Len(q) \in Nat /\ Len(w) \in Nat /\ Len(w) <= Len(q)
  BY SMTT(90) DEF Suffix
<1>2. \A i \in 1..Len(w) : Len(q) - Len(w) + i \in 1..Len(q) /\ w[i] = q[Len(q) - Len(w) + i]
  BY <1>1, SMTT(90) DEF Suffix
<1>3. \A i \in 1..Len(w) : w[i] <= c
  BY <1>2
<1>4. ASSUME NEW i \in 1..Len(w), NEW j \in 1..Len(w), i < j PROVE w[i] < w[j]
  <2>1. Len(q) - Len(w) + i < Len(q) - Len(w) + j
    BY <1>1, <1>4, SMTT(90)
  <2> QED
    BY <1>2, <2>1
<1> QED
  BY <1>3, <1>4

\* One more element.
LEMMA Appended ==
    ASSUME NEW q \in Seq(Nat), NEW e \in Nat
    PROVE  /\ Append(q, e) \in Seq(Nat)
           /\ Len(Append(q, e)) = Len(q) + 1
           /\ Len(q) \in Nat
           /\ \A i \in 1..Len(q) : Append(q, e)[i] = q[i]
           /\ Append(q, e)[Len(q) + 1] = e
  BY AppendProperties, SMTT(90)

\* publishDriverEvent appends a new event and drops the oldest ones beyond the limit;
\* handlePublication keeps the last one.  Both keep the order (events.go).
LEMMA KeptOrdered ==
    ASSUME TypeInv, EventInv, NEW e \in Nat, e = count + 1
    PROVE  /\ Kept(e) \in Seq(Nat)
           /\ \A i \in 1..Len(Kept(e)) : Kept(e)[i] <= e
           /\ \A i, j \in 1..Len(Kept(e)) : i < j => Kept(e)[i] < Kept(e)[j]
<1>1. CASE user = "driver"
  <2> DEFINE q == Append(kept, e)
  <2>1. /\ q \in Seq(Nat) /\ Len(q) = Len(kept) + 1 /\ Len(kept) \in Nat
        /\ \A i \in 1..Len(kept) : q[i] = kept[i] /\ kept[i] \in Nat
        /\ q[Len(kept) + 1] = e
    BY Appended, SMTT(90) DEF TypeInv
  <2> HIDE DEF q
  <2>2. count \in Nat /\ \A i \in 1..Len(kept) : q[i] \in Nat /\ q[i] < e
    <3>1. count \in Nat /\ \A i \in 1..Len(kept) : kept[i] <= count
      BY DEF TypeInv, EventInv
    <3> QED
      BY <2>1, <3>1, SMTT(90)
  <2>5. \A i \in 1..Len(q) : q[i] <= e
    BY <2>1, <2>2, SMTT(90)
  <2>6. ASSUME NEW i \in 1..Len(q), NEW j \in 1..Len(q), i < j PROVE q[i] < q[j]
    <3>1. i \in 1..Len(kept)
      BY <2>1, <2>6, SMTT(90)
    <3>2. CASE j = Len(kept) + 1
      BY <2>1, <2>2, <3>1, <3>2
    <3>3. CASE j # Len(kept) + 1
      <4>1. j \in 1..Len(kept)
        BY <2>1, <3>3, SMTT(90)
      <4> QED
        BY <2>1, <2>6, <3>1, <4>1 DEF EventInv
    <3> QED
      BY <3>2, <3>3
  <2>3. Newest(q, RecentLimit) \in Seq(Nat) /\ Suffix(Newest(q, RecentLimit), q)
    BY <2>1, NewestSuffix, BrokerAssumption
  <2>4. Kept(e) = Newest(q, RecentLimit)
    BY <1>1 DEF Kept, q
  <2> QED
    BY <2>1, <2>3, <2>4, <2>5, <2>6, SuffixOrdered
<1>2. CASE user # "driver"
  BY <1>2, SMTT(90) DEF Kept
<1> QED
  BY <1>1, <1>2

\* Every event keeps its one publisher, and what is kept stays in order.
LEMMA EventsKept ==
    ASSUME TypeInv, LockInv, EventInv, [Next]_vars
    PROVE  EventInv'
<1>1. ASSUME NEW p \in Publishers, Keep(p) PROVE EventInv'
  <2>1. /\ kept' = Kept(count + 1) /\ count' = count + 1 /\ event' = [event EXCEPT ![p] = count + 1]
        /\ pc' = [pc EXCEPT ![p] = "publish"] /\ pmu = Nobody /\ pmu' = Holder(p)
        /\ UNCHANGED <<user, since, doubt>>
    BY <1>1 DEF Keep, Goto, history
  <2>2. count \in Nat
    BY DEF TypeInv
  <2>3. /\ \A i \in 1..Len(kept') : kept'[i] <= count'
        /\ \A i, j \in 1..Len(kept') : i < j => kept'[i] < kept'[j]
    BY <2>1, <2>2, KeptOrdered, SMTT(90)
  <2>4. \A q \in Publishers : event'[q] = (IF q = p THEN count + 1 ELSE event[q])
                              /\ pc'[q] = (IF q = p THEN "publish" ELSE pc[q])
    BY <2>1 DEF TypeInv
  <2>5. user = "service" => \A q \in Publishers : ~Active(q)
    BY <2>1, BrokerAssumption DEF EventInv
  <2>6. \A q \in Publishers : Active(q)' => event'[q] \in 1..count'
    BY <2>1, <2>2, <2>4, SMTT(90) DEF EventInv, Active
  <2>7. \A q, r \in Publishers : (Active(q)' /\ Active(r)' /\ event'[q] = event'[r]) => q = r
    BY <2>2, <2>4, SMTT(90) DEF EventInv, Active
  <2>8. user' = "service" => \A q \in Publishers : Active(q)' => pmu' = q /\ event'[q] = count'
    BY <2>1, <2>4, <2>5 DEF Holder, Active
  <2>9. pmu' \in Publishers \cup {Nobody}
    BY <2>1 DEF Holder
  <2> QED
    BY <2>1, <2>3, <2>6, <2>7, <2>8, <2>9 DEF EventInv
<1>2. ASSUME NEW p \in Publishers, PublishClosed(p) \/ PublishEnd(p) PROVE EventInv'
  <2>1. /\ pc' = [pc EXCEPT ![p] = "idle"] /\ event' = [event EXCEPT ![p] = 0] /\ pmu' = Nobody
        /\ UNCHANGED <<user, kept, count, since, doubt>> /\ Active(p)
    BY <1>2 DEF PublishClosed, PublishEnd, Return, Goto, log, history, Active
  <2>2. \A q \in Publishers : Active(q)' => q # p /\ Active(q) /\ event'[q] = event[q]
    BY <2>1 DEF TypeInv, Active
  <2>3. user = "service" => \A q \in Publishers : ~Active(q)'
    BY <2>1, <2>2 DEF EventInv
  <2> QED
    BY <2>1, <2>2, <2>3 DEF EventInv
<1>3. ASSUME NEW p \in Publishers,
             Publish(p) \/ \E s \in Subscribers : Send(p, s) \/ Evict(p, s) \/ Resend(p, s)
      PROVE  EventInv'
  <2>1. UNCHANGED <<user, kept, count, since, doubt, event, pmu>> /\ pc[p] # "idle"
    BY <1>3 DEF Publish, Send, Evict, Resend, log, history
  <2>2. \A q \in Publishers : Active(q)' => Active(q)
    BY <1>3 DEF Publish, Send, Evict, Resend, Goto, TypeInv, Active
  <2> QED
    BY <2>1, <2>2 DEF EventInv
<1>4. ASSUME NEW s \in Subscribers, Subscribe(s) PROVE EventInv'
  <2>1. /\ since' = [since EXCEPT ![s] = count] /\ doubt' = [doubt EXCEPT ![s] = InFlight]
        /\ UNCHANGED <<user, kept, count, event, pmu, pc>>
    BY <1>4 DEF Subscribe, log
  <2>2. InFlight \in SUBSET Nat /\ count \in Nat
    BY DEF InFlight, TypeInv
  <2>3. since' \in [Subscribers -> Nat] /\ doubt' \in [Subscribers -> SUBSET Nat]
    BY <2>1, <2>2 DEF EventInv
  <2> QED
    BY <2>1, <2>3 DEF EventInv, Active
<1>5. CASE UNCHANGED <<user, kept, count, since, doubt, event, pmu, pc>>
  BY <1>5 DEF EventInv, Active
<1> QED
  BY <1>1, <1>2, <1>3, <1>4, <1>5
  DEF Next, PublisherStep, Cancel, Read, BeginClose, CloseBroker, broker, log, history, vars

\* What an offer adds.
LEMMA OfferEffect ==
    ASSUME TypeInv, NEW p \in Publishers, NEW s \in Subscribers, Offer(p, s)
    PROVE  /\ \A u \in Subscribers : u # s => offered'[u] = offered[u]
           /\ Len(offered[s]) \in Nat /\ Len(offered'[s]) = Len(offered[s]) + 1
           /\ \A i \in 1..Len(offered[s]) : offered'[s][i] = offered[s][i]
           /\ offered'[s][Len(offered[s]) + 1] = event[p]
<1>1. offered' = [offered EXCEPT ![s] = Append(offered[s], event[p])]
  BY DEF Offer
<1>2. offered[s] \in Seq(Nat) /\ event[p] \in Nat
  BY DEF TypeInv
<1>3. offered'[s] = Append(offered[s], event[p]) /\ \A u \in Subscribers : u # s => offered'[u] = offered[u]
  BY <1>1 DEF TypeInv
<1> QED
  BY <1>2, <1>3, Appended, SMTT(90)

\* The loop of publish takes each open channel out of its set once.
LEMMA ApartKept ==
    ASSUME LockInv, Apart, [Next]_vars
    PROVE  Apart'
<1>1. ASSUME NEW p \in Publishers, Publish(p) PROVE Apart'
  BY <1>1 DEF Publish, LockInv, Apart
<1>2. ASSUME NEW p \in Publishers, NEW s \in Subscribers, Send(p, s) PROVE Apart'
  <2>1. at = {} /\ todo' = todo \ {s} /\ (at' = at \/ at' = {s})
    BY <1>2 DEF Send, LockInv
  <2> QED
    BY <2>1 DEF Apart
<1>3. CASE UNCHANGED todo /\ (at' = at \/ at' = {})
  BY <1>3 DEF Apart
<1> QED
  BY <1>1, <1>2, <1>3
  DEF Next, PublisherStep, Keep, PublishClosed, Evict, Resend, PublishEnd, Subscribe, Cancel, Read,
     BeginClose,
      CloseBroker, vars

\* An offer of one publisher makes no event of another one stale, and a subscription
\* notes what was on the way.
LEMMA DuesKept ==
    ASSUME TypeInv, LockInv, EventInv, Apart, DueInv, [Next]_vars
    PROVE  DueInv'
<1>1. ASSUME UNCHANGED <<user, count, offered, doubt>>,
             \A s \in Subscribers : chan'[s] = "open" => chan[s] = "open",
             \A p \in Publishers : Looping(p)' => Looping(p),
             \A p \in Publishers :
                (Looping(p) \/ pc[p] = "publish") /\ (Looping(p)' \/ pc'[p] = "publish") => event'[p] = event[p],
             \A p \in Publishers, s \in Subscribers : Due(p, s)' => Due(p, s),
             \A p \in Publishers, s \in Subscribers : Looping(p)' /\ Due(p, s) => Due(p, s)'
      PROVE  DueInv'
  BY <1>1, SMTT(90) DEF DueInv, Due
<1>2. ASSUME NEW p \in Publishers, Keep(p) PROVE DueInv'
  <2>1. /\ count' = count + 1 /\ count \in Nat /\ pc[p] = "idle"
        /\ \A q \in Publishers : event'[q] = (IF q = p THEN count + 1 ELSE event[q])
                                 /\ pc'[q] = (IF q = p THEN "publish" ELSE pc[q])
        /\ UNCHANGED <<user, todo, at, chan, offered, doubt>>
    BY <1>2 DEF Keep, Goto, history, TypeInv
  <2>2. \A s \in Subscribers : \A i \in 1..Len(offered[s]) : offered[s][i] \in Nat
    BY SMTT(90) DEF TypeInv
  <2>3. \A s \in Subscribers : \A i \in 1..Len(offered'[s]) : offered'[s][i] <= count' /\ offered'[s][i] < count + 1
    BY <2>1, <2>2, SMTT(90) DEF DueInv
  <2>4. \A q \in Publishers :
           q # p => (Looping(q)' <=> Looping(q)) /\ \A s \in Subscribers : Due(q, s)' <=> Due(q, s)
    BY <2>1 DEF Looping, Due
  <2>5. ~Looping(p)' /\ event'[p] = count + 1
    BY <2>1 DEF Looping
  <2>6. ASSUME NEW s \in Subscribers, chan'[s] = "open", NEW q \in Publishers
        PROVE  /\ Due(q, s)' => \A i \in 1..Len(offered'[s]) :
                    /\ user' = "service" => offered'[s][i] < event'[q]
                    /\ offered'[s][i] = event'[q] => event'[q] \in doubt'[s]
               /\ Looping(q)' /\ ~Due(q, s)' => \E i \in 1..Len(offered'[s]) : offered'[s][i] = event'[q]
    <3>1. CASE q = p
      BY <2>1, <2>2, <2>3, <2>5, <3>1, SMTT(90)
    <3>2. CASE q # p
      BY <2>1, <2>4, <2>6, <3>2, SMTT(90) DEF DueInv
    <3> QED
      BY <3>1, <3>2
  <2> QED
    BY <2>3, <2>6 DEF DueInv
<1>3. ASSUME NEW p \in Publishers, PublishClosed(p) \/ PublishEnd(p) PROVE DueInv'
  <2>1. /\ UNCHANGED <<user, count, offered, doubt, chan, todo, at>>
        /\ \A q \in Publishers : event'[q] = (IF q = p THEN 0 ELSE event[q])
                                 /\ pc'[q] = (IF q = p THEN "idle" ELSE pc[q])
    BY <1>3 DEF PublishClosed, PublishEnd, Return, Goto, log, history, TypeInv
  <2> QED
    BY <1>1, <2>1 DEF Looping, Due
<1>4. ASSUME NEW p \in Publishers, Publish(p) PROVE DueInv'
  <2>1. /\ UNCHANGED <<user, count, offered, doubt, chan, at, event>> /\ pc[p] = "publish"
        /\ todo' = {s \in Subscribers : chan[s] = "open"}
        /\ \A q \in Publishers : pc'[q] = (IF q = p THEN "loop" ELSE pc[q])
        /\ \A q \in Publishers : ~Looping(q)
    BY <1>4, BrokerAssumption DEF Publish, Goto, log, history, TypeInv, LockInv, Looping
  <2>2. \A q \in Publishers : q # p => ~Looping(q)'
    BY <2>1 DEF Looping
  <2>3. \A q \in Publishers, s \in Subscribers : Due(q, s)' => Due(q, s)
    BY <2>1, <2>2 DEF Due
  <2>4. \A s \in Subscribers : chan[s] = "open" => Due(p, s)'
    BY <2>1 DEF Due, Looping
  <2> QED
    BY <2>1, <2>2, <2>3, <2>4 DEF DueInv
<1>5. ASSUME NEW p \in Publishers, NEW s \in Subscribers, Offer(p, s), Looping(p), s \in todo \cup at,
             s \notin todo' \cup at', todo' \cup at' = (todo \cup at) \ {s},
             UNCHANGED <<user, count, doubt, chan, event>>,
             \A q \in Publishers : (Looping(q)' <=> Looping(q)) /\ (pc'[q] = "publish" <=> pc[q] = "publish")
      PROVE  DueInv'
  <2>1. /\ \A u \in Subscribers : u # s => offered'[u] = offered[u]
        /\ Len(offered[s]) \in Nat /\ Len(offered'[s]) = Len(offered[s]) + 1
        /\ \A i \in 1..Len(offered[s]) : offered'[s][i] = offered[s][i]
        /\ offered'[s][Len(offered[s]) + 1] = event[p]
    BY <1>5, OfferEffect
  <2>2. event[p] <= count /\ \A q \in Publishers : Active(q) /\ event[q] = event[p] => q = p
    BY <1>5, SMTT(90) DEF EventInv, Active, Looping
  <2>3. \A i \in 1..Len(offered'[s]) : offered'[s][i] <= count
    BY <2>1, <2>2, SMTT(90) DEF DueInv
  <2>4. \A q \in Publishers, u \in Subscribers : u # s => (Due(q, u)' <=> Due(q, u))
    BY <1>5 DEF Due
  <2>5. \A q \in Publishers : Due(q, s)' => pc[q] = "publish" /\ q # p /\ Due(q, s)
    BY <1>5 DEF Due, Looping
  <2>6. \A q \in Publishers : Looping(q) => q = p
    BY <1>5 DEF LockInv, Looping
  <2>7. ASSUME NEW q \in Publishers, Due(q, s)', chan[s] = "open", NEW i \in 1..Len(offered'[s])
        PROVE  /\ user' = "service" => offered'[s][i] < event'[q]
               /\ offered'[s][i] = event'[q] => event'[q] \in doubt'[s]
    <3>1. Active(q) /\ Active(p) /\ q # p /\ Due(q, s)
      BY <1>5, <2>5, <2>7 DEF Active, Looping
    <3>2. user # "service" /\ event[q] # event[p]
      BY <2>2, <3>1 DEF EventInv
    <3>3. CASE i \in 1..Len(offered[s])
      BY <1>5, <2>1, <2>7, <3>1, <3>2, <3>3, SMTT(90) DEF DueInv
    <3>4. CASE i = Len(offered[s]) + 1
      BY <1>5, <2>1, <3>2, <3>4
    <3> QED
      BY <2>1, <3>3, <3>4, SMTT(90)
  <2>8. ASSUME NEW q \in Publishers, Looping(q)'
        PROVE  \E i \in 1..Len(offered'[s]) : offered'[s][i] = event'[q]
    <3>1. q = p /\ Len(offered[s]) + 1 \in 1..Len(offered'[s])
      BY <1>5, <2>1, <2>6, <2>8, SMTT(90)
    <3> QED
      BY <1>5, <2>1, <3>1
  <2>9. ASSUME NEW u \in Subscribers, u # s
        PROVE  /\ \A i \in 1..Len(offered'[u]) : offered'[u][i] <= count'
               /\ chan'[u] = "open" => \A q \in Publishers :
                    /\ Due(q, u)' => \A i \in 1..Len(offered'[u]) :
                          /\ user' = "service" => offered'[u][i] < event'[q]
                          /\ offered'[u][i] = event'[q] => event'[q] \in doubt'[u]
                    /\ Looping(q)' /\ ~Due(q, u)' => \E i \in 1..Len(offered'[u]) : offered'[u][i] = event'[q]
    BY <1>5, <2>1, <2>4, <2>9, SMTT(90) DEF DueInv
  <2> QED
    BY <1>5, <2>3, <2>7, <2>8, <2>9, SMTT(90) DEF DueInv
<1>6. ASSUME NEW p \in Publishers, NEW s \in Subscribers, Send(p, s) PROVE DueInv'
  <2>1. /\ UNCHANGED <<user, count, doubt, chan, event>> /\ pc[p] = "loop" /\ s \in todo /\ todo' = todo \ {s}
        /\ at = {}
    BY <1>6 DEF Send, log, history, LockInv
  <2>2. CASE Offer(p, s) /\ UNCHANGED <<pc, at>>
    BY <1>5, <2>1, <2>2 DEF Looping
  <2>3. CASE at' = {s} /\ Goto(p, "evict") /\ UNCHANGED <<queue, offered>>
    <3>1. todo' \cup at' = todo \cup at
      BY <2>1, <2>3
    <3>2. \A q \in Publishers : pc'[q] = IF q = p THEN "evict" ELSE pc[q]
      BY <2>3 DEF Goto, TypeInv
    <3>3. \A q \in Publishers : (Looping(q)' <=> Looping(q)) /\ (pc'[q] = "publish" <=> pc[q] = "publish")
      BY <2>1, <3>2 DEF Looping
    <3> QED
      BY <1>1, <2>1, <2>3, <3>1, <3>3 DEF Due
  <2> QED
    BY <1>6, <2>2, <2>3 DEF Send
<1>7. ASSUME NEW p \in Publishers, NEW s \in Subscribers, Evict(p, s) PROVE DueInv'
  <2>1. /\ UNCHANGED <<user, count, doubt, chan, event, offered, todo, at>> /\ pc[p] = "evict"
        /\ \A q \in Publishers : pc'[q] = IF q = p THEN "resend" ELSE pc[q]
    BY <1>7 DEF Evict, Goto, log, history, TypeInv
  <2>2. \A q \in Publishers : (Looping(q)' <=> Looping(q)) /\ (pc'[q] = "publish" <=> pc[q] = "publish")
    BY <2>1 DEF Looping
  <2> QED
    BY <1>1, <2>1, <2>2 DEF Due
<1>8. ASSUME NEW p \in Publishers, NEW s \in Subscribers, Resend(p, s) PROVE DueInv'
  <2>1. /\ UNCHANGED <<user, count, doubt, chan, event, todo>> /\ pc[p] = "resend" /\ s \in at /\ at' = {}
        /\ Offer(p, s)
        /\ \A q \in Publishers : pc'[q] = IF q = p THEN "loop" ELSE pc[q]
    BY <1>8 DEF Resend, Goto, log, history, TypeInv
  <2>2. \A q \in Publishers : (Looping(q)' <=> Looping(q)) /\ (pc'[q] = "publish" <=> pc[q] = "publish")
    BY <2>1 DEF Looping
  <2>3. at = {s}
    BY <2>1 DEF LockInv
  <2>4. CASE s \notin todo
    BY <1>5, <2>1, <2>2, <2>3, <2>4 DEF Looping
  <2>5. s \notin todo
    BY <2>1 DEF Apart
  <2> QED
    BY <2>4, <2>5
<1>9. ASSUME NEW s \in Subscribers, Subscribe(s) PROVE DueInv'
  <2>1. /\ offered' = [offered EXCEPT ![s] = Newest(kept, Buffer[s])]
        /\ chan' = [chan EXCEPT ![s] = "open"]
        /\ doubt' = [doubt EXCEPT ![s] = InFlight]
        /\ pmu = Nobody /\ bmu = Nobody
        /\ UNCHANGED <<user, count, event, pc, todo, at>>
    BY <1>9 DEF Subscribe, BrokerFree, log
  <2>2. \A q \in Publishers : ~Looping(q)
    BY <2>1, BrokerAssumption DEF LockInv, Looping
  <2>3. user = "service" => \A q \in Publishers : pc[q] # "publish"
    BY <2>1, BrokerAssumption DEF EventInv, Active
  <2>4. \A q \in Publishers : pc[q] = "publish" => event[q] \in doubt'[s]
    BY <2>1 DEF InFlight, EventInv
  <2>5. Newest(kept, Buffer[s]) \in Seq(Nat) /\ Suffix(Newest(kept, Buffer[s]), kept)
    BY NewestSuffix, BrokerAssumption DEF TypeInv
  <2>6. \A i \in 1..Len(Newest(kept, Buffer[s])) : Newest(kept, Buffer[s])[i] <= count
    BY <2>5, SuffixOrdered DEF TypeInv, EventInv
  <2>7. /\ offered'[s] = Newest(kept, Buffer[s])
        /\ \A u \in Subscribers :
              u # s => offered'[u] = offered[u] /\ chan'[u] = chan[u] /\ doubt'[u] = doubt[u]
    BY <2>1 DEF TypeInv, EventInv
  <2>8. \A q \in Publishers, u \in Subscribers :
           (Due(q, u)' <=> pc[q] = "publish") /\ (Due(q, u) <=> pc[q] = "publish") /\ ~Looping(q)'
    BY <2>1, <2>2 DEF Due, Looping
  <2> QED
    BY <2>1, <2>3, <2>4, <2>6, <2>7, <2>8, SMTT(90) DEF DueInv
<1>10. CASE /\ UNCHANGED <<user, count, offered, doubt, event, pc, todo, at>>
            /\ \A s \in Subscribers : chan'[s] = "open" => chan[s] = "open"
  BY <1>1, <1>10 DEF Looping, Due
<1>11. ASSUME NEW s \in Subscribers, Cancel(s) PROVE DueInv'
  BY <1>10, <1>11 DEF Cancel, log, history, TypeInv
<1>12. ASSUME NEW s \in Subscribers, Read(s) PROVE DueInv'
  BY <1>10, <1>12 DEF Read, log, history
<1>13. CASE BeginClose
  BY <1>10, <1>13 DEF BeginClose, log, history
<1>14. CASE CloseBroker
  BY <1>10, <1>14 DEF CloseBroker, log, history
<1>15. CASE UNCHANGED vars
  BY <1>10, <1>15 DEF vars
<1> QED
  BY <1>2, <1>3, <1>4, <1>6, <1>7, <1>8, <1>9, <1>11, <1>12, <1>13, <1>14, <1>15 DEF Next, PublisherStep

\* What a subscriber was offered stays complete and in order.
LEMMA StreamKept ==
    ASSUME TypeInv, LockInv, EventInv, DueInv, StreamInv, [Next]_vars
    PROVE  StreamInv'
<1>1. ASSUME UNCHANGED <<user, offered, doubt>> PROVE \A s \in Subscribers : Ordered(s)'
  BY <1>1 DEF StreamInv, Ordered
<1>2. ASSUME UNCHANGED <<count, offered, since>>,
             \A s \in Subscribers : chan'[s] = "open" => chan[s] = "open",
             \A p \in Publishers : Active(p) => Active(p)' /\ event'[p] = event[p]
      PROVE  \A s \in Subscribers : chan'[s] = "open" => Complete(s)'
  BY <1>2, SMTT(90) DEF StreamInv, Complete
<1>3. ASSUME NEW p \in Publishers, Keep(p) PROVE StreamInv'
  <2>1. /\ count' = count + 1 /\ count \in Nat /\ pc[p] = "idle"
        /\ \A q \in Publishers : event'[q] = (IF q = p THEN count + 1 ELSE event[q])
                                 /\ pc'[q] = (IF q = p THEN "publish" ELSE pc[q])
        /\ UNCHANGED <<user, chan, offered, doubt, since>>
    BY <1>3 DEF Keep, Goto, history, TypeInv
  <2>2. \A q \in Publishers : Active(q) => Active(q)' /\ event'[q] = event[q]
    BY <2>1 DEF Active
  <2>3. ASSUME NEW s \in Subscribers, chan'[s] = "open", NEW e \in (since'[s] + 1)..count'
        PROVE  \/ \E i \in 1..Len(offered'[s]) : offered'[s][i] = e
               \/ \E q \in Publishers : event'[q] = e /\ Active(q)'
    <3>1. CASE e = count + 1
      BY <2>1, <3>1 DEF Active
    <3>2. CASE e # count + 1
      <4>1. e \in (since[s] + 1)..count
        BY <2>1, <3>2, SMTT(90) DEF EventInv
      <4> QED
        BY <2>1, <2>2, <2>3, <4>1 DEF StreamInv, Complete
    <3> QED
      BY <3>1, <3>2
  <2> QED
    BY <1>1, <2>1, <2>3 DEF StreamInv, Complete
<1>4. ASSUME NEW p \in Publishers, PublishClosed(p) PROVE StreamInv'
  <2>1. UNCHANGED <<user, offered, doubt, chan>> /\ closed
    BY <1>4 DEF PublishClosed, history
  <2>2. \A s \in Subscribers : chan'[s] # "open"
    BY <2>1 DEF LockInv
  <2> QED
    BY <1>1, <2>1, <2>2 DEF StreamInv
<1>5. ASSUME NEW p \in Publishers, PublishEnd(p) PROVE StreamInv'
  <2>1. /\ UNCHANGED <<user, offered, doubt, chan, since, count>>
        /\ pc[p] = "loop" /\ todo = {} /\ at = {}
        /\ \A q \in Publishers : q # p => event'[q] = event[q] /\ pc'[q] = pc[q]
    BY <1>5 DEF PublishEnd, Return, Goto, log, history, TypeInv, LockInv
  <2>2. \A s \in Subscribers : chan[s] = "open" => \E i \in 1..Len(offered[s]) : offered[s][i] = event[p]
    BY <2>1 DEF DueInv, Due, Looping
  <2>3. ASSUME NEW s \in Subscribers, chan[s] = "open" PROVE Complete(s)'
    BY <2>1, <2>2, <2>3, SMTT(90) DEF StreamInv, Complete, Active
  <2> QED
    BY <1>1, <2>1, <2>3 DEF StreamInv
<1>6. ASSUME NEW p \in Publishers, NEW s \in Subscribers, Offer(p, s), Due(p, s), Active(p), chan[s] = "open",
             UNCHANGED <<user, count, doubt, since, chan, event>>,
             \A q \in Publishers : Active(q) => Active(q)'
      PROVE  StreamInv'
  <2>1. /\ \A u \in Subscribers : u # s => offered'[u] = offered[u]
        /\ Len(offered[s]) \in Nat /\ Len(offered'[s]) = Len(offered[s]) + 1
        /\ \A i \in 1..Len(offered[s]) : offered'[s][i] = offered[s][i]
        /\ offered'[s][Len(offered[s]) + 1] = event[p]
    BY <1>6, OfferEffect
  <2>2. ASSUME NEW i \in 1..Len(offered'[s]), NEW j \in 1..Len(offered'[s]), i < j
        PROVE  \/ offered'[s][i] < offered'[s][j]
               \/ user' = "driver" /\ (offered'[s][i] = offered'[s][j] => offered'[s][i] \in doubt'[s])
    <3>1. i \in 1..Len(offered[s])
      BY <2>1, <2>2, SMTT(90)
    <3>2. CASE j = Len(offered[s]) + 1
      <4>1. /\ user = "service" => offered[s][i] < event[p]
            /\ offered[s][i] = event[p] => event[p] \in doubt[s]
        BY <1>6, <3>1 DEF DueInv
      <4>2. offered'[s][i] = offered[s][i] /\ offered'[s][j] = event[p]
        BY <2>1, <3>1, <3>2
      <4>3. user \in {"driver", "service"}
        BY DEF EventInv
      <4> QED
        BY <1>6, <4>1, <4>2, <4>3
    <3>3. CASE j # Len(offered[s]) + 1
      <4>1. j \in 1..Len(offered[s])
        BY <2>1, <3>3, SMTT(90)
      <4> QED
        BY <1>6, <2>1, <2>2, <3>1, <4>1 DEF StreamInv, Ordered
    <3> QED
      BY <3>2, <3>3
  <2>3. Ordered(s)'
    BY <2>2 DEF Ordered
  <2>4. ASSUME NEW u \in Subscribers, u # s PROVE Ordered(u)'
    BY <1>6, <2>1, <2>4 DEF StreamInv, Ordered
  <2>5. \A i \in 1..Len(offered[s]) : i \in 1..Len(offered'[s])
    BY <2>1, SMTT(90)
  <2>6. ASSUME NEW u \in Subscribers, chan'[u] = "open" PROVE Complete(u)'
    <3>1. ASSUME NEW e, \E i \in 1..Len(offered[u]) : offered[u][i] = e
          PROVE  \E i \in 1..Len(offered'[u]) : offered'[u][i] = e
      BY <2>1, <2>5, <3>1
    <3>2. Complete(u)
      BY <1>6, <2>6 DEF StreamInv
    <3> QED
      BY <1>6, <3>1, <3>2 DEF Complete
  <2> QED
    BY <2>3, <2>4, <2>6 DEF StreamInv
<1>7. ASSUME NEW p \in Publishers, NEW s \in Subscribers, Send(p, s) PROVE StreamInv'
  <2>1. /\ UNCHANGED <<user, count, doubt, since, chan, event>> /\ pc[p] = "loop" /\ s \in todo
        /\ chan[s] = "open"
    BY <1>7 DEF Send, log, history, LockInv
  <2>2. CASE Offer(p, s) /\ UNCHANGED <<pc, at>>
    BY <1>6, <2>1, <2>2 DEF Due, Looping, Active
  <2>3. CASE Goto(p, "evict") /\ UNCHANGED <<queue, offered>>
    <3>1. \A q \in Publishers : Active(q) => Active(q)'
      BY <2>3 DEF Goto, TypeInv, Active
    <3> QED
      BY <1>1, <1>2, <2>1, <2>3, <3>1 DEF StreamInv
  <2> QED
    BY <1>7, <2>2, <2>3 DEF Send
<1>8. ASSUME NEW p \in Publishers, NEW s \in Subscribers, Evict(p, s) PROVE StreamInv'
  <2>1. UNCHANGED <<user, count, doubt, since, chan, event, offered>>
    BY <1>8 DEF Evict, log, history
  <2>2. \A q \in Publishers : Active(q) => Active(q)'
    BY <1>8 DEF Evict, Goto, TypeInv, Active
  <2> QED
    BY <1>1, <1>2, <2>1, <2>2 DEF StreamInv
<1>9. ASSUME NEW p \in Publishers, NEW s \in Subscribers, Resend(p, s) PROVE StreamInv'
  <2>1. /\ UNCHANGED <<user, count, doubt, since, chan, event>> /\ pc[p] = "resend" /\ s \in at /\ Offer(p, s)
        /\ chan[s] = "open"
    BY <1>9 DEF Resend, log, history, LockInv
  <2>2. \A q \in Publishers : Active(q) => Active(q)'
    BY <1>9 DEF Resend, Goto, TypeInv, Active
  <2> QED
    BY <1>6, <2>1, <2>2 DEF Due, Looping, Active
<1>10. ASSUME NEW p \in Publishers, Publish(p) PROVE StreamInv'
  <2>1. UNCHANGED <<user, count, doubt, since, chan, event, offered>>
    BY <1>10 DEF Publish, log, history
  <2>2. \A q \in Publishers : Active(q) => Active(q)'
    BY <1>10 DEF Publish, Goto, TypeInv, Active
  <2> QED
    BY <1>1, <1>2, <2>1, <2>2 DEF StreamInv
<1>11. ASSUME NEW s \in Subscribers, Subscribe(s) PROVE StreamInv'
  <2>1. /\ offered' = [offered EXCEPT ![s] = Newest(kept, Buffer[s])]
        /\ chan' = [chan EXCEPT ![s] = "open"]
        /\ since' = [since EXCEPT ![s] = count] /\ doubt' = [doubt EXCEPT ![s] = InFlight]
        /\ UNCHANGED <<user, count, event, pc>>
    BY <1>11 DEF Subscribe, log
  <2>2. /\ offered'[s] = Newest(kept, Buffer[s]) /\ since'[s] = count
        /\ \A u \in Subscribers : u # s => /\ offered'[u] = offered[u] /\ chan'[u] = chan[u]
                                           /\ doubt'[u] = doubt[u] /\ since'[u] = since[u]
    BY <2>1 DEF TypeInv, EventInv
  <2>3. Newest(kept, Buffer[s]) \in Seq(Nat) /\ Suffix(Newest(kept, Buffer[s]), kept)
    BY NewestSuffix, BrokerAssumption DEF TypeInv
  <2>4. \A i, j \in 1..Len(offered'[s]) : i < j => offered'[s][i] < offered'[s][j]
    BY <2>2, <2>3, SuffixOrdered, ZenonT(60) DEF TypeInv, EventInv
  <2>5. Ordered(s)' /\ Complete(s)'
    <3>1. Ordered(s)'
      BY <2>4, ZenonT(60) DEF Ordered
    <3>2. (since'[s] + 1)..count' = {}
      <4>1. count \in Nat /\ count' = count /\ since'[s] = count
        BY <2>1, <2>2 DEF TypeInv
      <4> QED
        BY <4>1, SMTT(90)
    <3>3. Complete(s)'
      BY <3>2, ZenonT(60) DEF Complete
    <3> QED
      BY <3>1, <3>3
  <2>6. ASSUME NEW u \in Subscribers, u # s PROVE Ordered(u)' /\ (chan'[u] = "open" => Complete(u)')
    BY <2>1, <2>2, <2>6, SMTT(90) DEF StreamInv, Ordered, Complete, Active
  <2> QED
    BY <2>5, <2>6 DEF StreamInv
<1>12. CASE UNCHANGED <<user, count, offered, doubt, since, event, pc>>
            /\ \A s \in Subscribers : chan'[s] = "open" => chan[s] = "open"
  BY <1>1, <1>2, <1>12 DEF StreamInv, Active
<1>13. ASSUME NEW s \in Subscribers, Cancel(s) PROVE StreamInv'
  BY <1>12, <1>13 DEF Cancel, log, history, TypeInv
<1>14. ASSUME NEW s \in Subscribers, Read(s) PROVE StreamInv'
  BY <1>12, <1>14 DEF Read, log, history
<1>15. CASE BeginClose
  BY <1>12, <1>15 DEF BeginClose, log, history
<1>16. CASE CloseBroker
  BY <1>12, <1>16 DEF CloseBroker, log, history
<1>17. CASE UNCHANGED vars
  BY <1>12, <1>17 DEF vars
<1> QED
  BY <1>3, <1>4, <1>5, <1>7, <1>8, <1>9, <1>10, <1>11, <1>13, <1>14, <1>15, <1>16, <1>17 DEF Next,
     PublisherStep

\* Newest keeps the last elements.
LEMMA NewestEnd ==
    ASSUME NEW q \in Seq(Nat), NEW n \in Nat \ {0}, NEW d \in Nat, d < n, d < Len(q)
    PROVE  d < Len(Newest(q, n)) /\ Newest(q, n)[Len(Newest(q, n)) - d] = q[Len(q) - d]
<1>1. CASE Len(q) <= n
  BY <1>1 DEF Newest
<1>2. CASE ~(Len(q) <= n)
  <2> DEFINE w == SubSeq(q, Len(q) - n + 1, Len(q))
  <2>1. Len(q) \in Nat /\ n \in Nat /\ n < Len(q)
    BY <1>2, SMTT(90)
  <2>2. \A i \in Len(q) - n + 1 .. Len(q) : q[i] \in Nat
    BY <2>1, SMTT(90)
  <2>3. /\ Len(w) = IF Len(q) - n + 1 <= Len(q) THEN Len(q) - (Len(q) - n + 1) + 1 ELSE 0
        /\ \A i \in 1 .. Len(q) - (Len(q) - n + 1) + 1 : w[i] = q[(Len(q) - n + 1) + i - 1]
    BY <2>1, <2>2, SubSeqProperties, SMTT(90)
  <2> HIDE DEF w
  <2>4. Len(w) = n /\ \A i \in 1..n : w[i] = q[Len(q) - n + i]
    BY <2>1, <2>3, SMTT(90)
  <2>5. n - d \in 1..n /\ Len(q) - n + (n - d) = Len(q) - d
    BY <2>1, SMTT(90)
  <2>6. d < Len(w) /\ w[Len(w) - d] = q[Len(q) - d]
    BY <2>4, <2>5
  <2> QED
    BY <1>2, <2>6 DEF Newest, w
<1> QED
  BY <1>1, <1>2

\* The newest events are kept, one after the other.
RecentInv ==
    \A d \in Nat : (d < Limit /\ First + d <= count) => d < Len(kept) /\ kept[Len(kept) - d] = count - d

\* publishDriverEvent and handlePublication keep the newest events.
LEMMA RecentKept ==
    ASSUME TypeInv, EventInv, RecentInv, [Next]_vars
    PROVE  RecentInv'
<1>1. CASE UNCHANGED <<user, kept, count>>
  BY <1>1 DEF RecentInv, Limit, First
<1>2. ASSUME NEW p \in Publishers, Keep(p) PROVE RecentInv'
  <2>1. kept' = Kept(count + 1) /\ count' = count + 1 /\ user' = user /\ count \in Nat
    BY <1>2 DEF Keep, TypeInv
  <2>2. CASE user = "driver"
    <3> DEFINE q == Append(kept, count + 1)
    <3>1. /\ q \in Seq(Nat) /\ Len(q) = Len(kept) + 1 /\ Len(kept) \in Nat
          /\ \A i \in 1..Len(kept) : q[i] = kept[i]
          /\ q[Len(kept) + 1] = count + 1
      <4>1. kept \in Seq(Nat) /\ count + 1 \in Nat
        BY <2>1, SMTT(90) DEF TypeInv
      <4> QED
        BY <4>1, Appended
    <3>2. kept' = Newest(q, RecentLimit)
      BY <2>1, <2>2 DEF Kept
    <3> HIDE DEF q
    <3>3. ASSUME NEW d \in Nat, d < RecentLimit, 1 + d <= count + 1
          PROVE  d < Len(q) /\ q[Len(q) - d] = count + 1 - d
      <4>1. CASE d = 0
        BY <2>1, <3>1, <4>1, SMTT(90)
      <4>2. CASE d # 0
        <5>1. d - 1 \in Nat /\ d - 1 < RecentLimit /\ 1 + (d - 1) <= count
          BY <2>1, <3>3, <4>2, BrokerAssumption, SMTT(90)
        <5>2. d - 1 < Len(kept) /\ kept[Len(kept) - (d - 1)] = count - (d - 1)
          BY <2>2, <5>1 DEF RecentInv, Limit, First
        <5>3. Len(q) - d = Len(kept) - (d - 1) /\ Len(q) - d \in 1..Len(kept) /\ count + 1 - d = count - (d - 1)
          BY <2>1, <3>1, <4>2, <5>1, <5>2, SMTT(90)
        <5>4. q[Len(q) - d] = kept[Len(q) - d]
          BY <3>1, <5>3
        <5>5. d < Len(q)
          BY <3>1, <5>1, <5>2, SMTT(90)
        <5> QED
          BY <5>2, <5>3, <5>4, <5>5
      <4> QED
        BY <4>1, <4>2
    <3>4. ASSUME NEW d \in Nat, d < RecentLimit, 1 + d <= count + 1
          PROVE  d < Len(kept') /\ kept'[Len(kept') - d] = count + 1 - d
      BY <3>1, <3>2, <3>3, <3>4, NewestEnd, BrokerAssumption
    <3> QED
      BY <2>1, <2>2, <3>4 DEF RecentInv, Limit, First
  <2>3. CASE user = "service"
    <3>1. kept' = <<count + 1>> /\ Len(<<count + 1>>) = 1 /\ <<count + 1>>[1] = count + 1
      BY <2>1, <2>3, SMTT(90) DEF Kept
    <3>2. \A d \in Nat : d < 1 => d = 0 /\ d < Len(kept') /\ Len(kept') - d = 1 /\ count + 1 - d = count + 1
      BY <2>1, <3>1, SMTT(90)
    <3>3. \A d \in Nat : d < 1 => d < Len(kept') /\ kept'[Len(kept') - d] = count' - d
      BY <2>1, <3>1, <3>2
    <3> QED
      BY <2>1, <2>3, <3>3 DEF RecentInv, Limit
  <2> QED
    BY <2>2, <2>3 DEF EventInv
<1> QED
  BY <1>1, <1>2
  DEF Next, PublisherStep, PublishClosed, Publish, Send, Evict, Resend, PublishEnd, Subscribe, Cancel, Read,
      BeginClose, CloseBroker, log, vars

\* A subscriber has been given the newest of the events kept when it came.
ReplayInv ==
    \A s \in Subscribers :
        chan[s] = "open" => \A d \in Nat :
            (d < Limit /\ d < Buffer[s] /\ First + d <= since[s]) =>
                \E i \in 1..Len(offered[s]) : offered[s][i] = since[s] - d

\* subscribeInitial fills the channel with the end of the kept events, and later
\* offers come after them.
LEMMA ReplayKept ==
    ASSUME TypeInv, EventInv, RecentInv, ReplayInv, [Next]_vars
    PROVE  ReplayInv'
<1>1. ASSUME UNCHANGED <<user, offered, since>>, \A s \in Subscribers : chan'[s] = "open" => chan[s] = "open"
      PROVE  ReplayInv'
  BY <1>1 DEF ReplayInv, Limit, First
<1>2. ASSUME NEW p \in Publishers, NEW s \in Subscribers, Offer(p, s), UNCHANGED <<user, since, chan>>
      PROVE  ReplayInv'
  <2>1. /\ \A u \in Subscribers : u # s => offered'[u] = offered[u]
        /\ Len(offered[s]) \in Nat /\ Len(offered'[s]) = Len(offered[s]) + 1
        /\ \A i \in 1..Len(offered[s]) : offered'[s][i] = offered[s][i]
    BY <1>2, OfferEffect
  <2>2. \A i \in 1..Len(offered[s]) : i \in 1..Len(offered'[s])
    BY <2>1, SMTT(90)
  <2>3. ASSUME NEW u \in Subscribers, NEW e, \E i \in 1..Len(offered[u]) : offered[u][i] = e
        PROVE  \E i \in 1..Len(offered'[u]) : offered'[u][i] = e
    BY <2>1, <2>2, <2>3
  <2> QED
    BY <1>2, <2>3 DEF ReplayInv, Limit, First
<1>3. ASSUME NEW s \in Subscribers, Subscribe(s) PROVE ReplayInv'
  <2>1. /\ offered' = [offered EXCEPT ![s] = Newest(kept, Buffer[s])]
        /\ chan' = [chan EXCEPT ![s] = "open"] /\ since' = [since EXCEPT ![s] = count]
        /\ user' = user
    BY <1>3 DEF Subscribe
  <2>2. /\ offered'[s] = Newest(kept, Buffer[s]) /\ since'[s] = count
        /\ \A u \in Subscribers :
              u # s => offered'[u] = offered[u] /\ chan'[u] = chan[u] /\ since'[u] = since[u]
    BY <2>1 DEF TypeInv, EventInv
  <2>3. kept \in Seq(Nat) /\ Buffer[s] \in Nat \ {0}
    BY BrokerAssumption DEF TypeInv
  <2>4. Newest(kept, Buffer[s]) \in Seq(Nat)
    BY <2>3, NewestSuffix
  <2>5. ASSUME NEW d \in Nat, d < Limit, d < Buffer[s], First + d <= count
        PROVE  \E i \in 1..Len(offered'[s]) : offered'[s][i] = count - d
    <3>1. d < Len(kept) /\ kept[Len(kept) - d] = count - d
      BY <2>5 DEF RecentInv
    <3>2. d < Len(offered'[s]) /\ offered'[s][Len(offered'[s]) - d] = count - d
      BY <2>2, <2>3, <2>5, <3>1, NewestEnd
    <3>3. Len(offered'[s]) - d \in 1..Len(offered'[s])
      BY <2>2, <2>4, <3>2, SMTT(90)
    <3> QED
      BY <3>2, <3>3
  <2> QED
    BY <2>1, <2>2, <2>5 DEF ReplayInv, Limit, First
<1>4. ASSUME NEW p \in Publishers, NEW s \in Subscribers, Send(p, s) \/ Resend(p, s) PROVE ReplayInv'
  BY <1>1, <1>2, <1>4 DEF Send, Resend, history
<1>5. ASSUME NEW s \in Subscribers, Cancel(s) PROVE ReplayInv'
  BY <1>1, <1>5 DEF Cancel, history, TypeInv
<1>6. CASE CloseBroker
  BY <1>1, <1>6 DEF CloseBroker, history
<1>7. CASE UNCHANGED <<user, offered, since, chan>>
  BY <1>1, <1>7
<1> QED
  BY <1>3, <1>4, <1>5, <1>6, <1>7
  DEF Next, PublisherStep, Keep, PublishClosed, Publish, Evict, PublishEnd, Read, BeginClose, history, vars

\* Every event kept since a publisher came on the way has noted that.
BehindInv ==
    /\ behind \in [1..MaxEvents -> SUBSET Nat] /\ count <= MaxEvents
    /\ \A p \in Publishers : Active(p) => \A e \in 1..count : event[p] < e => event[p] \in behind[e]

\* An event offered after a newer one was on the way when the newer one was kept.
OrderInv ==
    \A s \in Subscribers : \A i, j \in 1..Len(offered[s]) :
        (i < j /\ offered[s][j] < offered[s][i]) => offered[s][j] \in behind[offered[s][i]]

\* A new event notes who is on the way.
LEMMA BehindKept ==
    ASSUME TypeInv, EventInv, BehindInv, [Next]_vars
    PROVE  BehindInv'
<1>1. ASSUME UNCHANGED <<count, behind>>, \A p \in Publishers : Active(p)' => Active(p) /\ event'[p] = event[p]
      PROVE  BehindInv'
  BY <1>1 DEF BehindInv
<1>2. ASSUME NEW p \in Publishers, Keep(p) PROVE BehindInv'
  <2>1. /\ count' = count + 1 /\ count \in Nat /\ count + 1 <= MaxEvents
        /\ \A q \in Publishers : event'[q] = (IF q = p THEN count + 1 ELSE event[q])
                                 /\ pc'[q] = (IF q = p THEN "publish" ELSE pc[q])
        /\ behind' = [behind EXCEPT ![count + 1] = OnTheWay] /\ pc[p] = "idle"
    BY <1>2, BrokerAssumption, SMTT(90) DEF Keep, Goto, TypeInv
  <2>2. OnTheWay \in SUBSET Nat /\ \A q \in Publishers : Active(q) => event[q] \in OnTheWay
    BY DEF OnTheWay, TypeInv, Active
  <2>3. /\ behind' \in [1..MaxEvents -> SUBSET Nat] /\ behind'[count + 1] = OnTheWay
        /\ \A e \in 1..count : behind'[e] = behind[e]
    <3>1. count + 1 \in 1..MaxEvents /\ \A e \in 1..count : e \in 1..MaxEvents /\ e # count + 1
      BY <2>1, BrokerAssumption, SMTT(90)
    <3> QED
      BY <2>1, <2>2, <3>1 DEF BehindInv
  <2>4. ASSUME NEW q \in Publishers, Active(q)', NEW e \in 1..count', event'[q] < e
        PROVE  event'[q] \in behind'[e]
    <3>1. q # p
      BY <2>1, <2>4, SMTT(90)
    <3>2. Active(q) /\ event'[q] = event[q]
      BY <2>1, <2>4, <3>1 DEF Active
    <3>3. CASE e = count + 1
      BY <2>2, <2>3, <3>2, <3>3
    <3>4. CASE e # count + 1
      <4>1. e \in 1..count
        BY <2>1, <3>4, SMTT(90)
      <4> QED
        BY <2>3, <2>4, <3>2, <4>1 DEF BehindInv
    <3> QED
      BY <3>3, <3>4
  <2> QED
    BY <2>1, <2>3, <2>4 DEF BehindInv
<1>3. ASSUME NEW p \in Publishers, PublishClosed(p) \/ PublishEnd(p) PROVE BehindInv'
  <2>1. /\ UNCHANGED <<count, behind>>
        /\ pc' = [pc EXCEPT ![p] = "idle"] /\ event' = [event EXCEPT ![p] = 0]
    BY <1>3 DEF PublishClosed, PublishEnd, Return, Goto, log, history
  <2>2. \A q \in Publishers : Active(q)' => Active(q) /\ event'[q] = event[q]
    BY <2>1 DEF TypeInv, Active
  <2> QED
    BY <1>1, <2>1, <2>2
<1>4. ASSUME NEW p \in Publishers,
             Publish(p) \/ \E s \in Subscribers : Send(p, s) \/ Evict(p, s) \/ Resend(p, s)
      PROVE  BehindInv'
  <2>1. UNCHANGED <<count, behind, event>> /\ pc[p] # "idle"
    BY <1>4 DEF Publish, Send, Evict, Resend, log, history
  <2>2. \A q \in Publishers : Active(q)' => Active(q)
    BY <1>4 DEF Publish, Send, Evict, Resend, Goto, TypeInv, Active
  <2> QED
    BY <1>1, <2>1, <2>2
<1>5. CASE UNCHANGED <<count, behind, event, pc>>
  BY <1>1, <1>5 DEF Active
<1> QED
  BY <1>2, <1>3, <1>4, <1>5
  DEF Next, PublisherStep, Subscribe, Cancel, Read, BeginClose, CloseBroker, log, history, vars

\* A publisher that is overtaken was on the way when the other event was kept.
LEMMA OrderKept ==
    ASSUME TypeInv, LockInv, EventInv, DueInv, BehindInv, OrderInv, [Next]_vars
    PROVE  OrderInv'
<1>1. CASE UNCHANGED <<offered, behind>>
  BY <1>1 DEF OrderInv
<1>2. ASSUME NEW p \in Publishers, Keep(p) PROVE OrderInv'
  <2>1. behind' = [behind EXCEPT ![count + 1] = OnTheWay] /\ UNCHANGED offered /\ count \in Nat
    BY <1>2 DEF Keep, TypeInv
  <2>2. ASSUME NEW s \in Subscribers, NEW i \in 1..Len(offered[s]), NEW j \in 1..Len(offered[s]),
               offered[s][j] < offered[s][i]
        PROVE  behind'[offered[s][i]] = behind[offered[s][i]]
    <3>1. offered[s][i] \in Nat /\ offered[s][j] \in Nat /\ offered[s][i] <= count
      BY SMTT(90) DEF TypeInv, DueInv
    <3>2. offered[s][i] \in 1..MaxEvents /\ offered[s][i] # count + 1
      BY <2>1, <2>2, <3>1, BrokerAssumption, SMTT(90) DEF BehindInv
    <3> QED
      BY <2>1, <3>2 DEF BehindInv
  <2> QED
    BY <2>1, <2>2 DEF OrderInv
<1>3. ASSUME NEW p \in Publishers, NEW s \in Subscribers, Offer(p, s), Active(p), UNCHANGED behind
      PROVE  OrderInv'
  <2>1. /\ \A u \in Subscribers : u # s => offered'[u] = offered[u]
        /\ Len(offered[s]) \in Nat /\ Len(offered'[s]) = Len(offered[s]) + 1
        /\ \A i \in 1..Len(offered[s]) : offered'[s][i] = offered[s][i]
        /\ offered'[s][Len(offered[s]) + 1] = event[p]
    BY <1>3, OfferEffect
  <2>2. ASSUME NEW i \in 1..Len(offered'[s]), NEW j \in 1..Len(offered'[s]), i < j,
               offered'[s][j] < offered'[s][i]
        PROVE  offered'[s][j] \in behind'[offered'[s][i]]
    <3>1. i \in 1..Len(offered[s])
      BY <2>1, <2>2, SMTT(90)
    <3>2. CASE j = Len(offered[s]) + 1
      <4>1. offered'[s][i] = offered[s][i] /\ offered'[s][j] = event[p]
        BY <2>1, <3>1, <3>2
      <4>2. offered[s][i] \in Nat /\ offered[s][i] <= count /\ event[p] \in Nat /\ count \in Nat
        BY <3>1, SMTT(90) DEF TypeInv, DueInv
      <4>3. offered[s][i] \in 1..count
        BY <2>2, <4>1, <4>2, SMTT(90)
      <4> QED
        BY <1>3, <2>2, <4>1, <4>3 DEF BehindInv
    <3>3. CASE j # Len(offered[s]) + 1
      <4>1. j \in 1..Len(offered[s])
        BY <2>1, <3>3, SMTT(90)
      <4> QED
        BY <1>3, <2>1, <2>2, <3>1, <4>1 DEF OrderInv
    <3> QED
      BY <3>2, <3>3
  <2> QED
    BY <1>3, <2>1, <2>2 DEF OrderInv
<1>4. ASSUME NEW p \in Publishers, NEW s \in Subscribers, Send(p, s) \/ Resend(p, s) PROVE OrderInv'
  BY <1>1, <1>3, <1>4 DEF Send, Resend, history, Active
<1>5. ASSUME NEW s \in Subscribers, Subscribe(s) PROVE OrderInv'
  <2>1. offered' = [offered EXCEPT ![s] = Newest(kept, Buffer[s])] /\ UNCHANGED behind
    BY <1>5 DEF Subscribe
  <2>2. offered'[s] = Newest(kept, Buffer[s]) /\ \A u \in Subscribers : u # s => offered'[u] = offered[u]
    BY <2>1 DEF TypeInv
  <2>3. Newest(kept, Buffer[s]) \in Seq(Nat) /\ Suffix(Newest(kept, Buffer[s]), kept)
    BY NewestSuffix, BrokerAssumption DEF TypeInv
  <2>4. \A i, j \in 1..Len(offered'[s]) : i < j => offered'[s][i] < offered'[s][j]
    BY <2>2, <2>3, SuffixOrdered, ZenonT(60) DEF TypeInv, EventInv
  <2>5. \A i \in 1..Len(offered'[s]) : offered'[s][i] \in Nat
    BY <2>2, <2>3, SMTT(90)
  <2>6. \A i, j \in 1..Len(offered'[s]) : i < j => ~(offered'[s][j] < offered'[s][i])
    BY <2>4, <2>5, SMTT(90)
  <2> QED
    BY <2>1, <2>2, <2>6 DEF OrderInv
<1> QED
  BY <1>1, <1>2, <1>4, <1>5
  DEF Next, PublisherStep, PublishClosed, Publish, Evict, PublishEnd, Cancel, Read, BeginClose,
      CloseBroker, history, vars

\* All that is known of the stream.
JoinInv == EventInv /\ Apart /\ DueInv /\ StreamInv /\ RecentInv /\ ReplayInv /\ BehindInv /\ OrderInv

\* A new broker has no subscriber and publishes nothing.
LEMMA StreamInit == Init => JoinInv
<1> SUFFICES ASSUME Init PROVE JoinInv
  OBVIOUS
<1>1. /\ \A i \in 1..Len(kept) : kept[i] <= count
      /\ \A i, j \in 1..Len(kept) : i < j => kept[i] < kept[j]
  BY SMTT(90) DEF Init
<1>2. \A p \in Publishers : pc[p] = "idle"
  BY DEF Init
<1>3. EventInv
  BY <1>1, <1>2 DEF Init, EventInv, Active
<1>4. \A s \in Subscribers : Len(offered[s]) = 0 /\ chan[s] # "open"
  BY DEF Init
<1>5. DueInv /\ StreamInv /\ OrderInv
  BY <1>4, SMTT(90) DEF DueInv, StreamInv, Ordered, OrderInv
<1>6. ReplayInv
  BY <1>4 DEF ReplayInv
<1>7. RecentInv
  <2>1. CASE user = "driver"
    BY <2>1, SMTT(90) DEF Init, RecentInv, First
  <2>2. CASE user = "service"
    <3>1. count = 0 /\ kept = <<0>> /\ Len(<<0>>) = 1 /\ <<0>>[1] = 0
      BY <2>2, SMTT(90) DEF Init
    <3>2. \A d \in Nat : d < 1 => d < Len(kept) /\ Len(kept) - d = 1 /\ count - d = 0
      BY <3>1, SMTT(90)
    <3> QED
      BY <2>2, <3>1, <3>2 DEF RecentInv, Limit
  <2> QED
    BY <2>1, <2>2 DEF Init
<1>8. BehindInv
  <2>1. count <= MaxEvents
    BY BrokerAssumption, SMTT(90) DEF Init
  <2> QED
    BY <1>2, <2>1 DEF Init, BehindInv, Active
<1> QED
  BY <1>3, <1>5, <1>6, <1>7, <1>8 DEF Init, Apart, JoinInv

\* A subscription joins the running stream without a gap: it starts with the newest of
\* the kept events.  A service offers every state once and in order; the driver repeats
\* at most an event that was on the way when the subscriber came, and lets one be
\* overtaken only while its publisher is on the way (driver.go:590, 673; events.go:223,
\* 256).
THEOREM StreamJoined == Spec => []JoinsStream
<1>1. IInv /\ JoinInv /\ [Next]_vars => JoinInv'
  BY EventsKept, ApartKept, DuesKept, StreamKept, RecentKept, ReplayKept, BehindKept, OrderKept DEF IInv, JoinInv
<1>2. TypeInv /\ JoinInv => JoinsStream
  <2> SUFFICES ASSUME TypeInv, JoinInv, NEW s \in Subscribers, chan[s] = "open"
               PROVE  /\ Found(s) \subseteq Range(offered[s])
                      /\ (since[s] + 1)..count \subseteq Range(offered[s]) \cup OnTheWay
                      /\ \A i, j \in DOMAIN offered[s] :
                            i < j => \/ offered[s][i] < offered[s][j]
                                     \/ user = "driver" /\ offered[s][i] = offered[s][j] /\ offered[s][j] \in doubt[s]
                                     \/ /\ user = "driver" /\ offered[s][i] > offered[s][j]
                                        /\ offered[s][j] \in behind[offered[s][i]]
    BY DEF JoinsStream
  <2>1. DOMAIN offered[s] = 1..Len(offered[s]) /\ \A i \in 1..Len(offered[s]) : offered[s][i] \in Nat
    BY SMTT(90) DEF TypeInv
  <2>2. \A e : (\E i \in 1..Len(offered[s]) : offered[s][i] = e) => e \in Range(offered[s])
    BY <2>1 DEF Range
  <2>3. ASSUME NEW e \in Found(s) PROVE e \in Range(offered[s])
    <3>1. since[s] \in Nat /\ First \in Nat
      BY SMTT(90) DEF JoinInv, EventInv, First
    <3>2. e \in First..since[s] /\ since[s] - e < Limit /\ since[s] - e < Buffer[s]
      BY <2>3 DEF Found
    <3>3. since[s] - e \in Nat /\ First + (since[s] - e) <= since[s] /\ since[s] - (since[s] - e) = e
      <4>1. e \in First..since[s]
        BY <3>2
      <4> QED
        BY <3>1, <4>1, SMTT(90)
    <3>4. \E i \in 1..Len(offered[s]) : offered[s][i] = since[s] - (since[s] - e)
      BY <3>2, <3>3 DEF JoinInv, ReplayInv
    <3> QED
      BY <2>2, <3>3, <3>4
  <2>4. ASSUME NEW e \in (since[s] + 1)..count PROVE e \in Range(offered[s]) \cup OnTheWay
    BY <2>2 DEF JoinInv, StreamInv, Complete, Active, OnTheWay
  <2>5. ASSUME NEW i \in 1..Len(offered[s]), NEW j \in 1..Len(offered[s]), i < j
        PROVE  \/ offered[s][i] < offered[s][j]
               \/ user = "driver" /\ offered[s][i] = offered[s][j] /\ offered[s][j] \in doubt[s]
               \/ /\ user = "driver" /\ offered[s][i] > offered[s][j]
                  /\ offered[s][j] \in behind[offered[s][i]]
    <3>1. \/ offered[s][i] < offered[s][j]
          \/ user = "driver" /\ (offered[s][i] = offered[s][j] => offered[s][i] \in doubt[s])
      BY <2>5 DEF JoinInv, StreamInv, Ordered
    <3>2. offered[s][j] < offered[s][i] => offered[s][j] \in behind[offered[s][i]]
      BY <2>5 DEF JoinInv, OrderInv
    <3> QED
      BY <2>1, <3>1, <3>2, SMTT(90)
  <2> QED
    BY <2>1, <2>3, <2>4, <2>5
<1> QED
  BY <1>1, <1>2, StreamInit, Invariance, PTL DEF Spec, IInv
=============================================================================
