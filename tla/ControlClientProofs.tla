------------------------ MODULE ControlClientProofs ------------------------
(***************************************************************************)
(* Proofs about ControlClient.tla for any number of callers and events and *)
(* an event channel of any capacity.                                       *)
(***************************************************************************)
EXTENDS ControlClient, SequenceTheorems, TLAPS

\* Time for the provers on a slow machine.
USE SMTT(90), ZenonT(60)

\* The values of the variables.
TypeInv ==
    /\ pc \in [Callers -> {"acquire", "begin", "write", "wait", "stop", "result", "returned"}]
    /\ ret \in [Callers -> {"none"} \cup Ended]
    /\ got \in [Callers -> Callers \cup {Nobody}]
    /\ sent \in [Callers -> BOOLEAN]
    /\ consumed \in [Callers -> BOOLEAN]
    /\ serial \in Callers \cup {Nobody}
    /\ reader \in {"read", "hand", "stopped"}
    /\ held \in Callers \cup {Nobody} /\ (reader = "hand" <=> held # Nobody)
    /\ replies \in Seq(Callers)
    /\ tor \in Seq(Callers)
    /\ wire \in Seq(Callers \cup {Event})
    /\ connOpen \in BOOLEAN /\ done \in BOOLEAN

\* A command that Tor was sent and whose reply Do has not received.
Due(c) == c \in Callers /\ sent[c] /\ ~consumed[c]

\* One caller is between the selects of Do, it alone may wait for a reply, and
\* nobody can have left one behind on a connection that is still open.
CallInv ==
    /\ \A c \in Callers :
        /\ serial = c <=> pc[c] \in {"begin", "write", "wait", "stop", "result"}
        /\ pc[c] \in {"acquire", "begin", "write"} => ~sent[c] /\ ~consumed[c]
        /\ pc[c] = "wait" => Due(c)
        /\ pc[c] = "returned" <=> ret[c] # "none"
        /\ connOpen /\ Due(c) => pc[c] = "wait"
    /\ \A c, d \in Callers : Due(c) /\ Due(d) => c = d
    /\ done => ~connOpen

\* A reply is somewhere on the wire.
OnWire == \E i \in 1..Len(wire) : wire[i] # Event

\* At most one command or reply is under way, in one place, and it is due.
FlightInv ==
    /\ Len(tor) <= 1 /\ Len(replies) <= 1
    /\ \A i, j \in 1..Len(wire) : wire[i] # Event /\ wire[j] # Event => i = j
    /\ OnWire => tor = <<>>
    /\ held # Nobody => tor = <<>> /\ ~OnWire
    /\ replies # <<>> => tor = <<>> /\ ~OnWire /\ held = Nobody
    /\ tor # <<>> => Due(tor[1])
    /\ \A i \in 1..Len(wire) : wire[i] # Event => Due(wire[i])
    /\ held # Nobody => Due(held)
    /\ replies # <<>> => Due(replies[1])

IInv == TypeInv /\ CallInv /\ FlightInv /\ RepliesMatch

-----------------------------------------------------------------------------
\* A new client satisfies the invariant.
LEMMA InitIInv == Init => IInv
<1> SUFFICES ASSUME Init PROVE IInv
    OBVIOUS
<1>1. TypeInv
  <2>1. <<>> \in Seq(Callers) /\ <<>> \in Seq(Callers \cup {Event})
      OBVIOUS
  <2> QED
      BY <2>1, ZenonT(60) DEF Init, TypeInv, Ended
<1>2. CallInv /\ FlightInv /\ RepliesMatch
    BY ClientAssumption DEF Init, CallInv, FlightInv, RepliesMatch, Due, OnWire
<1> QED
    BY <1>1, <1>2 DEF IInv

\* Every step keeps the types.
LEMMA TypeKept == TypeInv /\ [Next]_vars => TypeInv'
<1> SUFFICES ASSUME TypeInv, [Next]_vars PROVE TypeInv'
    OBVIOUS
<1> USE ClientAssumption DEF TypeInv, Ended, Goto, client, conn, peer, caller
<1>1. ASSUME NEW c \in Callers, Acquire(c) PROVE TypeInv'
    BY <1>1, ZenonT(60) DEF Acquire, Return
<1>2. ASSUME NEW c \in Callers, Begin(c) PROVE TypeInv'
    BY <1>2, ZenonT(60) DEF Begin, Return
<1>3. ASSUME NEW c \in Callers, Write(c) PROVE TypeInv'
  <2>1. CASE /\ connOpen
             /\ tor' = Append(tor, c)
             /\ sent' = [sent EXCEPT ![c] = TRUE]
             /\ Goto(c, "wait")
             /\ UNCHANGED <<ret, timer, serial, conn>>
    <3>1. Append(tor, c) \in Seq(Callers)
        OBVIOUS
    <3> QED
        BY <1>3, <2>1, <3>1 DEF Write
  <2>2. CASE Fail /\ Return(c, "err") /\ UNCHANGED <<tor, sent>>
      BY <1>3, <2>2, ZenonT(60) DEF Write, Fail, Return
  <2> QED
      BY <1>3, <2>1, <2>2 DEF Write
<1>4. ASSUME NEW c \in Callers, TakeReply(c) PROVE TypeInv'
    BY <1>4 DEF TakeReply
<1>5. ASSUME NEW c \in Callers, WaitCtx(c) PROVE TypeInv'
    BY <1>5, ZenonT(60) DEF WaitCtx, GiveUp, Fail, Return
<1>6. ASSUME NEW c \in Callers, WaitDead(c) PROVE TypeInv'
    BY <1>6 DEF WaitDead, Return
<1>7. ASSUME NEW c \in Callers, ResultStop(c) PROVE TypeInv'
    BY <1>7 DEF ResultStop
<1>8. ASSUME NEW c \in Callers, Result(c) PROVE TypeInv'
    BY <1>8 DEF Result, Return
<1>9. ASSUME NEW c \in Callers, Cancel(c) PROVE TypeInv'
    BY <1>9 DEF Cancel
<1>10. ASSUME NEW c \in Callers, TimerStart(c) PROVE TypeInv'
    BY <1>10 DEF TimerStart
<1>11. ASSUME NEW c \in Callers, TimerFail(c) PROVE TypeInv'
    BY <1>11, ZenonT(60) DEF TimerFail, Fail
<1>12. CASE ReadReply
    BY <1>12 DEF ReadReply
<1>13. CASE ReadEvent
  <2>1. Tail(wire) \in Seq(Callers \cup {Event})
      BY <1>13, HeadTailProperties DEF ReadEvent
  <2>2. connOpen' \in BOOLEAN /\ done' \in BOOLEAN /\ reader' \in {"read", "stopped"} /\ held = Nobody
      BY <1>13, ZenonT(60) DEF ReadEvent, Fail
  <2>3. UNCHANGED <<caller, serial, replies, held, tor>> /\ wire' = Tail(wire)
      BY <1>13 DEF ReadEvent
  <2> QED
      BY <2>1, <2>2, <2>3
<1>14. CASE ReadFail
    BY <1>14, ZenonT(60) DEF ReadFail, Fail
<1>15. CASE HandOver
  <2>1. replies' \in Seq(Callers)
      BY <1>15 DEF HandOver
  <2> QED
      BY <1>15, <2>1 DEF HandOver
<1>16. CASE TakeEvent
    BY <1>16 DEF TakeEvent
<1>17. CASE Close
    BY <1>17, ZenonT(60) DEF Close, Fail
<1>18. CASE TorReply
    BY <1>18 DEF TorReply
<1>19. CASE TorEvent
    BY <1>19 DEF TorEvent
<1>20. CASE TorExit
    BY <1>20 DEF TorExit
<1>21. CASE UNCHANGED vars
    BY <1>21 DEF vars
<1> HIDE DEF TypeInv, Ended, Goto, client, conn, peer, caller
<1> QED
    BY <1>1, <1>2, <1>3, <1>4, <1>5, <1>6, <1>7, <1>8, <1>9, <1>10, <1>11, <1>12, <1>13,
       <1>14, <1>15, <1>16, <1>17, <1>18, <1>19, <1>20, <1>21 DEF Next, DoStep,
       ReaderStep, Finished

\* Client.serial and Client.fail keep the calls apart.
LEMMA CallKept == TypeInv /\ CallInv /\ [Next]_vars => CallInv'
<1> SUFFICES ASSUME TypeInv, CallInv, [Next]_vars PROVE CallInv'
    OBVIOUS
<1> USE ClientAssumption DEF TypeInv, CallInv, Due, Ended, Goto, client, conn, peer, caller
<1>1. ASSUME NEW c \in Callers, Acquire(c) PROVE CallInv'
    BY <1>1 DEF Acquire, Return
<1>2. ASSUME NEW c \in Callers, Begin(c) PROVE CallInv'
  <2>1. CASE Return(c, "ctx")
      BY <1>2, <2>1 DEF Begin, Return
  <2>2. CASE Goto(c, "write") /\ UNCHANGED <<ret, serial>>
      BY <1>2, <2>2 DEF Begin
  <2> QED
      BY <1>2, <2>1, <2>2 DEF Begin
<1>3. ASSUME NEW c \in Callers, Write(c) PROVE CallInv'
  <2>1. CASE /\ connOpen
             /\ tor' = Append(tor, c)
             /\ sent' = [sent EXCEPT ![c] = TRUE]
             /\ Goto(c, "wait")
             /\ UNCHANGED <<ret, timer, serial, conn>>
      BY <1>3, <2>1 DEF Write
  <2>2. CASE Fail /\ Return(c, "err") /\ UNCHANGED <<tor, sent>>
      BY <1>3, <2>2 DEF Write, Fail, Return
  <2> QED
      BY <1>3, <2>1, <2>2 DEF Write
<1>4. ASSUME NEW c \in Callers, TakeReply(c) PROVE CallInv'
    BY <1>4 DEF TakeReply
<1>5. ASSUME NEW c \in Callers, WaitCtx(c) PROVE CallInv'
    BY <1>5 DEF WaitCtx, GiveUp, Fail, Return
<1>6. ASSUME NEW c \in Callers, WaitDead(c) PROVE CallInv'
    BY <1>6 DEF WaitDead, Return
<1>7. ASSUME NEW c \in Callers, ResultStop(c) PROVE CallInv'
    BY <1>7 DEF ResultStop
<1>8. ASSUME NEW c \in Callers, Result(c) PROVE CallInv'
    BY <1>8 DEF Result, Return
<1>9. ASSUME NEW c \in Callers, Cancel(c) PROVE CallInv'
    BY <1>9 DEF Cancel
<1>10. ASSUME NEW c \in Callers, TimerStart(c) PROVE CallInv'
    BY <1>10 DEF TimerStart
<1>11. ASSUME NEW c \in Callers, TimerFail(c) PROVE CallInv'
    BY <1>11 DEF TimerFail, Fail
<1>12. CASE ReadReply
    BY <1>12 DEF ReadReply
<1>13. CASE ReadEvent
    BY <1>13 DEF ReadEvent, Room, Fail
<1>14. CASE ReadFail
    BY <1>14 DEF ReadFail, Fail
<1>15. CASE HandOver
    BY <1>15 DEF HandOver
<1>16. CASE TakeEvent
    BY <1>16 DEF TakeEvent
<1>17. CASE Close
    BY <1>17 DEF Close, Fail
<1>18. CASE TorReply
    BY <1>18 DEF TorReply
<1>19. CASE TorEvent
    BY <1>19 DEF TorEvent
<1>20. CASE TorExit
    BY <1>20 DEF TorExit
<1>21. CASE UNCHANGED vars
    BY <1>21 DEF vars
<1> HIDE DEF TypeInv, CallInv, Due, Ended, Goto, client, conn, peer, caller
<1> QED
    BY <1>1, <1>2, <1>3, <1>4, <1>5, <1>6, <1>7, <1>8, <1>9, <1>10, <1>11, <1>12, <1>13,
       <1>14, <1>15, <1>16, <1>17, <1>18, <1>19, <1>20, <1>21 DEF Next, DoStep,
       ReaderStep, Finished

\* The one command or reply under way only moves on.
LEMMA FlightKept == TypeInv /\ CallInv /\ FlightInv /\ [Next]_vars => FlightInv'
<1> SUFFICES ASSUME TypeInv, CallInv, FlightInv, [Next]_vars PROVE FlightInv'
    OBVIOUS
<1> USE ClientAssumption DEF TypeInv, CallInv, FlightInv, Due, OnWire, Goto, client, conn, peer, caller
<1>1. ASSUME NEW c \in Callers, Acquire(c) PROVE FlightInv'
    BY <1>1 DEF Acquire, Return
<1>2. ASSUME NEW c \in Callers, Begin(c) PROVE FlightInv'
    BY <1>2 DEF Begin, Return
<1>3. ASSUME NEW c \in Callers, Write(c) PROVE FlightInv'
  <2>1. CASE /\ connOpen
             /\ tor' = Append(tor, c)
             /\ sent' = [sent EXCEPT ![c] = TRUE]
             /\ Goto(c, "wait")
             /\ UNCHANGED <<ret, timer, serial, conn>>
    <3>1. \A x : ~Due(x)
        BY <1>3, <2>1 DEF Write
    <3>2. tor = <<>> /\ replies = <<>> /\ held = Nobody /\ ~OnWire
        BY <3>1
    <3>3. tor' # <<>> /\ Len(tor') = 1 /\ tor'[1] = c
        BY <2>1, <3>2
    <3>4. Due(c)'
        BY <1>3, <2>1 DEF Write
    <3>5. UNCHANGED <<replies, held, wire, reader>>
        BY <1>3, <2>1 DEF Write
    <3> QED
        BY <3>2, <3>3, <3>4, <3>5
  <2>2. CASE Fail /\ Return(c, "err") /\ UNCHANGED <<tor, sent>>
      BY <1>3, <2>2 DEF Write, Fail, Return
  <2> QED
      BY <1>3, <2>1, <2>2 DEF Write
<1>4. ASSUME NEW c \in Callers, TakeReply(c) PROVE FlightInv'
    BY <1>4 DEF TakeReply
<1>5. ASSUME NEW c \in Callers, WaitCtx(c) PROVE FlightInv'
    BY <1>5 DEF WaitCtx, GiveUp, Fail, Return
<1>6. ASSUME NEW c \in Callers, WaitDead(c) PROVE FlightInv'
    BY <1>6 DEF WaitDead, Return
<1>7. ASSUME NEW c \in Callers, ResultStop(c) PROVE FlightInv'
    BY <1>7 DEF ResultStop
<1>8. ASSUME NEW c \in Callers, Result(c) PROVE FlightInv'
    BY <1>8 DEF Result, Return
<1>9. ASSUME NEW c \in Callers, Cancel(c) PROVE FlightInv'
    BY <1>9 DEF Cancel
<1>10. ASSUME NEW c \in Callers, TimerStart(c) PROVE FlightInv'
    BY <1>10 DEF TimerStart
<1>11. ASSUME NEW c \in Callers, TimerFail(c) PROVE FlightInv'
    BY <1>11 DEF TimerFail, Fail
<1>12. CASE ReadReply
    BY <1>12 DEF ReadReply
<1>13. CASE ReadEvent
    BY <1>13 DEF ReadEvent, Room, Fail
<1>14. CASE ReadFail
    BY <1>14 DEF ReadFail, Fail
<1>15. CASE HandOver
  <2>1. CASE /\ replies = <<>>
             /\ replies' = Append(replies, held)
             /\ reader' = "read"
    <3>1. held # Nobody
        BY <1>15 DEF HandOver
    <3>2. replies' # <<>> /\ Len(replies') = 1 /\ replies'[1] = held
        BY <2>1, <3>1
    <3>3. UNCHANGED <<tor, wire, sent, consumed>> /\ held' = Nobody
        BY <1>15 DEF HandOver
    <3> QED
        BY <2>1, <3>1, <3>2, <3>3
  <2>2. CASE done /\ reader' = "stopped" /\ UNCHANGED replies
      BY <1>15, <2>2 DEF HandOver
  <2> QED
      BY <1>15, <2>1, <2>2 DEF HandOver
<1>16. CASE TakeEvent
    BY <1>16 DEF TakeEvent
<1>17. CASE Close
    BY <1>17 DEF Close, Fail
<1>18. CASE TorReply
    BY <1>18 DEF TorReply
<1>19. CASE TorEvent
    BY <1>19 DEF TorEvent
<1>20. CASE TorExit
    BY <1>20 DEF TorExit
<1>21. CASE UNCHANGED vars
    BY <1>21 DEF vars
<1> HIDE DEF TypeInv, CallInv, FlightInv, Due, OnWire, Goto, client, conn, peer, caller
<1> QED
    BY <1>1, <1>2, <1>3, <1>4, <1>5, <1>6, <1>7, <1>8, <1>9, <1>10, <1>11, <1>12, <1>13,
       <1>14, <1>15, <1>16, <1>17, <1>18, <1>19, <1>20, <1>21 DEF Next, DoStep,
       ReaderStep, Finished

\* The reply that is there is the reply of the caller that waits.
LEMMA MatchKept == TypeInv /\ CallInv /\ FlightInv /\ RepliesMatch /\ [Next]_vars => RepliesMatch'
<1> SUFFICES ASSUME TypeInv, CallInv, FlightInv, RepliesMatch, [Next]_vars PROVE RepliesMatch'
    OBVIOUS
<1> USE ClientAssumption DEF TypeInv, CallInv, FlightInv, Due, RepliesMatch, Goto, client, conn, peer, caller
<1>1. ASSUME NEW c \in Callers, Acquire(c) PROVE RepliesMatch'
    BY <1>1 DEF Acquire, Return
<1>2. ASSUME NEW c \in Callers, Begin(c) PROVE RepliesMatch'
    BY <1>2 DEF Begin, Return
<1>3. ASSUME NEW c \in Callers, Write(c) PROVE RepliesMatch'
    BY <1>3 DEF Write, Return, Fail
<1>4. ASSUME NEW c \in Callers, TakeReply(c) PROVE RepliesMatch'
    BY <1>4 DEF TakeReply
<1>5. ASSUME NEW c \in Callers, WaitCtx(c) PROVE RepliesMatch'
    BY <1>5 DEF WaitCtx, GiveUp, Fail, Return
<1>6. ASSUME NEW c \in Callers, WaitDead(c) PROVE RepliesMatch'
    BY <1>6 DEF WaitDead, Return
<1>7. ASSUME NEW c \in Callers, ResultStop(c) PROVE RepliesMatch'
    BY <1>7 DEF ResultStop
<1>8. ASSUME NEW c \in Callers, Result(c) PROVE RepliesMatch'
    BY <1>8 DEF Result, Return
<1>9. ASSUME NEW c \in Callers, Cancel(c) PROVE RepliesMatch'
    BY <1>9 DEF Cancel
<1>10. ASSUME NEW c \in Callers, TimerStart(c) PROVE RepliesMatch'
    BY <1>10 DEF TimerStart
<1>11. ASSUME NEW c \in Callers, TimerFail(c) PROVE RepliesMatch'
    BY <1>11 DEF TimerFail, Fail
<1>12. CASE ReadReply
    BY <1>12 DEF ReadReply
<1>13. CASE ReadEvent
    BY <1>13 DEF ReadEvent, Room, Fail
<1>14. CASE ReadFail
    BY <1>14 DEF ReadFail, Fail
<1>15. CASE HandOver
    BY <1>15 DEF HandOver
<1>16. CASE TakeEvent
    BY <1>16 DEF TakeEvent
<1>17. CASE Close
    BY <1>17 DEF Close, Fail
<1>18. CASE TorReply
    BY <1>18 DEF TorReply
<1>19. CASE TorEvent
    BY <1>19 DEF TorEvent
<1>20. CASE TorExit
    BY <1>20 DEF TorExit
<1>21. CASE UNCHANGED vars
    BY <1>21 DEF vars
<1> HIDE DEF TypeInv, CallInv, FlightInv, Due, RepliesMatch, Goto, client, conn, peer, caller
<1> QED
    BY <1>1, <1>2, <1>3, <1>4, <1>5, <1>6, <1>7, <1>8, <1>9, <1>10, <1>11, <1>12, <1>13,
       <1>14, <1>15, <1>16, <1>17, <1>18, <1>19, <1>20, <1>21 DEF Next, DoStep,
       ReaderStep, Finished
-----------------------------------------------------------------------------
\* Every step keeps the invariant.
LEMMA StepKeeps == IInv /\ [Next]_vars => IInv'
    BY TypeKept, CallKept, FlightKept, MatchKept DEF IInv

\* The inductive invariant holds.
LEMMA Invariance == Spec => []IInv
    BY InitIInv, StepKeeps, PTL DEF Spec

\* Do never returns the reply to another command (client.go:59), for any number
\* of calls, cancellations and events.
THEOREM RepliesBelong == Spec => []RepliesMatch
<1>1. IInv => RepliesMatch
    BY DEF IInv
<1> QED
    BY <1>1, Invariance, PTL

\* A transmitted command whose reply Do never saw leaves the channel closed
\* (client.go:97-106).
THEOREM UnansweredIsClosed == Spec => []UnansweredCloses
<1>1. IInv => UnansweredCloses
    BY DEF IInv, CallInv, TypeInv, Due, Ended, UnansweredCloses
<1> QED
    BY <1>1, Invariance, PTL

-----------------------------------------------------------------------------
(* The safety half of DoReturns.                                            *)

\* The command of a caller is with Tor, or its reply is on the wire, in the hand of
\* readLoop, or in the channel.
UnderWay(c) ==
    \/ tor # <<>> /\ tor[1] = c
    \/ \E i \in 1..Len(wire) : wire[i] = c
    \/ held = c
    \/ replies # <<>> /\ replies[1] = c

\* Nothing the client does loses the reply a call of Do waits for: while the
\* connection is open, readLoop runs and the command or its reply is under way; and
\* readLoop always finds room for the reply it hands over (client.go:97-110, 112-125).
ReplyIsComing ==
    /\ connOpen => reader # "stopped"
    /\ \A c \in Callers : connOpen /\ pc[c] = "wait" => UnderWay(c)
    /\ reader = "hand" => replies = <<>>

\* Every step moves the command or its reply on, or closes the connection.
LEMMA ComingKept == IInv /\ ReplyIsComing /\ [Next]_vars => ReplyIsComing'
<1> SUFFICES ASSUME IInv, ReplyIsComing, [Next]_vars PROVE ReplyIsComing'
    OBVIOUS
<1>0. TypeInv /\ CallInv /\ FlightInv
    BY DEF IInv
<1>a. (reader = "hand" => replies = <<>>)'
  <2>1. TypeInv' /\ FlightInv'
      BY StepKeeps DEF IInv
  <2> QED
      BY <2>1 DEF TypeInv, FlightInv
<1> DEFINE Rest == /\ connOpen => reader # "stopped"
                   /\ \A c \in Callers : connOpen /\ pc[c] = "wait" => UnderWay(c)
<1>b. Rest
    BY DEF ReplyIsComing
<1>c. ASSUME UNCHANGED <<tor, wire, held, replies, reader>>, connOpen' => connOpen,
             \A c \in Callers : pc'[c] = "wait" => pc[c] = "wait"
      PROVE  Rest'
    BY <1>b, <1>c DEF UnderWay
<1>d. ASSUME ~connOpen' PROVE Rest'
    BY <1>d
<1> SUFFICES Rest'
    BY <1>a DEF ReplyIsComing
<1> HIDE DEF Rest
<1> USE DEF client, conn, peer, caller
<1>1. ASSUME NEW c \in Callers, Acquire(c) \/ Begin(c) PROVE Rest'
    BY <1>0, <1>1, <1>c DEF TypeInv, Acquire, Begin, Return, Goto
<1>2. ASSUME NEW c \in Callers, Write(c) PROVE Rest'
  <2>1. CASE /\ connOpen
             /\ tor' = Append(tor, c)
             /\ sent' = [sent EXCEPT ![c] = TRUE]
             /\ Goto(c, "wait")
             /\ UNCHANGED <<ret, timer, serial, conn>>
    <3>1. \A d \in Callers : pc[d] # "wait"
        BY <1>0, <1>2 DEF CallInv, Write
    <3>2. tor = <<>>
        BY <1>0, <1>2, <2>1 DEF CallInv, FlightInv, Due, Write
    <3>3. tor' # <<>> /\ tor'[1] = c
        BY <2>1, <3>2
    <3>4. \A d \in Callers : pc'[d] = "wait" => d = c
        BY <1>0, <2>1, <3>1 DEF TypeInv, Goto
    <3> QED
        BY <1>2, <1>b, <2>1, <3>3, <3>4 DEF Rest, UnderWay, Write
  <2>2. CASE Fail
      BY <1>d, <2>2 DEF Fail
  <2> QED
      BY <1>2, <2>1, <2>2 DEF Write
<1>3. ASSUME NEW c \in Callers, TakeReply(c) PROVE Rest'
  <2>1. \A d \in Callers : pc'[d] # "wait"
      BY <1>0, <1>3 DEF TypeInv, CallInv, TakeReply, Goto
  <2> QED
      BY <1>3, <1>b, <2>1 DEF Rest, TakeReply
<1>4. ASSUME NEW c \in Callers, WaitCtx(c) \/ TimerFail(c) PROVE Rest'
    BY <1>4, <1>d DEF WaitCtx, GiveUp, TimerFail, Fail
<1>5. ASSUME NEW c \in Callers, WaitDead(c) \/ ResultStop(c) \/ Result(c) PROVE Rest'
    BY <1>0, <1>5, <1>c DEF TypeInv, WaitDead, ResultStop, Result, Return, Goto
<1>6. ASSUME NEW c \in Callers, Cancel(c) \/ TimerStart(c) PROVE Rest'
    BY <1>6, <1>c DEF Cancel, TimerStart
<1>7. CASE ReadReply
  <2>1. wire \in Seq(Callers \cup {Event}) /\ wire # <<>> /\ wire' = Tail(wire) /\ held' = Head(wire) /\ held = Nobody
      BY <1>0, <1>7 DEF TypeInv, ReadReply
  <2>2. UNCHANGED <<tor, replies, pc>>
      BY <1>7 DEF ReadReply
  <2>3. ASSUME NEW c \in Callers, NEW i \in 1..Len(wire), wire[i] = c PROVE UnderWay(c)'
    <3>1. CASE i = 1
        BY <2>1, <2>3, <3>1 DEF UnderWay
    <3>2. CASE i # 1
      <4>1. i - 1 \in 1..Len(wire') /\ wire'[i - 1] = c
          BY <2>1, <2>3, <3>2
      <4> QED
          BY <4>1 DEF UnderWay
    <3> QED
        BY <3>1, <3>2
  <2>4. \A c \in Callers : UnderWay(c) => UnderWay(c)'
      BY <2>1, <2>2, <2>3, ClientAssumption DEF UnderWay
  <2> QED
      BY <1>7, <1>b, <2>4 DEF Rest, ReadReply
<1>8. CASE ReadEvent
  <2>1. CASE connOpen /\ UNCHANGED conn
    <3>1. \A c \in Callers : UnderWay(c) => UnderWay(c)'
      <4>1. wire \in Seq(Callers \cup {Event}) /\ wire # <<>> /\ wire' = Tail(wire) /\ wire[1] = Event
          BY <1>0, <1>8 DEF TypeInv, ReadEvent
      <4>2. UNCHANGED <<tor, replies, held>>
          BY <1>8 DEF ReadEvent
      <4>3. ASSUME NEW c \in Callers, NEW i \in 1..Len(wire), wire[i] = c PROVE UnderWay(c)'
        <5>1. i # 1
            BY <4>1, <4>3, ClientAssumption
        <5>2. i - 1 \in 1..Len(wire') /\ wire'[i - 1] = c
            BY <4>1, <4>3, <5>1
        <5> QED
            BY <5>2 DEF UnderWay
      <4> QED
          BY <4>2, <4>3 DEF UnderWay
    <3>2. UNCHANGED <<reader, pc>>
        BY <1>0, <1>8, <2>1 DEF CallInv, ReadEvent, Fail
    <3> QED
        BY <1>b, <2>1, <3>1, <3>2 DEF Rest
  <2>2. CASE ~connOpen'
      BY <1>d, <2>2
  <2> QED
      BY <1>0, <1>8, <2>1, <2>2 DEF TypeInv, ReadEvent, Fail
<1>9. CASE ReadFail \/ Close
    BY <1>9, <1>d DEF ReadFail, Close, Fail
<1>10. CASE HandOver
  <2>1. CASE replies = <<>> /\ replies' = Append(replies, held) /\ reader' = "read"
    <3>1. held # Nobody /\ replies' # <<>> /\ replies'[1] = held
        BY <1>0, <1>10, <2>1 DEF TypeInv, HandOver
    <3>2. \A c \in Callers : UnderWay(c) => UnderWay(c)'
        BY <1>10, <2>1, <3>1 DEF UnderWay, HandOver
    <3> QED
        BY <1>10, <1>b, <2>1, <3>2 DEF Rest, HandOver
  <2>2. CASE done
      BY <1>0, <1>10, <1>d, <2>2 DEF CallInv, HandOver
  <2> QED
      BY <1>10, <2>1, <2>2 DEF HandOver
<1>11. CASE TakeEvent \/ TorExit \/ UNCHANGED vars
    BY <1>11, <1>c DEF TakeEvent, TorExit, vars
<1>12. CASE TorReply
  <2>1. \A c \in Callers : UnderWay(c) => UnderWay(c)'
    <3>1. Append(wire, Head(tor))[Len(wire) + 1] = tor[1] /\ Len(Append(wire, Head(tor))) = Len(wire) + 1
        BY <1>0, <1>12 DEF TypeInv, TorReply
    <3>2. \A i \in 1..Len(wire) : Append(wire, Head(tor))[i] = wire[i]
        BY <1>0, <1>12 DEF TypeInv, TorReply
    <3> QED
        BY <1>0, <1>12, <3>1, <3>2 DEF TypeInv, UnderWay, TorReply
  <2> QED
      BY <1>12, <1>b, <2>1 DEF Rest, TorReply
<1>13. CASE TorEvent
  <2>1. \A c \in Callers : UnderWay(c) => UnderWay(c)'
      BY <1>0, <1>13 DEF TypeInv, UnderWay, TorEvent
  <2> QED
      BY <1>13, <1>b, <2>1 DEF Rest, TorEvent
<1> QED
    BY <1>1, <1>2, <1>3, <1>4, <1>5, <1>6, <1>7, <1>8, <1>9, <1>10, <1>11, <1>12, <1>13
       DEF Next, DoStep, ReaderStep, Finished

\* While the channel is open no reply is lost, for any number of calls,
\* cancellations and events.
THEOREM RepliesArrive == Spec => []ReplyIsComing
<1>1. Init => ReplyIsComing
    BY DEF Init, ReplyIsComing
<1> QED
    BY <1>1, ComingKept, Invariance, PTL DEF Spec
=============================================================================
