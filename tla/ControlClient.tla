--------------------------- MODULE ControlClient ---------------------------
(***************************************************************************)
(* The control-port client of internal/control/client.go.  Concurrent      *)
(* calls of Do are serialised by a channel of capacity one; a reader       *)
(* goroutine separates replies from asynchronous events; a cancelled       *)
(* context, a failed write or a protocol error closes the connection.      *)
(* Replies carry no identifier: a reply belongs to a command only by       *)
(* position, so the properties are about never losing count.               *)
(***************************************************************************)
EXTENDS Naturals, Sequences

CONSTANTS
    Callers,        \* goroutines calling Do, one command each
    Nobody,         \* serial is free; no reply
    EventCap,       \* capacity of Client.events (64 in the code)
    MaxEvents       \* bound on the events Tor emits

Event == "event"    \* on the wire; a reply is named after its command

ASSUME ClientAssumption ==
    /\ Nobody \notin Callers /\ Event \notin Callers
    /\ EventCap \in Nat \ {0}
    /\ MaxEvents \in Nat

VARIABLES
    pc,             \* position of each caller in Do
    ctxDone,        \* the caller's context has ended (deadline or cancellation)
    timer,          \* its context.AfterFunc: "off", "armed", "started"
    ret, got,       \* how Do returned, and the command whose reply it returned
    serial,         \* the caller holding Client.serial
    connOpen, done, \* Client.conn is open; Client.done is closed
    reader, held,   \* position of readLoop, and the reply it is handing over
    replies,        \* contents of Client.replies (capacity 1)
    events,         \* number of events in Client.events
    torUp, tor,     \* Tor's end is open; commands it has received
    wire,           \* bytes from Tor not yet parsed: replies and events
    emitted,        \* events Tor has emitted
    sent, consumed  \* ghosts: command transmitted; its reply received by Do

client == <<serial, replies, events, reader, held>>
conn == <<connOpen, done>>
peer == <<torUp, tor, wire, emitted>>
caller == <<pc, ctxDone, timer, ret, got, sent, consumed>>
vars == <<caller, client, conn, peer>>

Ended == {"ok", "ctx", "err"}

Init ==
    /\ pc = [c \in Callers |-> "acquire"]
    /\ ctxDone = [c \in Callers |-> FALSE]
    /\ timer = [c \in Callers |-> "off"]
    /\ ret = [c \in Callers |-> "none"]
    /\ got = [c \in Callers |-> Nobody]
    /\ sent = [c \in Callers |-> FALSE]
    /\ consumed = [c \in Callers |-> FALSE]
    /\ serial = Nobody /\ replies = <<>> /\ events = 0
    /\ reader = "read" /\ held = Nobody
    /\ connOpen = TRUE /\ done = FALSE
    /\ torUp = TRUE /\ tor = <<>> /\ wire = <<>> /\ emitted = 0

-----------------------------------------------------------------------------
\* Client.fail, under its sync.Once: close the connection, then close done.
Fail == connOpen' = FALSE /\ done' = TRUE

\* Do returns; the deferred stop disarms the AfterFunc unless it has started,
\* and the deferred receive frees serial.
Return(c, how) ==
    /\ pc' = [pc EXCEPT ![c] = "returned"]
    /\ ret' = [ret EXCEPT ![c] = how]
    /\ timer' = [timer EXCEPT ![c] = IF @ = "armed" THEN "off" ELSE @]
    /\ serial' = IF serial = c THEN Nobody ELSE serial

Goto(c, label) == pc' = [pc EXCEPT ![c] = label]

CancelNever(c) == FALSE /\ UNCHANGED vars

\* The deadline of the context passes or the caller cancels it.
Cancel(c) ==
    /\ pc[c] # "returned"
    /\ ~ctxDone[c]
    /\ ctxDone' = [ctxDone EXCEPT ![c] = TRUE]
    /\ UNCHANGED <<pc, timer, ret, got, sent, consumed, client, conn, peer>>

\* The first select of Do: serial, the context, or a dead channel.
Acquire(c) ==
    /\ pc[c] = "acquire"
    /\ \/ serial = Nobody /\ serial' = c /\ Goto(c, "begin") /\ UNCHANGED <<ret, timer>>
       \/ ctxDone[c] /\ Return(c, "ctx")
       \/ done /\ Return(c, "err")
    /\ UNCHANGED <<ctxDone, got, sent, consumed, replies, events, reader, held, conn, peer>>

\* A context that ended while waiting ends the call before transmission;
\* otherwise the AfterFunc is armed.
Begin(c) ==
    /\ pc[c] = "begin"
    /\ \/ ctxDone[c] /\ Return(c, "ctx")
       \/ /\ ~ctxDone[c]
          /\ timer' = [timer EXCEPT ![c] = "armed"]
          /\ Goto(c, "write")
          /\ UNCHANGED <<ret, serial>>
    /\ UNCHANGED <<ctxDone, got, sent, consumed, replies, events, reader, held, conn, peer>>

\* SetWriteDeadline and the write: a closed connection refuses both; a dead
\* peer or a passed deadline may fail the write.  Every failure calls fail.
Write(c) ==
    /\ pc[c] = "write"
    /\ \/ /\ connOpen
          /\ tor' = Append(tor, c)
          /\ sent' = [sent EXCEPT ![c] = TRUE]
          /\ Goto(c, "wait")
          /\ UNCHANGED <<ret, timer, serial, conn>>
       \/ /\ ~connOpen \/ ctxDone[c] \/ ~torUp
          /\ Fail
          /\ Return(c, "err")
          /\ UNCHANGED <<tor, sent>>
    /\ UNCHANGED <<ctxDone, got, consumed, replies, events, reader, held, torUp, wire, emitted>>

\* The second select: a reply is there (also on the branch of a dead channel).
TakeReply(c) ==
    /\ pc[c] = "wait"
    /\ replies # <<>>
    /\ got' = [got EXCEPT ![c] = Head(replies)]
    /\ replies' = Tail(replies)
    /\ consumed' = [consumed EXCEPT ![c] = TRUE]
    /\ Goto(c, "stop")
    /\ UNCHANGED <<ctxDone, timer, ret, sent, serial, events, reader, held, conn, peer>>

\* The second select: the context ended after transmission.
GiveUpQuietly(c) == UNCHANGED conn
GiveUp(c) == Fail

WaitCtx(c) ==
    /\ pc[c] = "wait"
    /\ ctxDone[c]
    /\ GiveUp(c)
    /\ Return(c, "ctx")
    /\ UNCHANGED <<ctxDone, got, sent, consumed, replies, events, reader, held, peer>>

\* The second select: the channel died and no reply is buffered.
WaitDead(c) ==
    /\ pc[c] = "wait"
    /\ done
    /\ replies = <<>>
    /\ Return(c, "err")
    /\ UNCHANGED <<ctxDone, got, sent, consumed, replies, events, reader, held, conn, peer>>

\* result: first stop the AfterFunc ...
ResultStop(c) ==
    /\ pc[c] = "stop"
    /\ timer' = [timer EXCEPT ![c] = IF @ = "armed" THEN "off" ELSE @]
    /\ Goto(c, "result")
    /\ UNCHANGED <<ctxDone, ret, got, sent, consumed, client, conn, peer>>

\* ... then look at the context, then at the status code.
Result(c) ==
    /\ pc[c] = "result"
    /\ Return(c, IF ctxDone[c] THEN "ctx" ELSE "ok")
    /\ UNCHANGED <<ctxDone, got, sent, consumed, replies, events, reader, held, conn, peer>>

\* The AfterFunc starts in a goroutine of its own and then calls fail.
TimerStart(c) ==
    /\ timer[c] = "armed"
    /\ ctxDone[c]
    /\ timer' = [timer EXCEPT ![c] = "started"]
    /\ UNCHANGED <<pc, ctxDone, ret, got, sent, consumed, client, conn, peer>>

TimerFail(c) ==
    /\ timer[c] = "started"
    /\ timer' = [timer EXCEPT ![c] = "off"]
    /\ Fail
    /\ UNCHANGED <<pc, ctxDone, ret, got, sent, consumed, client, peer>>

\* Client.Close.
Close ==
    /\ ~done
    /\ Fail
    /\ UNCHANGED <<caller, client, peer>>

-----------------------------------------------------------------------------
\* readReply parses the next message; already buffered bytes are parsed even
\* after the connection was closed.  A reply goes to readLoop, an event to the
\* events channel; an event that finds it full ends the connection.
Room == events < EventCap

ReadReply ==
    /\ reader = "read"
    /\ wire # <<>> /\ Head(wire) # Event
    /\ held' = Head(wire)
    /\ reader' = "hand"
    /\ wire' = Tail(wire)
    /\ UNCHANGED <<caller, serial, replies, events, conn, torUp, tor, emitted>>

ReadEvent ==
    /\ reader = "read"
    /\ wire # <<>> /\ Head(wire) = Event
    /\ wire' = Tail(wire)
    /\ \/ /\ Room
          /\ events' = events + 1
          /\ UNCHANGED <<reader, conn>>
       \/ /\ ~Room
          /\ reader' = "stopped"
          /\ Fail
          /\ UNCHANGED events
       \/ /\ done
          /\ reader' = "stopped"
          /\ UNCHANGED <<events, conn>>
    /\ UNCHANGED <<caller, serial, replies, held, torUp, tor, emitted>>

\* EOF, a read on a closed connection, or a malformed or oversized message.
ReadFail ==
    /\ reader = "read"
    /\ ~connOpen \/ ~torUp \/ wire # <<>>
    /\ reader' = "stopped"
    /\ Fail
    /\ UNCHANGED <<caller, serial, replies, events, held, peer>>

\* readLoop hands the reply over, or stops when the channel is dead.
HandOver ==
    /\ reader = "hand"
    /\ \/ /\ replies = <<>>
          /\ replies' = Append(replies, held)
          /\ reader' = "read"
       \/ /\ done
          /\ reader' = "stopped"
          /\ UNCHANGED replies
    /\ held' = Nobody
    /\ UNCHANGED <<caller, serial, events, conn, peer>>

\* Driver.controlEventLoop takes an event.
TakeEvent ==
    /\ events > 0
    /\ events' = events - 1
    /\ UNCHANGED <<caller, serial, replies, reader, held, conn, peer>>

-----------------------------------------------------------------------------
\* Tor answers its commands in order, emits events at any time, or goes away.
TorReply ==
    /\ torUp /\ tor # <<>>
    /\ wire' = Append(wire, Head(tor))
    /\ tor' = Tail(tor)
    /\ UNCHANGED <<caller, client, conn, torUp, emitted>>

TorEvent ==
    /\ torUp /\ emitted < MaxEvents
    /\ wire' = Append(wire, Event)
    /\ emitted' = emitted + 1
    /\ UNCHANGED <<caller, client, conn, torUp, tor>>

TorExit ==
    /\ torUp
    /\ torUp' = FALSE
    /\ UNCHANGED <<caller, client, conn, tor, wire, emitted>>

-----------------------------------------------------------------------------
DoStep(c) ==
    \/ Acquire(c) \/ Begin(c) \/ Write(c)
    \/ TakeReply(c) \/ WaitCtx(c) \/ WaitDead(c) \/ ResultStop(c) \/ Result(c)

ReaderStep == ReadReply \/ ReadEvent \/ ReadFail \/ HandOver

Finished ==
    /\ \A c \in Callers : pc[c] = "returned" /\ timer[c] = "off"
    /\ UNCHANGED vars

Next ==
    \/ \E c \in Callers : DoStep(c) \/ Cancel(c) \/ TimerStart(c) \/ TimerFail(c)
    \/ ReaderStep \/ TakeEvent \/ Close
    \/ TorReply \/ TorEvent \/ TorExit
    \/ Finished

Spec == Init /\ [][Next]_vars

(* Goroutines that can run do; every context handed to Do has a deadline    *)
(* (driver.go:83, 383, 492, 525, 610).  Tor need not answer at all.         *)
FairSpec ==
    /\ Spec
    /\ \A c \in Callers : WF_vars(DoStep(c)) /\ WF_vars(Cancel(c)) /\ WF_vars(TimerStart(c) \/ TimerFail(c))
    /\ WF_vars(ReaderStep)

-----------------------------------------------------------------------------
\* "otherwise a late reply could be mistaken for the next one" (client.go:59):
\* whatever is cancelled, lost or late, Do never returns the reply to another
\* command.
RepliesMatch == \A c \in Callers : consumed[c] => got[c] = c

\* A command that was transmitted and whose reply Do never saw leaves the
\* channel closed, so no caller has to guess at Tor's state while Tor goes on.
UnansweredCloses ==
    \A c \in Callers : (sent[c] /\ ret[c] \in Ended /\ ~consumed[c]) => ~connOpen

\* Every call of Do returns by its deadline, even if Tor never answers.
DoReturns == \A c \in Callers : <>(ret[c] \in Ended)
=============================================================================
