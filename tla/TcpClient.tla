----------------------------- MODULE TcpClient -----------------------------
(***************************************************************************)
(* The chat client of the desktop tool (qt-client/tcpclient.cpp) with the  *)
(* buttons of its window (qt-client/mainwindow.cpp), one QTcpSocket at a   *)
(* time and the single-shot timers, which outlive the connection they were *)
(* started for.                                                            *)
(*                                                                         *)
(* Everything runs on the thread of the window, so a step is one event: a  *)
(* click, a signal of the socket, a timer.  The one handler that can be    *)
(* interrupted is receive(): the slots of frame() run inside it and may    *)
(* connect, disconnect or send (tcpclient.cpp:271), hence rpc.             *)
(***************************************************************************)
EXTENDS Framing, FiniteSetsExt

CONSTANTS
    Payloads,       \* payloads a user sends, as sequences of words
    Replies,        \* streams a server may write
    MaxQueuedBytes, \* TcpClient::MaxQueuedBytes, in words
    ReadChunkSize,  \* ReadChunkSize, in words
    MaxConnects,    \* bound: calls of connectTo()
    MaxSends        \* bound: frames sent in one connection

ASSUME TcpAssumption ==
    /\ {MaxQueuedBytes, MaxConnects, MaxSends} \subseteq Nat
    /\ ReadChunkSize \in Nat \ {0}
    /\ Payloads \union Replies \subseteq Seq(Nat)
    /\ \A p \in Payloads : Len(p) <= MaxPayload

VARIABLES
    socket,         \* none, or the state of socket_
    session,        \* session_
    connecting,     \* connecting_
    closing,        \* closing_
    input,          \* input_
    splitFrame,     \* splitFrame_
    splitPending,   \* splitPending_
    splitToken,     \* splitToken_
    timers,         \* the single-shot timers that have not fired
    queue,          \* what the socket still has to send
    arriving,       \* what the server wrote and receive() has not read
    rpc,            \* receive(): idle, loop, slot
    receiving,      \* the session it captured
    shown,          \* the last stateChanged()
    sendEnabled,    \* tcpSend_->isEnabled()
    written,        \* history: what this connection's socket accepted
    reported,       \* history: frames reported as queued in this connection
    connects,       \* calls of connectTo()
    reply,          \* the stream the server writes in this connection
    received        \* history: frames reported as received in this connection

flags == <<connecting, closing>>
splitVars == <<splitFrame, splitPending, splitToken>>
reader == <<rpc, receiving>>
ui == <<shown, sendEnabled>>
past == <<written, reported, received>>
history == <<connects, reply>>
vars == <<socket, session, flags, input, splitVars, timers, queue, arriving,
          reader, ui, past, history>>

NoFrame == <<>>

Init ==
    /\ socket = "none" /\ session = 0
    /\ connecting = FALSE /\ closing = FALSE
    /\ input = <<>>
    /\ splitFrame = NoFrame /\ splitPending = FALSE /\ splitToken = 0
    /\ timers = {}
    /\ queue = <<>> /\ arriving = <<>>
    /\ rpc = "idle" /\ receiving = 0
    /\ shown = "idle" /\ sendEnabled = FALSE
    /\ written = <<>> /\ reported = <<>> /\ received = <<>>
    /\ connects = 0 /\ reply = <<>>

Connected == socket = "connected" /\ ~closing

\* The window's thread is free for an event, or in a slot of frame().
Event == rpc = "idle"
Call == rpc \in {"idle", "slot"}

----------------------------------------------------------------------------
(* releaseSocket() and cancelSplit() *)

\* Mutant: the split send of the old connection goes on.
CancelSplitKeeps == UNCHANGED splitVars

CancelSplit ==
    /\ splitToken' = splitToken + 1
    /\ splitFrame' = NoFrame
    /\ splitPending' = FALSE

\* Mutant: the bytes of the frame that was being received are kept.
ReleaseKeepsInput ==
    /\ session' = session + 1
    /\ closing' = FALSE
    /\ UNCHANGED input
    /\ queue' = <<>> /\ arriving' = <<>>
    /\ CancelSplit

ReleaseSocket ==
    /\ session' = session + 1
    /\ closing' = FALSE
    /\ input' = <<>>
    /\ queue' = <<>> /\ arriving' = <<>>
    /\ CancelSplit

Disconnected ==
    /\ ReleaseSocket
    /\ socket' = "none" /\ connecting' = FALSE
    /\ shown' = "idle" /\ sendEnabled' = FALSE

----------------------------------------------------------------------------
(* connectTo() and the signals of the socket *)

ConnectTo ==
    /\ Call
    /\ connects < MaxConnects
    /\ connects' = connects + 1
    /\ ReleaseSocket
    /\ socket' = "connecting"
    /\ connecting' = TRUE
    /\ timers' = timers \union {[kind |-> "connect", session |-> session', token |-> 0]}
    /\ shown' = "connecting" /\ sendEnabled' = FALSE
    /\ written' = <<>> /\ reported' = <<>> /\ received' = <<>>
    /\ reply' \in Replies
    /\ UNCHANGED reader

Established ==
    /\ Event
    /\ socket = "connecting"
    /\ socket' = "connected"
    /\ connecting' = FALSE
    /\ shown' = "connected" /\ sendEnabled' = ~splitPending
    /\ UNCHANGED <<session, closing, input, splitVars, timers, queue, arriving,
                   reader, past, history>>

\* errorOccurred, or disconnected: the server refuses, resets or closes.
SocketEnds ==
    /\ Event
    /\ socket # "none"
    /\ Disconnected
    /\ UNCHANGED <<timers, reader, past, history>>

\* The network takes the next bytes; after disconnectFromHost() the socket
\* closes when it has taken the last.
Drain ==
    /\ Event
    /\ socket \in {"connected", "closing"}
    /\ queue # <<>>
    /\ IF socket = "closing" /\ Len(queue) = 1
       THEN Disconnected
       ELSE /\ queue' = Tail(queue)
            /\ UNCHANGED <<socket, session, flags, input, splitVars, arriving, ui>>
    /\ UNCHANGED <<timers, reader, past, history>>

ServerWrites ==
    /\ Event
    /\ socket \in {"connected", "closing"}
    /\ LET done == Len(FlattenSeq(received)) + Len(input) + Len(arriving)
       IN  /\ done < Len(reply)
           /\ \E n \in done + 1 .. Len(reply) :
                 arriving' = arriving \o SubSeq(reply, done + 1, n)
    /\ UNCHANGED <<socket, session, flags, input, splitVars, timers, queue,
                   reader, ui, past, history>>

----------------------------------------------------------------------------
(* disconnectFrom() *)

\* With nothing to send disconnectFromHost() emits disconnected() before it
\* returns; the timer is started either way, for the session captured before.
DisconnectFrom ==
    /\ Call
    /\ socket # "none" /\ ~closing
    /\ IF socket = "connecting"
       THEN Disconnected /\ UNCHANGED timers
       ELSE /\ timers' = timers
                  \union {[kind |-> "disconnect", session |-> session, token |-> 0]}
            /\ IF queue = <<>>
               THEN Disconnected
               ELSE /\ socket' = "closing"
                    /\ closing' = TRUE /\ connecting' = FALSE
                    /\ CancelSplit
                    /\ shown' = "closing" /\ sendEnabled' = FALSE
                    /\ UNCHANGED <<session, input, queue, arriving>>
    /\ UNCHANGED <<reader, past, history>>

----------------------------------------------------------------------------
(* sendFrame() *)

Accept(words) ==
    /\ queue' = queue \o words
    /\ written' = written \o words

\* write() takes less than it was given.
AcceptPart(words) ==
    /\ \E n \in 0 .. Len(words) - 1 : written' = written \o SubSeq(words, 1, n)
    /\ Disconnected

Fits(words) == Len(queue) + Len(words) <= MaxQueuedBytes

Types == {1}
Frames == {Pack(t, p) : t \in Types, p \in Payloads}

FirstHalf(raw) == SubSeq(raw, 1, Len(raw) \div 2)
SecondHalf(raw) == SubSeq(raw, Len(raw) \div 2 + 1, Len(raw))

\* Mutant: a second send while the first waits for its other half.
MaySendAlways(copies) ==
    /\ Call
    /\ Connected
    /\ Len(reported) + copies <= MaxSends

MaySend(copies) ==
    /\ Call
    /\ Connected
    /\ ~splitPending
    /\ Len(reported) + copies <= MaxSends

SendAtOnce(raw, copies) ==
    /\ MaySend(copies)
    /\ LET words == FlattenSeq([k \in 1 .. copies |-> raw])
       IN  /\ Fits(words)
           /\ \/ /\ Accept(words)
                 /\ reported' = reported \o [k \in 1 .. copies |-> raw]
                 /\ UNCHANGED <<socket, session, flags, input, splitVars, arriving, ui>>
              \/ AcceptPart(words) /\ UNCHANGED reported
    /\ UNCHANGED <<timers, reader, history, received>>

SendSplit(raw) ==
    /\ MaySend(1)
    /\ Fits(raw)
    /\ \/ /\ Accept(FirstHalf(raw))
          /\ splitFrame' = raw
          /\ splitPending' = TRUE
          /\ splitToken' = splitToken + 1
          /\ timers' = timers \union
                {[kind |-> "split", session |-> session, token |-> splitToken']}
          /\ sendEnabled' = FALSE
          /\ UNCHANGED <<socket, session, flags, input, arriving, shown>>
       \/ AcceptPart(FirstHalf(raw)) /\ UNCHANGED timers
    /\ UNCHANGED <<reader, reported, history, received>>

----------------------------------------------------------------------------
(* Timers *)

Fires(t) == Event /\ t \in timers /\ timers' = timers \ {t}

Stale ==
    UNCHANGED <<socket, session, flags, input, splitVars, queue, arriving, ui, past>>

ConnectTimeout(t) ==
    /\ t.kind = "connect"
    /\ Fires(t)
    /\ IF t.session = session /\ connecting
       THEN Disconnected /\ UNCHANGED past
       ELSE Stale
    /\ UNCHANGED <<reader, history>>

DisconnectTimeout(t) ==
    /\ t.kind = "disconnect"
    /\ Fires(t)
    /\ IF t.session = session /\ closing
       THEN Disconnected /\ UNCHANGED past
       ELSE Stale
    /\ UNCHANGED <<reader, history>>

\* Mutant: the timer carries the token of before sendFrame() increased it.
CurrentNever(t) ==
    t.session = session /\ t.token - 1 = splitToken /\ splitPending /\ Connected

Current(t) ==
    t.session = session /\ t.token = splitToken /\ splitPending /\ Connected

SplitTimeout(t) ==
    /\ t.kind = "split"
    /\ Fires(t)
    /\ LET raw == splitFrame IN
       IF ~Current(t) THEN Stale
       ELSE
            \/ /\ Fits(SecondHalf(raw))
               /\ Accept(SecondHalf(raw))
               /\ CancelSplit
               /\ sendEnabled' = TRUE
               /\ reported' = Append(reported, raw)
               /\ UNCHANGED <<socket, session, flags, input, arriving, shown, received>>
            \/ /\ Fits(SecondHalf(raw))
               /\ AcceptPart(SecondHalf(raw))
               /\ UNCHANGED <<reported, received>>
            \/ /\ ~Fits(SecondHalf(raw))
               /\ CancelSplit
               /\ sendEnabled' = TRUE
               /\ UNCHANGED <<socket, session, flags, input, queue, arriving, shown, past>>
    /\ UNCHANGED <<reader, history>>

----------------------------------------------------------------------------
(* receive() *)

Receive ==
    /\ Event
    /\ arriving # <<>> /\ socket # "none"
    /\ rpc' = "loop" /\ receiving' = session
    /\ UNCHANGED <<socket, session, flags, input, splitVars, timers, queue,
                   arriving, ui, past, history>>

Here == receiving = session /\ socket # "none"

\* The outer loop reads what fits.
ReadSocket ==
    /\ rpc = "loop" /\ Here
    /\ Take(input).kind = "more"
    /\ arriving # <<>>
    /\ LET capacity == MaxFrameSize - Len(input)
           n == Min({capacity, ReadChunkSize, Len(arriving)})
       IN  IF capacity <= 0
           THEN Disconnected
           ELSE /\ input' = input \o SubSeq(arriving, 1, n)
                /\ arriving' = SubSeq(arriving, n + 1, Len(arriving))
                /\ UNCHANGED <<socket, session, flags, splitVars, queue, ui>>
    /\ UNCHANGED <<timers, reader, past, history>>

TakeFrame ==
    /\ rpc = "loop" /\ Here
    /\ LET t == Take(input)
       IN  /\ t.kind = "frame"
           /\ input' = t.rest
           /\ received' = Append(received, t.frame)
    /\ rpc' = "slot"
    /\ UNCHANGED <<socket, session, flags, splitVars, timers, queue, arriving,
                   receiving, ui, written, reported, history>>

SlotReturns ==
    /\ rpc = "slot"
    /\ rpc' = "loop"
    /\ UNCHANGED <<socket, session, flags, input, splitVars, timers, queue,
                   arriving, receiving, ui, past, history>>

ProtocolError ==
    /\ rpc = "loop" /\ Here
    /\ Take(input).kind = "error"
    /\ Disconnected
    /\ rpc' = "idle"
    /\ UNCHANGED <<timers, receiving, past, history>>

Return ==
    /\ rpc = "loop"
    /\ Here => Take(input).kind = "more" /\ arriving = <<>>
    /\ rpc' = "idle"
    /\ UNCHANGED <<socket, session, flags, input, splitVars, timers, queue,
                   arriving, receiving, ui, past, history>>

----------------------------------------------------------------------------
Timeout(t) == ConnectTimeout(t) \/ DisconnectTimeout(t) \/ SplitTimeout(t)
Reading == ReadSocket \/ TakeFrame \/ SlotReturns \/ ProtocolError \/ Return

\* Everything but what the server sees: a new socket, and words on their way.
Local ==
    \/ DisconnectFrom
    \/ \E raw \in Frames : SendAtOnce(raw, 1) \/ SendAtOnce(raw, 2) \/ SendSplit(raw)
    \/ Established \/ SocketEnds \/ ServerWrites
    \/ \E t \in timers : Timeout(t)
    \/ Receive \/ Reading

Next == ConnectTo \/ Drain \/ Local

Spec == Init /\ [][Next]_vars

\* The event loop delivers every timer and goes on reading; nothing is asked
\* of the server, the network or the user.
FairSpec ==
    /\ Spec
    /\ WF_vars(\E t \in timers : Timeout(t))
    /\ WF_vars(Reading)

----------------------------------------------------------------------------
(* Properties *)

\* What a connection carries is the reported frames, whole and in order, and
\* the first half of a frame only while its second half is still to be written
\* or when the connection is over: no half frame stays in front of a later one,
\* whichever timer, click or failed write comes in between
\* (tcpclient.cpp:160-175 and 191-246).
StreamAligned ==
    LET behind == Behind(reported, written)
    IN  /\ Reads(reported, written)
        /\ behind # <<>> /\ Connected
           => splitPending /\ behind = FirstHalf(splitFrame)

\* What was read from the server is the received frames and input_, and input_
\* is the beginning of one frame that the buffer has room for: no frame is lost,
\* invented or taken over from an earlier connection
\* (tcpclient.cpp:49-63, 87-90 and 248-281).
ReceivedExactly ==
    socket # "none" =>
        /\ Reads(received, reply)
        /\ IsPrefix(FlattenSeq(received) \o input \o arriving, reply)
        /\ rpc = "idle" => /\ MayBeFrame(input)
                           /\ ~StartsWithFrame(input)
                           /\ Len(input) < MaxFrameSize

\* Between two events the window shows the state of the connection, and the
\* send button is enabled exactly when sendFrame() would take a frame
\* (mainwindow.cpp:889-904, tcpclient.cpp:40-63 and 121-152).
WindowTruthful ==
    Event => /\ shown = CASE socket = "none" -> "idle"
                          [] OTHER -> socket
             /\ sendEnabled = (Connected /\ ~splitPending)
             /\ connecting = (socket = "connecting")
             /\ closing = (socket = "closing")

\* The client always gets out of its waits: for the connection, for the second
\* half of a split send, for the queue of a connection being closed
\* (tcpclient.cpp:115-118, 143-151 and 226-237).
SessionSettles == []<>~(connecting \/ splitPending \/ closing)
============================================================================
