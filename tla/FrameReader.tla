---------------------------- MODULE FrameReader ----------------------------
(***************************************************************************)
(* ChatServer::onRead (src/chat_server.cpp) as the reader of a stream: the *)
(* peer writes any words and may close its side; the kernel hands over any *)
(* part of them at each readable event.  What the frames make the server   *)
(* do, answers included, is the business of ChatServer and ChatSend: here  *)
(* a frame is handled, and handling it may close the connection.           *)
(***************************************************************************)
EXTENDS Framing

CONSTANTS
    Words,          \* the words a peer writes
    MaxWords        \* bound: words written

VARIABLES
    sent,           \* history: what the peer has written
    kernel,         \* the part the server has not read
    fin,            \* the peer has closed its side
    in,             \* Connection::in
    peerClosedWrite,\* Connection::peerClosedWrite
    rpc,            \* onRead: idle, loop; closed: it reads no more, though
                    \*   out may still be flushed first (closeAfterFlush)
    handled,        \* history: frames given to handleFrame
    cause           \* why the connection was closed

vars == <<sent, kernel, fin, in, peerClosedWrite, rpc, handled, cause>>

Init ==
    /\ sent = <<>> /\ kernel = <<>> /\ handled = <<>>
    /\ fin = FALSE /\ peerClosedWrite = FALSE
    /\ in = EmptyBuffer
    /\ rpc = "idle"
    /\ cause = "none"

----------------------------------------------------------------------------
PeerWrites(w) ==
    /\ ~fin /\ rpc # "closed"
    /\ Len(sent) < MaxWords
    /\ sent' = Append(sent, w)
    /\ kernel' = Append(kernel, w)
    /\ UNCHANGED <<fin, in, peerClosedWrite, rpc, handled, cause>>

PeerCloses ==
    /\ ~fin /\ rpc # "closed"
    /\ fin' = TRUE
    /\ UNCHANGED <<sent, kernel, in, peerClosedWrite, rpc, handled, cause>>

Close(why) == rpc' = "closed" /\ cause' = why

\* Mutant: an end of stream is an error, as it was before lesson 7.
OnReadEndIsError ==
    /\ rpc = "idle"
    /\ kernel # <<>> \/ fin
    /\ in' = BufferAppend(in, kernel)
    /\ kernel' = <<>>
    /\ peerClosedWrite' = fin
    /\ IF fin THEN Close("end") ELSE rpc' = "loop" /\ UNCHANGED cause
    /\ UNCHANGED <<sent, fin, handled>>

\* readFd: to EAGAIN, or to the end of the stream.
OnRead ==
    /\ rpc = "idle"
    /\ kernel # <<>> \/ fin
    /\ in' = BufferAppend(in, kernel)
    /\ kernel' = <<>>
    /\ peerClosedWrite' = fin
    /\ rpc' = "loop"
    /\ UNCHANGED <<sent, fin, handled, cause>>

OnReadFails ==
    /\ rpc = "idle"
    /\ in' = BufferAppend(in, kernel)
    /\ kernel' = <<>>
    /\ Close("reset")
    /\ UNCHANGED <<sent, fin, peerClosedWrite, handled>>

TakeFrame ==
    /\ rpc = "loop"
    /\ LET t == TakeFromBuffer(in)
       IN  /\ t.kind = "frame"
           /\ in' = t.rest
           /\ handled' = Append(handled, t.frame)
    /\ \/ UNCHANGED <<rpc, cause>>
       \/ Close("handler")
    /\ UNCHANGED <<sent, kernel, fin, peerClosedWrite>>

BadFrame ==
    /\ rpc = "loop"
    /\ LET t == TakeFromBuffer(in)
       IN  /\ t.kind = "error"
           /\ in' = t.rest
    /\ Close("protocol")
    /\ UNCHANGED <<sent, kernel, fin, peerClosedWrite, handled>>

\* The loop ends with less than a frame in the buffer.
LoopEnds ==
    /\ rpc = "loop"
    /\ TakeFromBuffer(in).kind = "more"
    /\ IF peerClosedWrite THEN Close("end") ELSE rpc' = "idle" /\ UNCHANGED cause
    /\ UNCHANGED <<sent, kernel, fin, in, peerClosedWrite, handled>>

Reading == OnRead \/ OnReadFails \/ TakeFrame \/ BadFrame \/ LoopEnds

Next ==
    \/ \E w \in Words : PeerWrites(w)
    \/ PeerCloses
    \/ Reading

Spec == Init /\ [][Next]_vars

----------------------------------------------------------------------------
(* Properties *)

Arrived == SubSeq(sent, 1, Len(sent) - Len(kernel))

\* However the stream is cut, the server handles the frames the stream means,
\* in order and with nothing added; between two events no complete frame waits
\* in the buffer; at the end of the stream every complete frame was handled;
\* a connection is closed for its protocol only when no frame could follow
\* (chat_server.cpp:647-752, Buffer.hpp:25-90).
EveryFrameHandled ==
    /\ Reads(handled, Arrived)
    /\ rpc = "idle" => Behind(handled, Arrived) = Peek(in)
    /\ rpc = "idle" \/ cause = "end" => ~StartsWithFrame(Behind(handled, Arrived))
    /\ cause = "protocol" => ~MayBeFrame(Behind(handled, Arrived))
============================================================================
