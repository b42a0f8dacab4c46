----------------------------- MODULE Endpoints -----------------------------
(***************************************************************************)
(* The two ends of a chat connection.  The bytes of one end reach the      *)
(* other cut anywhere, and neither end can know which program is at the    *)
(* other: so each end is checked alone against every stream of words it    *)
(* may be sent (end is "client" or "server"), and then the server against  *)
(* this client (end is "both"): what the socket hands to the network is    *)
(* what the server's Connection for that socket is sent.                   *)
(***************************************************************************)
EXTENDS TcpClient

CONSTANTS
    Words,          \* the words a peer of the server writes
    MaxWords,       \* bound: words written
    SessionReplies  \* bound: the replies when both ends run

ASSUME EndpointsAssumption == Words \subseteq Nat /\ MaxWords \in Nat

VARIABLES
    end,            \* client, server, both
    sent, kernel, fin, in, peerClosedWrite, serverPc, handled, cause

server == <<sent, kernel, fin, in, peerClosedWrite, serverPc, handled, cause>>

Server == INSTANCE FrameReader WITH rpc <- serverPc

EndsInit == Init /\ Server!Init /\ end \in {"client", "server", "both"}

ClientStep == end = "client" /\ Next /\ UNCHANGED <<end, server>>
ServerStep == end = "server" /\ Server!Next /\ UNCHANGED <<end, vars>>

----------------------------------------------------------------------------
(* The server of this client *)

\* The new socket has a Connection of its own; the one before is followed no
\* further.
NewConnection ==
    /\ sent' = <<>> /\ kernel' = <<>> /\ handled' = <<>>
    /\ fin' = FALSE /\ peerClosedWrite' = FALSE
    /\ in' = EmptyBuffer
    /\ serverPc' = "idle"
    /\ cause' = "none"

\* The network takes a word of the socket's queue; a server that has closed the
\* connection drops it.
Transmits ==
    IF serverPc = "closed" THEN UNCHANGED server ELSE Server!PeerWrites(Head(queue))

SessionStep ==
    /\ end = "both"
    /\ UNCHANGED end
    /\ \/ ConnectTo /\ reply' \in SessionReplies /\ NewConnection
       \/ Drain /\ Transmits
       \/ Local /\ UNCHANGED server
       \/ Server!Reading /\ UNCHANGED vars
       \/ socket = "none" /\ Server!PeerCloses /\ UNCHANGED vars

----------------------------------------------------------------------------
EndsNext == ClientStep \/ ServerStep \/ SessionStep

EndsSpec == EndsInit /\ [][EndsNext]_<<vars, end, server>>

FairEndsSpec ==
    /\ EndsSpec
    /\ WF_vars(\E t \in timers : Timeout(t))
    /\ WF_vars(Reading)

----------------------------------------------------------------------------
(* Properties *)

\* What sendFrame() reports as queued is what the server handles, frame by frame
\* and in order; a frame that the client could not queue, or only its first
\* half, is never handled; a server that has read all that a settled client
\* sent has handled every reported frame; and the server never refuses this
\* client, whenever it gives up a split send, disconnects or connects anew
\* (tcpclient.cpp:49-63 and 154-246, chat_server.cpp:647-752).
HandledAsReported ==
    end = "both" =>
        /\ cause # "protocol"
        /\ IsPrefix(handled, reported)
        /\ /\ socket \in {"connected", "closing"} /\ queue = <<>>
           /\ serverPc = "idle" /\ kernel = <<>>
           => handled = reported

\* EveryFrameHandled of FrameReader, whatever the stream
\* (chat_server.cpp:647-752), and for the stream of this client that the
\* handled frames are the reported ones.
EveryFrameHandled == Server!EveryFrameHandled /\ HandledAsReported
============================================================================
