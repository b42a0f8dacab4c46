----------------------------- MODULE ChatSend -----------------------------
(***************************************************************************)
(* Output of the chat server (src/chat_server.cpp: sendFrame, flush,       *)
(* onWrite and the half close of onRead) with the two epoll instances it   *)
(* touches: that of the sub Reactor that owns the connections and that of  *)
(* the main Reactor, with which flush registers EPOLLOUT.                  *)
(*                                                                         *)
(* A step is one callback, one batch of adoptions, one epoll_wait, or a    *)
(* step of a peer.  Two callbacks of one connection on the two threads are *)
(* a data race in the program; the model lets them take turns, one outcome *)
(* of many, and what it says of a connection in foreign holds of that      *)
(* outcome only.  One frame is the unit of output.                         *)
(***************************************************************************)
EXTENDS Naturals, Sequences, FiniteSets, FiniteSetsExt

CONSTANTS
    MaxConns,       \* bound: connections ever accepted
    MaxFd,          \* bound: descriptors the kernel may hand out
    MaxFrames,      \* bound: frames each client sends
    Cap             \* frames the kernel's send buffer takes

ASSUME ConstantsAssumption ==
    /\ {MaxConns, MaxFd, MaxFrames} \subseteq Nat
    /\ Cap \in Nat \ {0}

Conns == 1 .. MaxConns
Fds   == 1 .. MaxFd
NoFd   == 0
NoConn == 0
Threads == {"main", "sub"}
Unset == [conn |-> NoConn, events |-> {}]

VARIABLES
    accepted,       \* accept() calls so far
    adopting,       \* connections whose adoption is queued on the sub loop
    cstate,         \* new, accepted, live, closed (in pendingReap), freed
    fdOf,           \* the descriptor of an open connection
    events,         \* Channel::events_
    out,            \* frames in Connection::out
    closeAfterFlush,\* connections with closeAfterFlush
    channels,       \* Poller::channels_ of each thread's loop: fd -> Channel
    epoll,          \* the kernel's interest list of each loop: fd -> entry
    batch,          \* callbacks of each thread's batch still to be dispatched
    phase,          \* where the sub loop's iteration is
    inq,            \* frames in the kernel's receive buffer, or not yet sent
    fin,            \* "open", "fin": the peer closed its direction, "half":
                    \*   the same with a frame cut short, "reset"
    kbuf,           \* frames in the kernel's send buffer
    sent,           \* history: frames the kernel took
    asked,          \* history: frames the peer sent that have an answer
    reason,         \* history: why a connection was closed
    foreign         \* history: connections the main thread ran a callback of

tableVars == <<channels, epoll>>
sockVars  == <<inq, fin, asked>>
connVars  == <<cstate, fdOf, events, out, closeAfterFlush, kbuf, sent, reason>>
vars == <<accepted, adopting, batch, phase, foreign, tableVars, sockVars,
          connVars>>

Open(c) == cstate[c] \in {"accepted", "live"}

Init ==
    /\ accepted = 0
    /\ adopting = {}
    /\ cstate = [c \in Conns |-> "new"]
    /\ fdOf = [c \in Conns |-> NoFd]
    /\ events = [c \in Conns |-> {}]
    /\ out = [c \in Conns |-> 0]
    /\ closeAfterFlush = {}
    /\ channels = [t \in Threads |-> [f \in Fds |-> NoConn]]
    /\ epoll = [t \in Threads |-> [f \in Fds |-> Unset]]
    /\ batch = [t \in Threads |-> {}]
    /\ phase = "poll"
    /\ inq = [c \in Conns |-> <<>>]
    /\ fin = [c \in Conns |-> "open"]
    /\ kbuf = [c \in Conns |-> 0]
    /\ sent = [c \in Conns |-> 0]
    /\ asked = [c \in Conns |-> 0]
    /\ reason = [c \in Conns |-> "none"]
    /\ foreign = {}

----------------------------------------------------------------------------
(* The peers *)

\* A frame that is answered by one frame to its sender ("ask": a Login, a Say
\* to nobody), or one the protocol does not allow ("bad").
PeerSends(c, frame) ==
    /\ Open(c)
    /\ fin[c] = "open"
    /\ asked[c] < MaxFrames
    /\ asked' = [asked EXCEPT ![c] = @ + 1]
    /\ inq' = [inq EXCEPT ![c] = Append(@, frame)]
    /\ UNCHANGED <<accepted, adopting, batch, phase, foreign, tableVars, fin,
                   connVars>>

PeerEnds(c, how) ==
    /\ Open(c)
    /\ \/ fin[c] = "open"
       \/ how = "reset" /\ fin[c] # "reset"
    /\ fin' = [fin EXCEPT ![c] = how]
    /\ UNCHANGED <<accepted, adopting, batch, phase, foreign, tableVars, inq,
                   asked, connVars>>

PeerReads(c) ==
    /\ kbuf[c] > 0
    /\ kbuf' = [kbuf EXCEPT ![c] = @ - 1]
    /\ UNCHANGED <<accepted, adopting, batch, phase, foreign, tableVars,
                   sockVars, cstate, fdOf, events, out, closeAfterFlush, sent,
                   reason>>

----------------------------------------------------------------------------
(* Accept and adoption *)

UsedFds == {fdOf[c] : c \in {d \in Conns : Open(d)}}

OnAccept ==
    /\ accepted < MaxConns
    /\ \E f \in Fds \ UsedFds :
         /\ \A g \in Fds \ UsedFds : f <= g
         /\ fdOf' = [fdOf EXCEPT ![accepted + 1] = f]
    /\ accepted' = accepted + 1
    /\ adopting' = adopting \union {accepted + 1}
    /\ cstate' = [cstate EXCEPT ![accepted + 1] = "accepted"]
    /\ UNCHANGED <<batch, phase, foreign, tableVars, sockVars, events, out,
                   closeAfterFlush, kbuf, sent, reason>>

\* Poller::updateChannel succeeds: an EPOLL_CTL_ADD of a descriptor the list
\* does not have, or an EPOLL_CTL_MOD of one it has; the choice between the two
\* is made from channels_.
UpdateSucceeds(t, f) == (channels[t][f] = NoConn) <=> (epoll[t][f] = Unset)

\* adoptConnection of everything queued; the sub loop's own tasks.
Adopt ==
    /\ phase = "tasks"
    /\ cstate' = [c \in Conns |-> IF c \in adopting THEN "live" ELSE cstate[c]]
    /\ events' = [c \in Conns |-> IF c \in adopting THEN {"in"} ELSE events[c]]
    /\ LET New == {c \in adopting : UpdateSucceeds("sub", fdOf[c])}
           Newcomer(f) == {c \in New : fdOf[c] = f}
       IN  /\ channels' = [channels EXCEPT !["sub"] = [f \in Fds |->
                IF Newcomer(f) = {} THEN @[f] ELSE Min(Newcomer(f))]]
           /\ epoll' = [epoll EXCEPT !["sub"] = [f \in Fds |->
                IF Newcomer(f) = {} THEN @[f]
                ELSE [conn |-> Min(Newcomer(f)), events |-> {"in"}]]]
    /\ adopting' = {}
    /\ phase' = "safe"
    /\ UNCHANGED <<accepted, batch, foreign, sockVars, fdOf, out,
                   closeAfterFlush, kbuf, sent, reason>>

----------------------------------------------------------------------------
(* Callbacks of a connection, on either thread *)

\* What closeConn leaves in the sub loop's channels_, and in an interest list:
\* removeChannel takes the descriptor out of its owner's, close() out of both.
ChannelAfterClose(f) == NoConn
EntryKept(t, f) == epoll[t][f]              \* Mutant: no close()
EntryAfterClose(t, f) == Unset

\* Connection c has q frames in out; n of them go to the kernel, what is left
\* asks for EPOLLOUT, from the main loop's epoll, and if why is not "none" the
\* connection is closed (flush, then closeConn).
Settle(c, q, n, evs, why) ==
    LET f       == fdOf[c]
        updated == evs # events[c] /\ UpdateSucceeds("main", f)
        closed  == why # "none"
    IN  /\ out' = [out EXCEPT ![c] = q - n]
        /\ kbuf' = [kbuf EXCEPT ![c] = @ + n]
        /\ sent' = [sent EXCEPT ![c] = @ + n]
        /\ events' = [events EXCEPT ![c] = evs]
        /\ channels' = [channels EXCEPT
             !["main"][f] = IF updated THEN c ELSE @,
             !["sub"][f] = IF closed THEN ChannelAfterClose(f) ELSE @]
        /\ epoll' = [epoll EXCEPT
             !["main"][f] = IF closed THEN EntryAfterClose("main", f)
                            ELSE IF updated THEN [conn |-> c, events |-> evs]
                            ELSE @,
             !["sub"][f] = IF closed THEN EntryAfterClose("sub", f) ELSE @]
        /\ cstate' = [cstate EXCEPT ![c] = IF closed THEN "closed" ELSE @]
        /\ fdOf' = [fdOf EXCEPT ![c] = IF closed THEN NoFd ELSE @]
        /\ reason' = [reason EXCEPT ![c] = why]

Close(c, why) ==
    Settle(c, out[c], 0, events[c], why) /\ UNCHANGED closeAfterFlush

\* flush with q frames in out: the kernel takes what it has room for, and
\* EPOLLOUT is wanted exactly while frames are left.
Taken(c, q) == Min({q, Cap - kbuf[c]})
WantedForever(c, q) ==                              \* Mutant: no disableWriting
    IF Taken(c, q) < q THEN events[c] \union {"out"} ELSE events[c]
WantedNever(c, q) == events[c] \ {"out"}            \* Mutant: no enableWriting
Wanted(c, q) == IF Taken(c, q) < q THEN events[c] \union {"out"}
                ELSE events[c] \ {"out"}
Flush(c, q, why) == Settle(c, q, Taken(c, q), Wanted(c, q), why)

\* Of the frames of one onRead those up to the first bad one are handled.
AllGood(c) == \A k \in DOMAIN inq[c] : inq[c][k] # "bad"
FirstBad(c, k) == inq[c][k] = "bad" /\ \A j \in 1 .. k - 1 : inq[c][j] # "bad"

\* A read error: nothing is handled.
ReadFails(c) ==
    /\ fin[c] = "reset"
    /\ Close(c, "error")
    /\ UNCHANGED inq

\* Nothing to read: the other thread has read it.
ReadNothing(c) ==
    /\ fin[c] = "open"
    /\ inq[c] = <<>>
    /\ UNCHANGED <<connVars, tableVars, inq>>

\* A frame the protocol does not allow: a fatal Error is queued, flushed as far
\* as it goes, and the connection closed (sendError, fatal).
ReadBad(c) ==
    /\ fin[c] # "reset"
    /\ \E k \in DOMAIN inq[c] : FirstBad(c, k) /\ Flush(c, out[c] + k, "fatal")
    /\ inq' = [inq EXCEPT ![c] = <<>>]
    /\ UNCHANGED closeAfterFlush

ReadFrames(c) ==
    /\ fin[c] = "open"
    /\ inq[c] # <<>>
    /\ AllGood(c)
    /\ Flush(c, out[c] + Len(inq[c]), "none")
    /\ inq' = [inq EXCEPT ![c] = <<>>]
    /\ UNCHANGED closeAfterFlush

\* Mutant: the end of file closes the connection before its frames are handled.
ReadEndDrops(c) ==
    /\ fin[c] \in {"fin", "half"}
    /\ AllGood(c)
    /\ Close(c, "eof")
    /\ inq' = [inq EXCEPT ![c] = <<>>]

\* The peer has closed its direction: every frame is handled, then the
\* connection is closed at once if nothing is left to send, or if a frame was
\* cut short, and otherwise by the flush that sends the last of it.
ReadEnd(c) ==
    LET q    == out[c] + Len(inq[c])
        left == Taken(c, q) < q
    IN  /\ fin[c] \in {"fin", "half"}
        /\ AllGood(c)
        /\ Flush(c, q, IF fin[c] = "half" THEN "half"
                       ELSE IF left THEN "none" ELSE "eof")
        /\ closeAfterFlush' =
             IF fin[c] = "fin" /\ left THEN closeAfterFlush \union {c}
             ELSE closeAfterFlush
        /\ inq' = [inq EXCEPT ![c] = <<>>]

OnRead(c) ==
    \/ ReadFails(c) \/ ReadNothing(c) \/ ReadBad(c) \/ ReadFrames(c)
    \/ ReadEnd(c)

OnWrite(c) ==
    /\ UNCHANGED <<inq, closeAfterFlush>>
    /\ IF fin[c] = "reset" /\ out[c] > 0 THEN Close(c, "error")
       ELSE Flush(c, out[c],
                  IF c \in closeAfterFlush /\ Taken(c, out[c]) = out[c]
                  THEN "eof" ELSE "none")

----------------------------------------------------------------------------
(* The two event loops *)

\* What epoll_wait reports of a connection's descriptor.  "err" stands for an
\* error, a hang-up or both: either callback does nothing but closeConn.
Happening(c) ==
    (IF inq[c] # <<>> \/ fin[c] # "open" THEN {"in"} ELSE {}) \union
    (IF kbuf[c] < Cap \/ fin[c] = "reset" THEN {"out"} ELSE {}) \union
    (IF fin[c] = "reset" THEN {"err"} ELSE {})

\* Errors are reported whether asked for or not.
Reported(t) ==
    UNION {{[conn |-> e.conn, event |-> v] :
              v \in (e.events \union {"err"}) \cap Happening(e.conn)} :
           e \in {epoll[t][f] : f \in Fds} \ {Unset}}

SubPoll ==
    /\ phase = "poll"
    /\ Reported("sub") # {} \/ adopting # {}
    /\ batch' = [batch EXCEPT !["sub"] = Reported("sub")]
    /\ phase' = "events"
    /\ UNCHANGED <<accepted, adopting, foreign, tableVars, sockVars, connVars>>

MainPoll ==
    /\ batch["main"] = {}
    /\ Reported("main") # {}
    /\ batch' = [batch EXCEPT !["main"] = Reported("main")]
    /\ UNCHANGED <<accepted, adopting, phase, foreign, tableVars, sockVars,
                   connVars>>

\* Channel::handleEvent: the read, the write, then the error callback.
Rank == [in |-> 1, out |-> 2, err |-> 3]
IsNext(t, b) == \A d \in batch[t] : d.conn = b.conn => Rank[b.event] <= Rank[d.event]

Dispatch(t) ==
    \E b \in batch[t] :
        /\ IsNext(t, b)
        /\ batch' = [batch EXCEPT ![t] = @ \ {b}]
        /\ foreign' = IF t = "main" THEN foreign \union {b.conn} ELSE foreign
        /\ IF cstate[b.conn] # "live"       \* "if (conn->closing) return"
           THEN UNCHANGED <<inq, connVars, tableVars>>
           ELSE \/ b.event = "in" /\ OnRead(b.conn)
                \/ b.event = "out" /\ OnWrite(b.conn)
                \/ b.event = "err" /\ Close(b.conn, "error") /\ UNCHANGED inq
        /\ UNCHANGED <<accepted, adopting, phase, fin, asked>>

SubEventsDone ==
    /\ phase = "events"
    /\ batch["sub"] = {}
    /\ phase' = "tasks"
    /\ UNCHANGED <<accepted, adopting, batch, foreign, tableVars, sockVars,
                   connVars>>

\* The sub loop's safe point destroys what closeConn left in pendingReap.
SafePoint ==
    /\ phase = "safe"
    /\ cstate' = [c \in Conns |-> IF cstate[c] = "closed" THEN "freed" ELSE cstate[c]]
    /\ phase' = "poll"
    /\ UNCHANGED <<accepted, adopting, batch, foreign, tableVars, sockVars,
                   fdOf, events, out, closeAfterFlush, kbuf, sent, reason>>

Next ==
    \/ \E c \in Conns :
         \/ PeerSends(c, "ask") \/ PeerSends(c, "bad")
         \/ PeerEnds(c, "fin") \/ PeerEnds(c, "half") \/ PeerEnds(c, "reset")
         \/ PeerReads(c)
    \/ OnAccept
    \/ SubPoll \/ MainPoll
    \/ \E t \in Threads : Dispatch(t)
    \/ SubEventsDone \/ Adopt \/ SafePoint

Spec == Init /\ [][Next]_vars

----------------------------------------------------------------------------
(* Properties *)

TypeOK ==
    /\ accepted \in 0 .. MaxConns
    /\ adopting \subseteq Conns
    /\ cstate \in [Conns -> {"new", "accepted", "live", "closed", "freed"}]
    /\ fdOf \in [Conns -> Fds \union {NoFd}]
    /\ events \in [Conns -> SUBSET {"in", "out"}]
    /\ out \in [Conns -> Nat]
    /\ closeAfterFlush \subseteq Conns
    /\ channels \in [Threads -> [Fds -> Conns \union {NoConn}]]
    /\ \A t \in Threads : \A f \in Fds :
         /\ epoll[t][f].conn \in Conns \union {NoConn}
         /\ epoll[t][f].events \subseteq {"in", "out"}
    /\ \A t \in Threads : \A b \in batch[t] :
         b.conn \in Conns /\ b.event \in {"in", "out", "err"}
    /\ phase \in {"poll", "events", "tasks", "safe"}
    /\ inq \in [Conns -> Seq({"ask", "bad"})]
    /\ fin \in [Conns -> {"open", "fin", "half", "reset"}]
    /\ kbuf \in [Conns -> 0 .. Cap]
    /\ reason \in [Conns -> {"none", "error", "fatal", "half", "eof"}]
    /\ foreign \subseteq Conns

\* Every live connection is registered for reading with its own Channel in its
\* owner's epoll, also on a descriptor an earlier connection had: closeConn
\* leaves nothing behind there (chat_server.cpp:570-571 and 1027-1029).
SubRegistered ==
    \A c \in Conns \ foreign : cstate[c] = "live" =>
        /\ channels["sub"][fdOf[c]] = c
        /\ epoll["sub"][fdOf[c]] = [conn |-> c, events |-> {"in"}]

\* Neither epoll can report a connection that has been closed: the interest
\* lists hold the Channels of live connections under their own descriptors
\* (closeConn, chat_server.cpp:1027-1029).
NoDanglingEntry ==
    \A t \in Threads : \A f \in Fds : epoll[t][f] # Unset =>
        /\ cstate[epoll[t][f].conn] = "live"
        /\ fdOf[epoll[t][f].conn] = f

\* Both: what an epoll can report is a connection that is live, to its owner.
EpollsMatch == SubRegistered /\ NoDanglingEntry

\* A connection closed because the peer closed its direction has been sent an
\* answer to everything the peer sent before that: neither frames read with
\* the end of file nor answers that met a full buffer are lost
\* (onRead, chat_server.cpp:651-682 and 727-752, and flush, 1119-1124).
HalfCloseAnswersAll ==
    \A c \in Conns \ foreign : reason[c] = "eof" => sent[c] = asked[c]

\* The rest of a half-sent output waits for a writable event that some epoll
\* has been asked for (chat_server.cpp:1054 and 1079-1080).
OutputArmed ==
    \A c \in Conns \ foreign : cstate[c] = "live" /\ out[c] > 0 =>
        \E t \in Threads :
            epoll[t][fdOf[c]].conn = c /\ "out" \in epoll[t][fdOf[c]].events

\* It is so unless the main loop's Poller still lists, under the descriptor, a
\* connection that had it before (Poller.hpp:32 and chat_server.cpp:1100-1103).
OutputArmedUnlessReused ==
    \A c \in Conns \ foreign :
        /\ cstate[c] = "live"
        /\ out[c] > 0
        /\ channels["main"][fdOf[c]] \in {NoConn, c}
        => epoll["main"][fdOf[c]] = [conn |-> c, events |-> {"in", "out"}]

\* No writable event is asked for when there is nothing to write, or a level-
\* triggered epoll would spin (chat_server.cpp:1083-1084 and 1114-1118).
NoIdleWritable ==
    \A t \in Threads : \A f \in Fds :
        "out" \in epoll[t][f].events => out[epoll[t][f].conn] > 0
============================================================================
