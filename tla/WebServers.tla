----------------------------- MODULE WebServers -----------------------------
(***************************************************************************)
(* The three designs of the web server, each with the same browsers: which *)
(* program runs is chosen at the start, and the same properties are asked  *)
(* of all of them.                                                         *)
(***************************************************************************)
EXTENDS WebReactor, WebPool, WebSubReactors

VARIABLE server     \* the program that runs

vars == <<sockets, reactor, pool, subs, server>>

Init ==
    /\ ClientsInit /\ ReactorInit /\ PoolInit /\ SubsInit
    /\ server \in {"reactor", "pool", "subs"}
    /\ server # "reactor" => ~flow

\* What the peers do after the end of the server is not followed.
Peers ==
    /\ ReactorUp
    /\ \E c \in Conn : \/ PeerConnects(c)
                       \/ \E part \in Part : PeerSends(c, part)
                       \/ PeerEnds(c)
    /\ UNCHANGED <<reactor, pool, subs, server>>

Surroundings ==
    /\ server = "reactor"
    /\ Tick \/ onSigint
    /\ UNCHANGED <<pool, subs, server>>

ServerStep ==
    \/ server = "reactor" /\ ReactorStep /\ UNCHANGED <<pool, subs, server>>
    \/ server = "pool" /\ PoolStep /\ UNCHANGED <<reactor, subs, server>>
    \/ server = "subs" /\ SubsStep /\ UNCHANGED <<reactor, pool, server>>

Next == Peers \/ Surroundings \/ ServerStep

Spec == Init /\ [][Next]_vars

\* The threads of the server run; nobody has to connect, send or end.
FairSpec == Spec /\ WF_vars(ServerStep)

----------------------------------------------------------------------------
(* Properties *)

\* A buffer that is about to be erased is no longer that of its descriptor.
Content(i, fd) == IF closing[i] = fd THEN <<>> ELSE BufferOf(i, fd)

\* What the server has read of connection c and not yet answered.
Held(c) ==
    CASE server = "reactor" -> Input(fdOf[c])
      [] server = "subs" -> LET i == CHOOSE i \in Sub : fdOf[c] \in epfd[i]
                            IN  Content(i, fdOf[c])
      [] server = "pool" -> IF \E t \in Tasks : t.conn = c
                            THEN (CHOOSE t \in Tasks : t.conn = c).data ELSE <<>>

Abandoned(c) == state[c] = "open" /\ fdOf[c] \in abandoned

\* A response answers a request of the same connection, once and in order:
\* on every open connection, what is buffered and what is still in the kernel
\* are together what the peer has sent behind the requests answered so far,
\* however the reads cut it and whoever had the descriptor before.
AnswersOwnRequests ==
    \A c \in Conn :
        /\ answered[c] <= Requests(sent[c])
        /\ state[c] = "open" /\ ~Abandoned(c) /\ ~crashed
             => Held(c) \o unread[c] = Behind(sent[c], answered[c])

\* Every open descriptor is in exactly one hand: the table of the reactor;
\* the epoll set, one task or the abandoned ones of the pool; one sub
\* Reactor.  A callback of webserver.cpp or webserver_flow.cpp meets a closed
\* descriptor only if the timer has closed it in the same batch, and only
\* webserver.cpp dies of it.
DescriptorsOwned ==
    CASE server = "reactor" ->
            /\ ~crashed => Table = Used
            /\ batch \intersect Fds \subseteq Used \union swept
            /\ crashed => ~flow
      [] server = "pool" ->
            /\ Used = watched \union abandoned \union {t.fd : t \in Tasks}
            /\ watched \intersect abandoned = {}
            /\ \A t \in Tasks : /\ state[t.conn] = "open" /\ fdOf[t.conn] = t.fd
                                /\ t.fd \notin watched \union abandoned
                                /\ \A u \in Tasks : u.fd = t.fd => u = t
      [] server = "subs" ->
            /\ Used = UNION {epfd[i] : i \in Sub}
            /\ \A i \in Sub : /\ \A j \in Sub \ {i} : epfd[i] \intersect epfd[j] = {}
                              /\ events[i] \subseteq epfd[i]
                              /\ DOMAIN buffers[i] \subseteq epfd[i] \union {closing[i]}

\* What the server has read of connection c, up to its end if it is closed.
ReadOf(c) == SubSeq(sent[c], 1, Len(sent[c]) - Len(unread[c]))

\* Why a connection has been closed, and what was answered on it before.
SettledAtEnd(c) ==
    LET s == ReadOf(c)
        all == fin[c] /\ unread[c] = <<>>
    IN  CASE server = "reactor" ->
                /\ all \/ AskedEnds(s) # {} \/ ticks > 0
                /\ answered[c] = Due(s)
          [] server = "pool" ->
                /\ (all /\ s = <<>>) \/ Requests(s) > 0
                /\ answered[c] = Min({1, Requests(s)})
          [] server = "subs" ->
                IF Requests(s) > 0 /\ (AskedEnds(s) # {} \/ Unfinished(s))
                THEN answered[c] \in 1 .. Requests(s)
                ELSE all /\ answered[c] = Requests(s)

Settled(c) ==
    \/ state[c] = "none"
    \/ Abandoned(c) /\ ReadOf(c) # <<>> /\ Requests(ReadOf(c)) = 0
    \/ state[c] = "open" /\ ~fin[c] /\ answered[c] = Requests(sent[c])
    \/ state[c] = "closed" /\ SettledAtEnd(c)

\* While the server is up, every connection made is accepted and comes to
\* rest.  Open, it has an answer to every whole request, and its peer has not
\* ended.  Closed, it has had what its server gives to the requests it read:
\* webserver.cpp an answer to each up to the one that asks for the end
\* (77-126); webserver_thread.cpp to the first (24-50), and it leaves a
\* connection alone for ever when its one read held no whole request (26);
\* webserver_multithread.cpp to each unless an end is asked for, and then to
\* one of them at least (54-64).
EveryRequestAnswered == []<>(~ReactorUp \/ \A c \in Conn : Settled(c))

\* What README.md says of all three (30, 39, 210): requests that arrive glued
\* together are taken out of the buffer one by one, so that a connection is
\* closed with an answer to each one read up to that which asks for the end.
\* Neither webserver_multithread.cpp (54) nor webserver_thread.cpp does so.
GluedRequestsAnswered ==
    \A c \in Conn : state[c] = "closed" => answered[c] = Due(ReadOf(c))
=============================================================================
