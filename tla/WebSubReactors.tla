--------------------------- MODULE WebSubReactors ---------------------------
(***************************************************************************)
(* The web server with several Reactors, webserver_multithread.cpp: the    *)
(* main thread accepts, and gives the connections to the sub Reactors in   *)
(* turn; each sub Reactor reads, answers and closes.  A step is what a     *)
(* thread does up to the next call that another thread can see; a close    *)
(* and the removal of the buffer behind it are two.                        *)
(***************************************************************************)
EXTENDS WebClients

CONSTANT SUB_NUM

ASSUME SubAssumption == SUB_NUM \in Nat \ {0}

Sub == 0 .. SUB_NUM - 1

VARIABLES
    next,           \* the sub Reactor whose turn it is (next % SUB_NUM)
    epfd,           \* descriptors in each sub Reactor's epoll instance
    events,         \* of its batch, those that are still to be handled
    buffers,        \* each sub Reactor's buffers, by descriptor
    closing         \* the descriptor it has closed and is about to erase, or 0

subs == <<next, epfd, events, buffers, closing>>

SubsInit ==
    /\ next = 0
    /\ epfd = [i \in Sub |-> {}] /\ events = [i \in Sub |-> {}]
    /\ buffers = [i \in Sub |-> [fd \in {} |-> <<>>]]
    /\ closing = [i \in Sub |-> 0]

BufferOf(i, fd) == IF fd \in DOMAIN buffers[i] THEN buffers[i][fd] ELSE <<>>

\* Main thread: one accept() of the loop, and the sub Reactor it goes to.
AcceptNext ==
    \E c \in Pending, fd \in Fds \ Used :
        /\ \A d \in Pending : c <= d
        /\ \A g \in Fds \ Used : fd <= g
        /\ state' = [state EXCEPT ![c] = "open"]
        /\ fdOf' = [fdOf EXCEPT ![c] = fd]
        /\ epfd' = [epfd EXCEPT ![next] = @ \union {fd}]
        /\ next' = (next + 1) % SUB_NUM
        /\ UNCHANGED <<sent, unread, fin, answered, events, buffers, closing>>

SubPoll(i) ==
    /\ events[i] = {} /\ closing[i] = 0
    /\ events' = [events EXCEPT ![i] = {fdOf[c] : c \in {d \in Open : Readable(d)}} \intersect epfd[i]]
    /\ events'[i] # {}
    /\ UNCHANGED <<sockets, next, epfd, buffers, closing>>

\* The last request is not complete yet.
Unfinished(s) == s # <<>> /\ s[Len(s)] = "p"

\* Whether to keep the connection is looked up in all of the buffer: the
\* first request is answered with the end that a later one asks for, also
\* one that is not complete and has already said so.
AnswerAll(s, said) ==
    IF Requests(s) > 0 /\ (said \/ AskedEnds(s) # {})
    THEN [answers |-> 1, rest |-> Behind(s, 1), close |-> TRUE]
    ELSE [answers |-> Requests(s), rest |-> Behind(s, Requests(s)), close |-> FALSE]

\* Reading, the responses, and, at the end of a connection, closeConn up to
\* and including close().
SubRead(i, fd) ==
    \E said \in BOOLEAN :
    LET c == ConnAt(fd)
        input == BufferOf(i, fd) \o unread[c]
        a == AnswerAll(input, said)
        close == a.close \/ fin[c]
    IN  /\ fd \in events[i] /\ closing[i] = 0
        /\ said => Unfinished(input)
        /\ events' = [events EXCEPT ![i] = @ \ {fd}]
        /\ Serve(c, Len(unread[c]), a.answers, close)
        /\ buffers' = [buffers EXCEPT ![i] =
                         [d \in DOMAIN @ \union {fd} |-> IF d = fd THEN a.rest ELSE @[d]]]
        /\ epfd' = IF close THEN [epfd EXCEPT ![i] = @ \ {fd}] ELSE epfd
        /\ closing' = IF close THEN [closing EXCEPT ![i] = fd] ELSE closing
        /\ UNCHANGED next

\* The rest of closeConn.
EraseBuffer(i) ==
    /\ closing[i] # 0
    /\ buffers' = [buffers EXCEPT ![i] = [d \in DOMAIN @ \ {closing[i]} |-> @[d]]]
    /\ closing' = [closing EXCEPT ![i] = 0]
    /\ UNCHANGED <<sockets, next, epfd, events>>

SubsStep ==
    \/ AcceptNext
    \/ \E i \in Sub : \/ SubPoll(i)
                      \/ \E fd \in Fds : SubRead(i, fd)
                      \/ EraseBuffer(i)
=============================================================================
