------------------------------ MODULE WebPool ------------------------------
(***************************************************************************)
(* The web server with a thread pool, webserver_thread.cpp: the main       *)
(* thread reads once and hands the descriptor, with what it has read, to a *)
(* worker, which answers and closes.  The pool is the one of ThreadPool,   *)
(* seen from outside: tasks are taken in order.  An event is one step, for *)
(* nothing else can close a descriptor that is still watched.              *)
(***************************************************************************)
EXTENDS WebClients

CONSTANT PoolWorkers

VARIABLES
    watched,        \* descriptors in the epoll instance
    tasks,          \* tasks submitted and not yet taken
    working,        \* each worker's task, or {} in a set of at most one
    abandoned       \* descriptors that nobody will close

pool == <<watched, tasks, working, abandoned>>

PoolInit ==
    /\ watched = {} /\ abandoned = {}
    /\ tasks = <<>>
    /\ working = [w \in PoolWorkers |-> {}]

Task(c, data) == [fd |-> fdOf[c], conn |-> c, data |-> data]

Accept ==
    /\ Pending # {}
    /\ \E new \in NewFds :
          /\ AcceptAll(new)
          /\ watched' = watched \union Range(new)
    /\ UNCHANGED <<tasks, working, abandoned>>

\* Mutant: the descriptor stays in the epoll instance.
ReceiveWatched(c, n) ==
    /\ c \in Open /\ fdOf[c] \in watched
    /\ n \in 1 .. Len(unread[c])
    /\ Serve(c, n, 0, FALSE)
    /\ tasks' = Append(tasks, Task(c, SubSeq(unread[c], 1, n)))
    /\ UNCHANGED <<watched, working, abandoned>>

\* One recv() of up to 4096 bytes: a first piece of what has arrived.
Receive(c, n) ==
    /\ c \in Open /\ fdOf[c] \in watched
    /\ n \in 1 .. Len(unread[c])
    /\ Serve(c, n, 0, FALSE)
    /\ watched' = watched \ {fdOf[c]}
    /\ tasks' = Append(tasks, Task(c, SubSeq(unread[c], 1, n)))
    /\ UNCHANGED <<working, abandoned>>

ReceiveEnd(c) ==
    /\ c \in Open /\ fdOf[c] \in watched
    /\ unread[c] = <<>> /\ fin[c]
    /\ Serve(c, 0, 0, TRUE)
    /\ watched' = watched \ {fdOf[c]}
    /\ UNCHANGED <<tasks, working, abandoned>>

TakeTask(w) ==
    /\ working[w] = {} /\ tasks # <<>>
    /\ working' = [working EXCEPT ![w] = {Head(tasks)}]
    /\ tasks' = Tail(tasks)
    /\ UNCHANGED <<sockets, watched, abandoned>>

\* Without a whole request it returns, and the connection stays open.
process_request(w) ==
    \E t \in working[w] :
        /\ working' = [working EXCEPT ![w] = {}]
        /\ IF Requests(t.data) = 0
           THEN abandoned' = abandoned \union {t.fd} /\ UNCHANGED sockets
           ELSE Serve(ConnAt(t.fd), 0, 1, TRUE) /\ UNCHANGED abandoned
        /\ UNCHANGED <<watched, tasks>>

PoolStep ==
    \/ Accept
    \/ \E c \in Conn : \/ \E n \in 1 .. MaxParts : Receive(c, n)
                       \/ ReceiveEnd(c)
    \/ \E w \in PoolWorkers : TakeTask(w) \/ process_request(w)

\* The tasks that are somewhere in the pool.
Tasks == {tasks[k] : k \in DOMAIN tasks} \union UNION {working[w] : w \in PoolWorkers}
=============================================================================
