----------------------------- MODULE WebReactor -----------------------------
(***************************************************************************)
(* The web server with one Reactor: webserver.cpp, with the classes of     *)
(* include/, and webserver_flow.cpp, the same without them.  They differ   *)
(* in what a callback does that finds its connection gone, and in what the *)
(* exit signal leaves of a batch.  The second watches edges: since every   *)
(* handler reads or accepts until nothing is left, an edge is reported     *)
(* exactly when a level is.  A step is one callback; the order within a    *)
(* batch is the kernel's.                                                  *)
(***************************************************************************)
EXTENDS WebClients

CONSTANT MaxTicks   \* bound: times that the clock moves on

ASSUME ReactorAssumption == MaxTicks \in Nat

\* The other descriptors of the loop.
listen_fd == 0
timer_fd == MaxConns + 1
wakeup_fd == MaxConns + 2

VARIABLES
    flow,           \* it is webserver_flow.cpp
    running,        \* the loop goes on
    batch,          \* descriptors of the batch that are still to be dispatched
    conns,          \* the input of each connection in the table, by descriptor
    fresh,          \* descriptors whose lastActive this batch has set
    raised,         \* what the timer and SIGINT have written
    crashed,        \* the program has died
    ticks,          \* times that the clock has moved on
    swept           \* history: descriptors the timer has closed in this batch

reactor == <<flow, running, batch, conns, fresh, raised, crashed, ticks, swept>>

ReactorInit ==
    /\ flow \in BOOLEAN
    /\ running = TRUE /\ crashed = FALSE
    /\ batch = {} /\ swept = {}
    /\ conns = [fd \in {} |-> <<>>]
    /\ fresh = {} /\ raised = {} /\ ticks = 0

Table == DOMAIN conns
Input(fd) == IF fd \in Table THEN conns[fd] ELSE <<>>
\* Mutant: close() without conns.erase().
WithoutNone(fds) == conns
Without(fds) == [fd \in Table \ fds |-> conns[fd]]

----------------------------------------------------------------------------
(* The clock, and the user *)

Tick ==
    /\ ticks < MaxTicks
    /\ ticks' = ticks + 1
    /\ raised' = raised \union {timer_fd}
    /\ UNCHANGED <<sockets, flow, running, batch, conns, fresh, crashed, swept>>

onSigint ==
    /\ wakeup_fd \notin raised /\ running
    /\ raised' = raised \union {wakeup_fd}
    /\ UNCHANGED <<sockets, flow, running, batch, conns, fresh, crashed, ticks, swept>>

----------------------------------------------------------------------------
(* The loop *)

Ready ==
    raised
    \union {fdOf[c] : c \in {d \in Open : Readable(d)}}
    \union {listen_fd : c \in Pending}

Poll ==
    /\ running /\ ~crashed /\ batch = {}
    /\ Ready # {}
    /\ batch' = Ready
    /\ UNCHANGED <<sockets, flow, running, conns, fresh, swept, raised, crashed, ticks>>

Dispatch(fd) ==
    /\ fd \in batch /\ ~crashed
    /\ batch' = batch \ {fd}

\* What is noted of a batch is kept until its end.
Note(active, closed) ==
    /\ fresh' = IF batch' = {} THEN {} ELSE active
    /\ swept' = IF batch' = {} THEN {} ELSE closed

\* A new entry; webserver_flow.cpp uses the one that is there, if there is one.
handle_accept ==
    /\ Dispatch(listen_fd)
    /\ \E new \in NewFds :
          /\ AcceptAll(new)
          /\ conns' = [fd \in Table \union Range(new) |->
                         IF fd \in Range(new) /\ ~flow THEN <<>> ELSE Input(fd)]
          /\ Note(fresh \union Range(new), swept)
    /\ UNCHANGED <<flow, running, raised, crashed, ticks>>

handle_read(fd) ==
    LET c == ConnAt(fd)
        a == Answer(Input(fd) \o unread[c])
        close == a.close \/ fin[c]
    IN  /\ IsOpen(fd)
        /\ Dispatch(fd)
        /\ Serve(c, Len(unread[c]), a.answers, close)
        /\ conns' = IF close THEN Without({fd})
                    ELSE [d \in Table \union {fd} |-> IF d = fd THEN a.rest ELSE conns[d]]
        /\ Note(IF flow /\ unread[c] = <<>> THEN fresh ELSE fresh \union {fd}, swept)
        /\ UNCHANGED <<flow, running, raised, crashed, ticks>>

\* The descriptor has been closed since the batch was taken: recv() fails,
\* and the connection is closed again.  In webserver.cpp the entry that
\* conns[c] has just made has no channel to remove.
ReadGone(fd) ==
    /\ fd \in Fds /\ ~IsOpen(fd)
    /\ Dispatch(fd)
    /\ crashed' = (~flow /\ fd \notin Table)
    /\ conns' = Without({fd})
    /\ Note(fresh, swept)
    /\ UNCHANGED <<sockets, flow, running, raised, ticks>>

\* Any connection may have been idle for too long that has not just been active.
handle_timeout ==
    /\ Dispatch(timer_fd)
    /\ raised' = raised \ {timer_fd}
    /\ \E old \in SUBSET (Table \ fresh) :
          /\ CloseAll({c \in Open : fdOf[c] \in old})
          /\ conns' = Without(old)
          /\ Note(fresh, swept \union old)
    /\ UNCHANGED <<flow, running, crashed, ticks>>

\* quit() lets the batch end; break does not.
handle_wakeup ==
    /\ wakeup_fd \in batch /\ ~crashed
    /\ batch' = IF flow THEN {} ELSE batch \ {wakeup_fd}
    /\ raised' = raised \ {wakeup_fd}
    /\ running' = FALSE
    /\ Note(fresh, swept)
    /\ UNCHANGED <<sockets, flow, conns, crashed, ticks>>

ReactorStep ==
    \/ Poll
    \/ handle_accept
    \/ \E fd \in Fds : handle_read(fd) \/ ReadGone(fd)
    \/ handle_timeout
    \/ handle_wakeup

ReactorUp == running /\ ~crashed
=============================================================================
