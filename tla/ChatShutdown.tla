--------------------------- MODULE ChatShutdown ---------------------------
(***************************************************************************)
(* The end of the chat server (src/chat_server.cpp: onSigint, onWakeup,    *)
(* run, EventLoopThread): the main thread that notifies, quits, joins and  *)
(* cleans up, and the sub threads, each with an EventLoop on its stack,    *)
(* that go on handling events and posting to each other meanwhile.         *)
(*                                                                         *)
(* runInLoop is one step: EventLoop.tla shows that the loop keeps the      *)
(* contract of TaskExecutor.tla whatever the interleaving.                 *)
(***************************************************************************)
EXTENDS ServerEnd, Sequences, FiniteSets

CONSTANT MaxOthers  \* bound: messages taken and idle scans posted

VARIABLES
    sigint,         \* SIGINT has arrived
    next,           \* the loop main will notify, quit, join or clean up next
    running,        \* running_ of each sub EventLoop
    pending,        \* pending_ of each sub EventLoop
    locals,         \* its swapped-out batch
    posts,          \* loops the broadcast in progress has still to reach
    others,         \* messages and idle scans so far
    dirty,          \* usersDirty
    conns           \* conns of each SubState

mainVars  == <<mpc, sigint, next>>
acceptVars == <<accepts, early>>
loopVars  == <<locals, tpc>>
connVars  == <<dirty, conns, closed>>
vars == <<mainVars, acceptVars, running, pending, loopVars, posts, others,
          connVars, noticed>>

\* The functors that reach a sub loop.  What a Users list, a message or an idle
\* scan does is the same here: it may close connections.
Adopt(c) == [kind |-> "adopt", conn |-> c]
Notice   == [kind |-> "notice"]
Other    == [kind |-> "other"]

Init ==
    /\ mpc = "serving"
    /\ sigint = FALSE
    /\ next = 0
    /\ accepts = 0
    /\ early = {}
    /\ running = [i \in Loops |-> TRUE]
    /\ pending = [i \in Loops |-> <<>>]
    /\ locals = [i \in Loops |-> <<>>]
    /\ tpc = [i \in Loops |-> "poll"]
    /\ posts = [i \in Loops |-> <<>>]
    /\ others = 0
    /\ dirty = [i \in Loops |-> FALSE]
    /\ conns = [i \in Loops |-> {}]
    /\ closed = {}
    /\ noticed = {}

\* runInSub: the loop takes the task or, once told to quit, refuses it, which
\* is only logged.
RunInSub(i, task) ==
    pending' = IF running[i] THEN [pending EXCEPT ![i] = Append(@, task)]
               ELSE pending

----------------------------------------------------------------------------
(* The main thread *)

\* onSigint: the handler writes g_wakeupFd.
OnSigint ==
    /\ ~sigint
    /\ sigint' = TRUE
    /\ UNCHANGED <<mpc, next, acceptVars, running, pending, loopVars, posts,
                   others, connVars, noticed>>

\* The listening socket's callback, also later in the batch that held onWakeup.
OnAccept ==
    /\ mpc \in {"serving", "closing"}
    /\ accepts < MaxConns
    /\ accepts' = accepts + 1
    /\ early' = IF mpc = "serving" THEN early \union {accepts + 1} ELSE early
    /\ RunInSub(Owner(accepts + 1), Adopt(accepts + 1))
    /\ UNCHANGED <<mainVars, running, loopVars, posts, others, connVars, noticed>>

\* onIdleTick for one loop, in such a batch too.
OnIdleTick(i) ==
    /\ mpc \in {"serving", "closing"}
    /\ others < MaxOthers
    /\ others' = others + 1
    /\ RunInSub(i, Other)
    /\ UNCHANGED <<mainVars, acceptVars, running, loopVars, posts, connVars,
                   noticed>>

\* Main goes through the loops one by one, then to the next stage.
ThroughLoops(stage, after) ==
    /\ next' = (next + 1) % NLoops
    /\ mpc' = IF next = NLoops - 1 THEN after ELSE stage

\* onWakeup: the notice is posted to every loop; the last step is loop_.quit().
OnWakeup ==
    /\ mpc = "serving"
    /\ sigint
    /\ mpc' = "notify"
    /\ UNCHANGED <<sigint, next, acceptVars, running, pending, loopVars, posts,
                   others, connVars, noticed>>

\* Mutant: onWakeup tells each sub loop to quit right after its notice.
NotifyAndQuit ==
    /\ mpc = "notify"
    /\ ThroughLoops("notify", "closing")
    /\ RunInSub(next, Notice)
    /\ running' = [running EXCEPT ![next] = FALSE]
    /\ UNCHANGED <<sigint, acceptVars, loopVars, posts, others, connVars, noticed>>

Notify ==
    /\ mpc = "notify"
    /\ ThroughLoops("notify", "closing")
    /\ RunInSub(next, Notice)
    /\ UNCHANGED <<sigint, acceptVars, running, loopVars, posts, others, connVars,
                   noticed>>

\* The rest of the batch is done: loop_.loop() returns.
LoopReturns ==
    /\ mpc = "closing"
    /\ mpc' = "quit"
    /\ UNCHANGED <<sigint, next, acceptVars, running, pending, loopVars, posts,
                   others, connVars, noticed>>

\* Mutant: the loop over subLoops_ stops one short.
QuitSubSkipsLast ==
    /\ mpc = "quit"
    /\ mpc' = "wake"
    /\ running' = IF next = NLoops - 1 THEN running
                  ELSE [running EXCEPT ![next] = FALSE]
    /\ UNCHANGED <<sigint, next, acceptVars, pending, loopVars, posts, others,
                   connVars, noticed>>

\* quit() of a sub loop stores running_ ...
QuitSub ==
    /\ mpc = "quit"
    /\ mpc' = "wake"
    /\ running' = [running EXCEPT ![next] = FALSE]
    /\ UNCHANGED <<sigint, next, acceptVars, pending, loopVars, posts, others,
                   connVars, noticed>>

\* ... and then writes the eventfd, of an EventLoop that may be gone by then.
WakeSub ==
    /\ mpc = "wake"
    /\ ThroughLoops("quit", "join")
    /\ UNCHANGED <<sigint, acceptVars, running, pending, loopVars, posts, others,
                   connVars, noticed>>

JoinSub ==
    /\ mpc = "join"
    /\ ThroughLoops("join", "clean")
    /\ tpc[next] = "gone"
    /\ UNCHANGED <<sigint, acceptVars, running, pending, loopVars, posts, others,
                   connVars, noticed>>

\* What is left in a SubState: removeChannel through the loop, close, clear.
CleanUp ==
    /\ mpc = "clean"
    /\ ThroughLoops("clean", "done")
    /\ closed' = closed \union conns[next]
    /\ conns' = [conns EXCEPT ![next] = {}]
    /\ UNCHANGED <<sigint, acceptVars, running, pending, loopVars, posts, others,
                   dirty, noticed>>

----------------------------------------------------------------------------
(* A sub thread *)

\* closeConn on the connections of S; a logged-in one marks the list dirty.
CloseConns(i, S) ==
    /\ conns' = [conns EXCEPT ![i] = @ \ S]
    /\ closed' = closed \union S
    /\ \E b \in BOOLEAN : dirty' = [dirty EXCEPT ![i] = @ \/ (b /\ S # {})]

\* quit() has written the eventfd of loop i.
WokenToQuit(i) == ~running[i] /\ ~(mpc = "wake" /\ next = i)

Poll(i) ==
    /\ tpc[i] = "poll"
    /\ pending[i] # <<>> \/ WokenToQuit(i) \/ conns[i] # {}
    /\ tpc' = [tpc EXCEPT ![i] = "events"]
    /\ UNCHANGED <<mainVars, acceptVars, running, pending, locals, posts, others,
                   connVars, noticed>>

\* A callback closes a connection.
EventCloses(i) ==
    /\ tpc[i] = "events"
    /\ posts[i] = <<>>
    /\ \E c \in conns[i] : CloseConns(i, {c})
    /\ UNCHANGED <<mainVars, acceptVars, running, pending, loopVars, posts,
                   others, noticed>>

AllLoops == [k \in 1 .. NLoops |-> k - 1]

\* A callback takes a message: for every loop, or for one.
EventSays(i) ==
    /\ tpc[i] = "events"
    /\ posts[i] = <<>> /\ conns[i] # {}
    /\ others < MaxOthers
    /\ others' = others + 1
    /\ \E to \in {AllLoops} \union {<<j>> : j \in Loops} :
          posts' = [posts EXCEPT ![i] = to]
    /\ UNCHANGED <<mainVars, acceptVars, running, pending, loopVars, connVars,
                   noticed>>

Swap(i) ==
    /\ (tpc[i] = "events" /\ posts[i] = <<>>) \/ tpc[i] = "final"
    /\ locals' = [locals EXCEPT ![i] = pending[i]]
    /\ pending' = [pending EXCEPT ![i] = <<>>]
    /\ tpc' = [tpc EXCEPT ![i] = IF @ = "events" THEN "tasks" ELSE "finaltasks"]
    /\ UNCHANGED <<mainVars, acceptVars, running, posts, others, connVars, noticed>>

\* Adoption; or a frame to every connection, which closes those it fails on.
RunOne(i) ==
    /\ tpc[i] \in {"tasks", "finaltasks"}
    /\ locals[i] # <<>>
    /\ locals' = [locals EXCEPT ![i] = Tail(@)]
    /\ LET task == Head(locals[i])
       IN  IF task.kind = "adopt"
           THEN /\ conns' = [conns EXCEPT ![i] = @ \union {task.conn}]
                /\ UNCHANGED <<dirty, closed, noticed>>
           ELSE \E S \in SUBSET conns[i] :
                /\ CloseConns(i, S)
                /\ noticed' = IF task.kind = "notice"
                              THEN noticed \union (conns[i] \ S) ELSE noticed
    /\ UNCHANGED <<mainVars, acceptVars, running, pending, tpc, posts, others>>

\* The hook: a list that was dirty goes to every loop.
SafePoint(i) ==
    /\ tpc[i] = "tasks"
    /\ locals[i] = <<>>
    /\ tpc' = [tpc EXCEPT ![i] = "hook"]
    /\ posts' = [posts EXCEPT ![i] = IF dirty[i] THEN AllLoops ELSE <<>>]
    /\ dirty' = [dirty EXCEPT ![i] = FALSE]
    /\ UNCHANGED <<mainVars, acceptVars, running, pending, locals, others, conns,
                   closed, noticed>>

\* The next loop of a broadcast: a task is run at once on the thread's own loop,
\* and closes the connections it fails on.
PostOne(i) ==
    /\ posts[i] # <<>>
    /\ posts' = [posts EXCEPT ![i] = Tail(@)]
    /\ IF Head(posts[i]) = i
       THEN /\ \E S \in SUBSET conns[i] : CloseConns(i, S)
            /\ UNCHANGED pending
       ELSE /\ RunInSub(Head(posts[i]), Other)
            /\ UNCHANGED connVars
    /\ UNCHANGED <<mainVars, acceptVars, running, loopVars, others, noticed>>

\* Mutant: loop() returns without the doPendingFunctors() after the while.
CheckRunningNoDrain(i) ==
    /\ tpc[i] = "hook"
    /\ posts[i] = <<>>
    /\ tpc' = [tpc EXCEPT ![i] = IF running[i] THEN "poll" ELSE "gone"]
    /\ UNCHANGED <<mainVars, acceptVars, running, pending, locals, posts, others,
                   connVars, noticed>>

CheckRunning(i) ==
    /\ tpc[i] = "hook"
    /\ posts[i] = <<>>
    /\ tpc' = [tpc EXCEPT ![i] = IF running[i] THEN "poll" ELSE "final"]
    /\ UNCHANGED <<mainVars, acceptVars, running, pending, locals, posts, others,
                   connVars, noticed>>

\* loop() returns and the EventLoop on the thread's stack is destroyed.
Return(i) ==
    /\ tpc[i] = "finaltasks"
    /\ locals[i] = <<>>
    /\ tpc' = [tpc EXCEPT ![i] = "gone"]
    /\ UNCHANGED <<mainVars, acceptVars, running, pending, locals, posts, others,
                   connVars, noticed>>

SubThread(i) ==
    Poll(i) \/ Swap(i) \/ RunOne(i) \/ SafePoint(i) \/ PostOne(i)
    \/ CheckRunning(i) \/ Return(i)

MainThread ==
    OnWakeup \/ Notify \/ LoopReturns \/ QuitSub \/ WakeSub \/ JoinSub
    \/ CleanUp

Next ==
    \/ OnSigint \/ OnAccept \/ MainThread
    \/ \E i \in Loops :
          OnIdleTick(i) \/ SubThread(i) \/ EventCloses(i) \/ EventSays(i)

Spec == Init /\ [][Next]_vars

\* Every thread that can go on does; nobody need connect or send SIGINT.
FairSpec ==
    /\ Spec
    /\ WF_vars(MainThread)
    /\ \A i \in Loops : WF_vars(SubThread(i))

----------------------------------------------------------------------------
(* Properties, with those of ServerEnd *)

TypeOK ==
    /\ mpc \in {"serving", "notify", "closing", "quit", "wake", "join", "clean", "done"}
    /\ next \in Loops
    /\ accepts \in 0 .. MaxConns
    /\ early \subseteq Conns
    /\ running \in [Loops -> BOOLEAN]
    /\ tpc \in [Loops -> {"poll", "events", "tasks", "hook", "final",
                          "finaltasks", "gone"}]
    /\ others \in Nat
    /\ dirty \in [Loops -> BOOLEAN]
    /\ conns \in [Loops -> SUBSET Conns]
    /\ closed \union noticed \subseteq Conns

\* SIGINT ends the server: all sub threads can be joined (519-527).
ShutdownEnds == sigint ~> mpc = "done"
============================================================================
