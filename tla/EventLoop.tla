----------------------------- MODULE EventLoop -----------------------------
(***************************************************************************)
(* One EventLoop (include/EventLoop.hpp) with its Poller and Channels: the *)
(* thread inside loop(), the threads that call runInLoop() on it and the   *)
(* threads that call quit().  A step is one access to shared state: a load *)
(* or store of running_, one critical section of mutex_, one read or write *)
(* of the wake-up eventfd, one epoll_wait, one callback.                   *)
(*                                                                         *)
(* runInLoop() called on the loop thread runs its functor inside the       *)
(* caller (EventLoop.hpp:94-98) and touches none of this state; it is part *)
(* of the callback that makes the call.                                    *)
(***************************************************************************)
EXTENDS Naturals, Sequences

CONSTANTS
    Posters,        \* threads, other than the loop's, that call runInLoop()
    Quitters,       \* threads, other than the loop's, that call quit()
    Channels,       \* Channels registered in the Poller besides wakeupCh_
    WakeCh,         \* wakeupCh_
    NoOne,          \* mutex_ is free
    MaxPosts        \* bound: calls of runInLoop() by each poster

ASSUME ConstantsAssumption ==
    /\ MaxPosts \in Nat
    /\ WakeCh \notin Channels
    /\ NoOne \notin Posters

VARIABLES
    running,        \* running_
    eventfd,        \* the counter behind wakeupFd_ is not zero
    mutex,          \* the poster inside mutex_, or NoOne
    pending,        \* pending_
    locals,         \* the loop thread's swapped-out batch in doPendingFunctors
    lpc,            \* where the loop thread is
    ready,          \* the rest of the batch returned by poll()
    readable,       \* Channels with an event for epoll to report
    chan,           \* the object behind a Channel: open, retired, freed
    ppc,            \* where each poster is in runInLoop()
    posted,         \* calls of runInLoop() each poster has finished
    qpc,            \* where each quitter is in quit()
    accepted,       \* history: tasks pushed to pending_, in order
    executed,       \* history: tasks run by the loop thread, in order
    refused         \* history: tasks for which runInLoop() returned false

loopVars   == <<locals, lpc, ready>>
chanVars   == <<readable, chan>>
posterVars == <<ppc, posted>>
vars == <<running, eventfd, mutex, pending, loopVars, chanVars, posterVars,
          qpc, accepted, executed, refused>>

\* A task is named by its poster and the number of the call.
Task == Posters \X (1 .. MaxPosts)
NextTask(p) == <<p, posted[p] + 1>>

Init ==
    /\ running = TRUE           \* set by the constructor, EventLoop.hpp:32
    /\ eventfd = FALSE
    /\ mutex = NoOne
    /\ pending = <<>>
    /\ locals = <<>>
    /\ lpc = "new"
    /\ ready = {}
    /\ readable = {}
    /\ chan = [c \in Channels |-> "open"]
    /\ ppc = [p \in Posters |-> "idle"]
    /\ posted = [p \in Posters |-> 0]
    /\ qpc = [q \in Quitters |-> "idle"]
    /\ accepted = <<>>
    /\ executed = <<>>
    /\ refused = {}

----------------------------------------------------------------------------
(* runInLoop() on another thread *)

PostLock(p) ==
    /\ ppc[p] = "idle"
    /\ posted[p] < MaxPosts
    /\ mutex = NoOne
    /\ mutex' = p
    /\ ppc' = [ppc EXCEPT ![p] = "check"]
    /\ UNCHANGED <<running, eventfd, pending, loopVars, chanVars, posted, qpc,
                   accepted, executed, refused>>

\* Mutant: runInLoop() without the test of running_ under the lock.
PostAcceptUnchecked(p) ==
    /\ ppc[p] = "check"
    /\ ppc' = [ppc EXCEPT ![p] = "push"]
    /\ UNCHANGED <<running, eventfd, mutex, pending, loopVars, chanVars,
                   posted, qpc, accepted, executed, refused>>

PostAccept(p) ==
    /\ ppc[p] = "check"
    /\ running
    /\ ppc' = [ppc EXCEPT ![p] = "push"]
    /\ UNCHANGED <<running, eventfd, mutex, pending, loopVars, chanVars,
                   posted, qpc, accepted, executed, refused>>

PostRefuse(p) ==
    /\ ppc[p] = "check"
    /\ ~running
    /\ refused' = refused \union {NextTask(p)}
    /\ mutex' = NoOne
    /\ ppc' = [ppc EXCEPT ![p] = "idle"]
    /\ posted' = [posted EXCEPT ![p] = @ + 1]
    /\ UNCHANGED <<running, eventfd, pending, loopVars, chanVars, qpc,
                   accepted, executed>>

PostPush(p) ==
    /\ ppc[p] = "push"
    /\ pending' = Append(pending, NextTask(p))
    /\ accepted' = Append(accepted, NextTask(p))
    /\ mutex' = NoOne
    /\ ppc' = [ppc EXCEPT ![p] = "wake"]
    /\ UNCHANGED <<running, eventfd, loopVars, chanVars, posted, qpc,
                   executed, refused>>

\* wakeup(), outside the lock; runInLoop() then returns true.
PostWake(p) ==
    /\ ppc[p] = "wake"
    /\ eventfd' = TRUE
    /\ ppc' = [ppc EXCEPT ![p] = "idle"]
    /\ posted' = [posted EXCEPT ![p] = @ + 1]
    /\ UNCHANGED <<running, mutex, pending, loopVars, chanVars, qpc, accepted,
                   executed, refused>>

----------------------------------------------------------------------------
(* quit() on another thread: a plain atomic store, without mutex_, then    *)
(* wakeup().                                                               *)

QuitStore(q) ==
    /\ qpc[q] = "idle"
    /\ running' = FALSE
    /\ qpc' = [qpc EXCEPT ![q] = "wake"]
    /\ UNCHANGED <<eventfd, mutex, pending, loopVars, chanVars, posterVars,
                   accepted, executed, refused>>

QuitWake(q) ==
    /\ qpc[q] = "wake"
    /\ eventfd' = TRUE
    /\ qpc' = [qpc EXCEPT ![q] = "done"]
    /\ UNCHANGED <<running, mutex, pending, loopVars, chanVars, posterVars,
                   accepted, executed, refused>>

----------------------------------------------------------------------------
(* The thread inside loop() *)

\* Mutant: loop() stores running_ = true on entry.
EnterRestarts ==
    /\ lpc = "new"
    /\ lpc' = "check"
    /\ running' = TRUE
    /\ UNCHANGED <<eventfd, mutex, pending, locals, ready, chanVars,
                   posterVars, qpc, accepted, executed, refused>>

\* loop() is entered: owner_ is stored; running_ is not touched.
Enter ==
    /\ lpc = "new"
    /\ lpc' = "check"
    /\ UNCHANGED <<running, eventfd, mutex, pending, locals, ready, chanVars,
                   posterVars, qpc, accepted, executed, refused>>

\* Mutant: loop() without the doPendingFunctors() after the while.
CheckRunningNoDrain ==
    /\ lpc = "check"
    /\ lpc' = IF running THEN "poll" ELSE "exited"
    /\ UNCHANGED <<running, eventfd, mutex, pending, locals, ready, chanVars,
                   posterVars, qpc, accepted, executed, refused>>

CheckRunning ==
    /\ lpc = "check"
    /\ lpc' = IF running THEN "poll" ELSE "final"
    /\ UNCHANGED <<running, eventfd, mutex, pending, locals, ready, chanVars,
                   posterVars, qpc, accepted, executed, refused>>

\* What epoll_wait reports, level-triggered, of the Channels still registered.
Reported ==
    {c \in readable : chan[c] = "open"} \union
    (IF eventfd THEN {WakeCh} ELSE {})

Poll ==
    /\ lpc = "poll"
    /\ Reported # {}
    /\ ready' = Reported
    /\ lpc' = "dispatch"
    /\ UNCHANGED <<running, eventfd, mutex, pending, locals, chanVars,
                   posterVars, qpc, accepted, executed, refused>>

\* epoll_wait interrupted by a signal: an empty batch (Poller.hpp:59-60).
PollInterrupted ==
    /\ lpc = "poll"
    /\ ready' = {}
    /\ lpc' = "dispatch"
    /\ UNCHANGED <<running, eventfd, mutex, pending, locals, chanVars,
                   posterVars, qpc, accepted, executed, refused>>

\* Mutant: the object is deleted inside the callback that closes it.
RetireAtOnce ==
    \/ UNCHANGED chan
    \/ \E d \in Channels :
         /\ chan[d] = "open"
         /\ chan' = [chan EXCEPT ![d] = "freed"]

\* Callbacks retire at most one Channel: removeChannel() and a move to the
\* list of objects to destroy, the object itself is left alive.
Retire ==
    \/ UNCHANGED chan
    \/ \E d \in Channels :
         /\ chan[d] = "open"
         /\ chan' = [chan EXCEPT ![d] = "retired"]

\* A callback may call quit(): store and wake-up, both by the loop thread.
MayQuit ==
    \/ UNCHANGED <<running, eventfd>>
    \/ running' = FALSE /\ eventfd' = TRUE

\* Channel::handleEvent of a Channel of the batch; its callback drains the
\* descriptor, may close a connection and may call quit().
Handle(c) ==
    /\ lpc = "dispatch"
    /\ c \in ready \ {WakeCh}
    /\ ready' = ready \ {c}
    /\ readable' = readable \ {c}
    /\ IF chan[c] = "open"
       THEN Retire /\ MayQuit
       ELSE UNCHANGED <<chan, running, eventfd>>    \* "if (closing) return"
    /\ UNCHANGED <<mutex, pending, locals, lpc, posterVars, qpc, accepted,
                   executed, refused>>

\* Mutant: the wake-up Channel is drained after doPendingFunctors has taken
\* the batch, at the end of the iteration.
PostDispatchDrains ==
    /\ lpc = "post"
    /\ chan' = [c \in Channels |->
                  IF chan[c] = "retired" THEN "freed" ELSE chan[c]]
    /\ eventfd' = FALSE
    /\ lpc' = "check"
    /\ UNCHANGED <<running, mutex, pending, locals, ready, readable,
                   posterVars, qpc, accepted, executed, refused>>

HandleWakeup ==
    /\ lpc = "dispatch"
    /\ WakeCh \in ready
    /\ ready' = ready \ {WakeCh}
    /\ eventfd' = FALSE
    /\ UNCHANGED <<running, mutex, pending, locals, lpc, chanVars, posterVars,
                   qpc, accepted, executed, refused>>

Dispatched ==
    /\ lpc = "dispatch"
    /\ ready = {}
    /\ lpc' = "swap"
    /\ UNCHANGED <<running, eventfd, mutex, pending, locals, ready, chanVars,
                   posterVars, qpc, accepted, executed, refused>>

\* Mutant: the batch is copied out of pending_ instead of swapped.
SwapCopies ==
    /\ lpc \in {"swap", "final"}
    /\ mutex = NoOne
    /\ locals' = pending
    /\ pending' = pending
    /\ lpc' = IF lpc = "swap" THEN "run" ELSE "finalrun"
    /\ UNCHANGED <<running, eventfd, mutex, ready, chanVars, posterVars, qpc,
                   accepted, executed, refused>>

\* The critical section of doPendingFunctors().
Swap ==
    /\ lpc \in {"swap", "final"}
    /\ mutex = NoOne
    /\ locals' = pending
    /\ pending' = <<>>
    /\ lpc' = IF lpc = "swap" THEN "run" ELSE "finalrun"
    /\ UNCHANGED <<running, eventfd, mutex, ready, chanVars, posterVars, qpc,
                   accepted, executed, refused>>

RunTask ==
    /\ lpc \in {"run", "finalrun"}
    /\ locals # <<>>
    /\ executed' = Append(executed, Head(locals))
    /\ locals' = Tail(locals)
    /\ Retire
    /\ MayQuit
    /\ UNCHANGED <<mutex, pending, lpc, ready, readable, posterVars, qpc,
                   accepted, refused>>

BatchDone ==
    /\ lpc \in {"run", "finalrun"}
    /\ locals = <<>>
    /\ lpc' = IF lpc = "run" THEN "post" ELSE "exited"
    /\ UNCHANGED <<running, eventfd, mutex, pending, locals, ready, chanVars,
                   posterVars, qpc, accepted, executed, refused>>

\* The safe point: postDispatch_ destroys what callbacks and tasks retired.
PostDispatch ==
    /\ lpc = "post"
    /\ chan' = [c \in Channels |->
                  IF chan[c] = "retired" THEN "freed" ELSE chan[c]]
    /\ lpc' = "check"
    /\ UNCHANGED <<running, eventfd, mutex, pending, locals, ready, readable,
                   posterVars, qpc, accepted, executed, refused>>

\* Something happens on a descriptor.
Arrive(c) ==
    /\ chan[c] = "open"
    /\ c \notin readable
    /\ readable' = readable \union {c}
    /\ UNCHANGED <<running, eventfd, mutex, pending, loopVars, chan,
                   posterVars, qpc, accepted, executed, refused>>

----------------------------------------------------------------------------
Post(p) ==
    PostLock(p) \/ PostAccept(p) \/ PostRefuse(p) \/ PostPush(p) \/ PostWake(p)

Quit(q) == QuitStore(q) \/ QuitWake(q)

LoopThread ==
    \/ Enter \/ CheckRunning
    \/ Poll
    \/ (\E c \in Channels : Handle(c)) \/ HandleWakeup \/ Dispatched
    \/ Swap \/ RunTask \/ BatchDone
    \/ PostDispatch

Next ==
    \/ \E p \in Posters : Post(p)
    \/ \E q \in Quitters : Quit(q)
    \/ LoopThread
    \/ PollInterrupted
    \/ \E c \in Channels : Arrive(c)

Spec == Init /\ [][Next]_vars

\* A caller inside runInLoop() and not waiting for mutex_.
CallGoesOn(p) == PostAccept(p) \/ PostRefuse(p) \/ PostPush(p) \/ PostWake(p)

\* The scheduler runs every thread that can run: the loop thread, and a
\* caller inside runInLoop() or quit().  Nobody has to make a call, a
\* descriptor need not become readable, a signal need not arrive.
Fairness ==
    /\ WF_vars(LoopThread)
    /\ \A p \in Posters : WF_vars(CallGoesOn(p))
    /\ \A q \in Quitters : WF_vars(QuitWake(q))

FairSpec == Spec /\ Fairness

----------------------------------------------------------------------------
(* Properties *)

TypeOK ==
    /\ running \in BOOLEAN
    /\ eventfd \in BOOLEAN
    /\ mutex \in Posters \union {NoOne}
    /\ pending \in Seq(Task)
    /\ locals \in Seq(Task)
    /\ lpc \in {"new", "check", "poll", "dispatch", "swap", "run", "post",
                "final", "finalrun", "exited"}
    /\ ready \subseteq Channels \union {WakeCh}
    /\ readable \subseteq Channels
    /\ chan \in [Channels -> {"open", "retired", "freed"}]
    /\ ppc \in [Posters -> {"idle", "check", "push", "wake"}]
    /\ posted \in [Posters -> 0 .. MaxPosts]
    /\ qpc \in [Quitters -> {"idle", "wake", "done"}]
    /\ accepted \in Seq(Task)
    /\ executed \in Seq(Task)
    /\ refused \subseteq Task

\* At every moment the accepted tasks are those that have run, then those the
\* loop thread holds, then those in pending_, in acceptance order: none is
\* lost, doubled or overtaken, whatever the threads' interleaving
\* (runInLoop and doPendingFunctors, EventLoop.hpp:93-107 and 122-130).
AcceptedInOrder == accepted = executed \o locals \o pending

\* runInLoop() answered true only for tasks that have run by the time loop()
\* returns: quit() races with a poster that has already seen running_ true,
\* and the drain after the while must catch its push (EventLoop.hpp:81-84).
DrainedAtExit == lpc = "exited" => executed = accepted

\* A loop blocked in epoll_wait with something to do has its eventfd set, or
\* the thread that gave it the work is about to set it
\* (EventLoop.hpp:86-87, 105 and 112-121).
NoLostWakeup ==
    lpc = "poll" /\ (pending # <<>> \/ ~running) =>
        \/ eventfd
        \/ \E p \in Posters : ppc[p] = "wake"
        \/ \E q \in Quitters : qpc[q] = "wake"

\* No Channel of the batch that is being dispatched has been destroyed, even
\* if another callback of the same batch closed it (EventLoop.hpp:51-57).
NoUseAfterFree == \A c \in ready \ {WakeCh} : chan[c] # "freed"

\* Every accepted task runs (EventLoop.hpp:89-92), whether or not the loop is
\* told to quit meanwhile.
EveryAcceptedRuns ==
    \A t \in Task :
        (\E i \in DOMAIN accepted : accepted[i] = t)
            ~> (\E i \in DOMAIN executed : executed[i] = t)

\* quit() ends the loop, also when it is called before loop() is entered
\* (EventLoop.hpp:65-67).
QuitEndsLoop == ~running ~> lpc = "exited"

\* Both: no task is stranded and no quit() goes unseen.
LoopProgress == EveryAcceptedRuns /\ QuitEndsLoop

\* The loop keeps the contract of TaskExecutor.
Executor == INSTANCE TaskExecutor WITH
    phase    <- IF lpc = "exited" THEN "stopped"
                ELSE IF running THEN "open" ELSE "closing",
    queue    <- locals \o pending,
    executed <- executed,
    refused  <- refused

ImplementsExecutor == Executor!Spec
============================================================================
