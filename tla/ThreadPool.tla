---------------------------- MODULE ThreadPool ----------------------------
(***************************************************************************)
(* The thread pool (include/Threadpool.hpp): worker threads, the threads   *)
(* that submit tasks, the owner that destroys the pool, the condition      *)
(* variable between them.  A task's body may submit tasks itself.          *)
(*                                                                         *)
(* A step is one critical section of mutex_, one notification, or the end  *)
(* of a task.  stop_ is written and tested only under mutex_, and a        *)
(* critical section never blocks, so each is atomic to the others.         *)
(***************************************************************************)
EXTENDS Naturals, Sequences

CONSTANTS
    Workers,        \* workers_
    Clients,        \* threads that call submit() besides the tasks
    MaxSubmits,     \* bound: calls of submit() by each of them
    NoTask          \* what a worker holds between tasks

ASSUME ConstantsAssumption ==
    /\ MaxSubmits \in Nat
    /\ Workers \cap Clients = {}
    /\ NoTask \notin (Workers \union Clients) \X (1 .. MaxSubmits)

Submitters == Workers \union Clients
Task == Submitters \X (1 .. MaxSubmits)

VARIABLES
    stop,           \* stop_
    tasks,          \* tasks_
    wpc,            \* each worker: check, waiting (in cv_), running, exited
    holds,          \* the task each worker has taken
    spc,            \* each submitter: idle, notify (pushed, cv_ not notified)
    submitted,      \* calls of submit() each submitter has made
    dpc,            \* the destructor: idle, notify, join, done
    accepted,       \* history: tasks pushed
    done,           \* history: tasks whose future is ready
    rejected        \* history: tasks whose submit() threw

workerVars == <<wpc, holds>>
clientVars == <<spc, submitted>>
vars == <<stop, tasks, workerVars, clientVars, dpc, accepted, done, rejected>>

NextTask(s) == <<s, submitted[s] + 1>>

Init ==
    /\ stop = FALSE
    /\ tasks = <<>>
    /\ wpc = [w \in Workers |-> "check"]
    /\ holds = [w \in Workers |-> NoTask]
    /\ spc = [s \in Submitters |-> "idle"]
    /\ submitted = [s \in Submitters |-> 0]
    /\ dpc = "idle"
    /\ accepted = {}
    /\ done = {}
    /\ rejected = {}

----------------------------------------------------------------------------
(* submit() *)

\* A thread that may call submit(): a client while the pool exists, a worker
\* inside a task.
Calls(s) ==
    /\ spc[s] = "idle"
    /\ submitted[s] < MaxSubmits
    /\ dpc # "done"
    /\ s \in Workers => wpc[s] = "running"

Push(s) ==
    /\ Calls(s)
    /\ ~stop
    /\ tasks' = Append(tasks, NextTask(s))
    /\ accepted' = accepted \union {NextTask(s)}
    /\ spc' = [spc EXCEPT ![s] = "notify"]
    /\ submitted' = [submitted EXCEPT ![s] = @ + 1]
    /\ UNCHANGED <<stop, workerVars, dpc, done, rejected>>

\* submit() throws.
Reject(s) ==
    /\ Calls(s)
    /\ stop
    /\ rejected' = rejected \union {NextTask(s)}
    /\ submitted' = [submitted EXCEPT ![s] = @ + 1]
    /\ UNCHANGED <<stop, tasks, workerVars, spc, dpc, accepted, done>>

Waiting == {w \in Workers : wpc[w] = "waiting"}

\* Mutant: nobody is notified of a task.
NotifyNobody(s) ==
    /\ spc[s] = "notify"
    /\ spc' = [spc EXCEPT ![s] = "idle"]
    /\ UNCHANGED <<stop, tasks, workerVars, submitted, dpc, accepted, done,
                   rejected>>

\* notify_one: some waiting worker, if there is any.
NotifyOne(s) ==
    /\ spc[s] = "notify"
    /\ spc' = [spc EXCEPT ![s] = "idle"]
    /\ IF Waiting = {} THEN UNCHANGED wpc
       ELSE \E w \in Waiting : wpc' = [wpc EXCEPT ![w] = "check"]
    /\ UNCHANGED <<stop, tasks, holds, submitted, dpc, accepted, done, rejected>>

----------------------------------------------------------------------------
(* worker() *)

\* cv_.wait returns at once or goes to sleep: the predicate under the lock.
Wait(w) ==
    /\ wpc[w] = "check"
    /\ ~stop
    /\ tasks = <<>>
    /\ wpc' = [wpc EXCEPT ![w] = "waiting"]
    /\ UNCHANGED <<stop, tasks, holds, clientVars, dpc, accepted, done, rejected>>

\* Mutant: the worker looks at the front and pops it later, outside the lock.
TakeFront(w) ==
    /\ wpc[w] = "check"
    /\ tasks # <<>>
    /\ holds' = [holds EXCEPT ![w] = Head(tasks)]
    /\ wpc' = [wpc EXCEPT ![w] = "running"]
    /\ UNCHANGED <<stop, tasks, clientVars, dpc, accepted, done, rejected>>

\* Mutant: the worker takes the first task and empties the queue.
TakeClears(w) ==
    /\ wpc[w] = "check"
    /\ tasks # <<>>
    /\ holds' = [holds EXCEPT ![w] = Head(tasks)]
    /\ tasks' = <<>>
    /\ wpc' = [wpc EXCEPT ![w] = "running"]
    /\ UNCHANGED <<stop, clientVars, dpc, accepted, done, rejected>>

Take(w) ==
    /\ wpc[w] = "check"
    /\ tasks # <<>>
    /\ holds' = [holds EXCEPT ![w] = Head(tasks)]
    /\ tasks' = Tail(tasks)
    /\ wpc' = [wpc EXCEPT ![w] = "running"]
    /\ UNCHANGED <<stop, clientVars, dpc, accepted, done, rejected>>

\* Mutant: the worker returns as soon as stop_ is set.
ExitAtStop(w) ==
    /\ wpc[w] = "check"
    /\ stop
    /\ wpc' = [wpc EXCEPT ![w] = "exited"]
    /\ UNCHANGED <<stop, tasks, holds, clientVars, dpc, accepted, done, rejected>>

Exit(w) ==
    /\ wpc[w] = "check"
    /\ stop
    /\ tasks = <<>>
    /\ wpc' = [wpc EXCEPT ![w] = "exited"]
    /\ UNCHANGED <<stop, tasks, holds, clientVars, dpc, accepted, done, rejected>>

\* The task has returned, or thrown: either way its future is ready.
Finish(w) ==
    /\ wpc[w] = "running"
    /\ spc[w] = "idle"
    /\ done' = done \union {holds[w]}
    /\ holds' = [holds EXCEPT ![w] = NoTask]
    /\ wpc' = [wpc EXCEPT ![w] = "check"]
    /\ UNCHANGED <<stop, tasks, clientVars, dpc, accepted, rejected>>

\* A condition variable may wake up a thread by itself.
SpuriousWakeup(w) ==
    /\ wpc[w] = "waiting"
    /\ wpc' = [wpc EXCEPT ![w] = "check"]
    /\ UNCHANGED <<stop, tasks, holds, clientVars, dpc, accepted, done, rejected>>

----------------------------------------------------------------------------
(* ~Threadpool() *)

Stop ==
    /\ dpc = "idle"
    /\ stop' = TRUE
    /\ dpc' = "notify"
    /\ UNCHANGED <<tasks, workerVars, clientVars, accepted, done, rejected>>

\* Mutant: the destructor notifies one worker only.
NotifyOnlyOne ==
    /\ dpc = "notify"
    /\ dpc' = "join"
    /\ IF Waiting = {} THEN UNCHANGED wpc
       ELSE \E w \in Waiting : wpc' = [wpc EXCEPT ![w] = "check"]
    /\ UNCHANGED <<stop, tasks, holds, clientVars, accepted, done, rejected>>

NotifyAll ==
    /\ dpc = "notify"
    /\ dpc' = "join"
    /\ wpc' = [w \in Workers |-> IF wpc[w] = "waiting" THEN "check" ELSE wpc[w]]
    /\ UNCHANGED <<stop, tasks, holds, clientVars, accepted, done, rejected>>

Joined ==
    /\ dpc = "join"
    /\ \A w \in Workers : wpc[w] = "exited"
    /\ dpc' = "done"
    /\ UNCHANGED <<stop, tasks, workerVars, clientVars, accepted, done, rejected>>

----------------------------------------------------------------------------
Worker(w) == Wait(w) \/ Take(w) \/ Exit(w) \/ Finish(w)

Next ==
    \/ \E s \in Submitters : Push(s) \/ Reject(s) \/ NotifyOne(s)
    \/ \E w \in Workers : Worker(w) \/ SpuriousWakeup(w)
    \/ Stop \/ NotifyAll \/ Joined

Spec == Init /\ [][Next]_vars

\* Threads inside the pool's code go on; tasks return.  Nobody has to submit
\* or to destroy the pool, and no wake-up comes by itself.
FairSpec ==
    /\ Spec
    /\ \A w \in Workers : WF_vars(Worker(w))
    /\ \A s \in Submitters : WF_vars(NotifyOne(s))
    /\ WF_vars(NotifyAll \/ Joined)

----------------------------------------------------------------------------
(* Properties *)

TypeOK ==
    /\ stop \in BOOLEAN
    /\ tasks \in Seq(Task)
    /\ wpc \in [Workers -> {"check", "waiting", "running", "exited"}]
    /\ holds \in [Workers -> Task \union {NoTask}]
    /\ spc \in [Submitters -> {"idle", "notify"}]
    /\ submitted \in [Submitters -> 0 .. MaxSubmits]
    /\ dpc \in {"idle", "notify", "join", "done"}
    /\ accepted \subseteq Task
    /\ done \subseteq Task
    /\ rejected \subseteq Task

Queued == {tasks[k] : k \in DOMAIN tasks}
Held   == {holds[w] : w \in Workers} \ {NoTask}

\* Every accepted task is queued, held by a worker, or done: none vanishes,
\* whichever worker, submit() or destructor comes first (Threadpool.hpp:29-61).
NothingLost == accepted = Queued \union Held \union done

\* No task is in two places: queued twice, held by two workers, or held or
\* queued after it was done (Threadpool.hpp:53-57).
RunsOnce ==
    /\ \A j, k \in DOMAIN tasks : tasks[j] = tasks[k] => j = k
    /\ \A v, w \in Workers : holds[v] = holds[w] /\ holds[v] # NoTask => v = w
    /\ Queued \cap Held = {}
    /\ (Queued \union Held) \cap done = {}

\* The destructor of a pool that has workers returns only when every accepted
\* task is done, whatever the order of the last submit(), stop_ and the workers'
\* tests of both (Threadpool.hpp:14-27 and 54).
DrainedAtEnd == dpc = "done" /\ Workers # {} => done = accepted

\* If a task is queued and every worker is asleep or gone, a notification is
\* on its way (Threadpool.hpp:33-42 and 51-54).
NoLostWakeup ==
    /\ tasks # <<>>
    /\ Workers # {}
    /\ \A w \in Workers : wpc[w] \in {"waiting", "exited"}
    => dpc = "notify" \/ \E s \in Submitters : spc[s] = "notify"

\* Every accepted task is done in the end (Threadpool.hpp:29-61).  As many can
\* be accepted as MaxSubmits allows, and what is done stays so: this is the same
\* as  t \in accepted ~> t \in done  for each task.
EveryTaskRuns == []<>(accepted \subseteq done)

\* The destructor returns (Threadpool.hpp:14-27).
DestructorEnds == []<>(stop => dpc = "done")
===========================================================================
