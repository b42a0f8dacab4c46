---------------------------- MODULE LoggingPool ----------------------------
(***************************************************************************)
(* The pool and the logger as src/main.cpp uses them together (62-70): the *)
(* tasks of the pool log, and main() destroys the logger, which was        *)
(* declared last, before the pool that may still have tasks.               *)
(***************************************************************************)
EXTENDS ThreadPool, FiniteSets

CONSTANT MaxMsgs    \* bound: messages logged, and tasks

ASSUME LoggingAssumption == MaxMsgs \in Nat

VARIABLES
    running, buffer, toWrite, file, logged, before, notifying,
    bpc,            \* the logger's background thread
    lpc,            \* the logger's destructor
    body,           \* each task being run: start, called
    author,         \* history: the task of each message
    finished        \* history: the tasks done when the logger's destructor began

logger == <<running, buffer, toWrite, file, logged, before, notifying, bpc, lpc>>
task == <<body, author, finished>>

Log == INSTANCE SimpleLogger
          WITH Loggers <- Workers, wpc <- bpc, dpc <- lpc

LoggingInit ==
    /\ Init
    /\ Log!Init
    /\ body = [w \in Workers |-> "start"]
    /\ author = <<>>
    /\ finished = {}

----------------------------------------------------------------------------
(* The task's body: one call of logger2.log(), or of submit() *)

TaskLogs(w) ==
    /\ wpc[w] = "running" /\ body[w] = "start" /\ spc[w] = "idle"
    /\ Log!Push(w)
    /\ body' = [body EXCEPT ![w] = "called"]
    /\ author' = Append(author, holds[w])
    /\ UNCHANGED <<vars, finished>>

\* log() on the destroyed logger is undefined; here its message goes nowhere,
\* and nothing is stated of a task that does this.
TaskLogsTooLate(w) ==
    /\ wpc[w] = "running" /\ body[w] = "start" /\ spc[w] = "idle"
    /\ lpc = "done"
    /\ body' = [body EXCEPT ![w] = "called"]
    /\ UNCHANGED <<vars, logger, author, finished>>

LogNotifies(w) ==
    /\ Log!NotifyOne(w)
    /\ UNCHANGED <<vars, task>>

TaskReturns(w) ==
    /\ body[w] = "called" /\ w \notin notifying
    /\ Finish(w)
    /\ body' = [body EXCEPT ![w] = "start"]
    /\ UNCHANGED <<logger, author, finished>>

----------------------------------------------------------------------------
(* The steps of the pool and the logger by thread *)

all == <<vars, logger, task>>

\* Bound: as many tasks as messages.
MaySubmit == Cardinality(accepted) < MaxMsgs

ClientSubmits(c) ==
    /\ MaySubmit
    /\ Push(c) \/ Reject(c)
    /\ UNCHANGED <<logger, task>>

TaskSubmits(w) ==
    /\ body[w] = "start" /\ MaySubmit
    /\ Push(w) \/ Reject(w)
    /\ body' = [body EXCEPT ![w] = "called"]
    /\ UNCHANGED <<logger, author, finished>>

SubmitNotifies(s) ==
    /\ NotifyOne(s)
    /\ UNCHANGED <<logger, task>>

WorkerStep(w) ==
    \/ /\ Wait(w) \/ Take(w) \/ Exit(w)
       /\ UNCHANGED <<logger, task>>
    \/ SubmitNotifies(w)
    \/ TaskSubmits(w) \/ TaskLogs(w) \/ TaskLogsTooLate(w)
    \/ LogNotifies(w) \/ TaskReturns(w)

LogThread ==
    /\ Log!Worker
    /\ UNCHANGED <<vars, task>>

SpuriousWakeups ==
    \/ \E w \in Workers : SpuriousWakeup(w) /\ UNCHANGED <<logger, task>>
    \/ Log!SpuriousWakeup /\ UNCHANGED <<vars, task>>

LogStops ==
    /\ Log!Stop
    /\ finished' = done
    /\ UNCHANGED <<vars, body, author>>

PoolStops ==
    /\ lpc = "done"
    /\ Stop
    /\ UNCHANGED <<logger, task>>

Destructors ==
    \/ (Log!NotifyAll \/ Log!Join) /\ UNCHANGED <<vars, task>>
    \/ (NotifyAll \/ Joined) /\ UNCHANGED <<logger, task>>

LoggingNext ==
    \/ \E c \in Clients : ClientSubmits(c) \/ SubmitNotifies(c)
    \/ \E w \in Workers : WorkerStep(w)
    \/ LogThread \/ SpuriousWakeups
    \/ LogStops \/ PoolStops \/ Destructors

LoggingSpec == LoggingInit /\ [][LoggingNext]_all

\* Threads inside the pool's and the logger's code go on, and a task gets to
\* its end.  Nobody has to submit or destroy, and no wake-up comes by itself.
FairLoggingSpec ==
    /\ LoggingSpec
    /\ \A w \in Workers : WF_all(WorkerStep(w))
    /\ \A c \in Clients : WF_all(SubmitNotifies(c))
    /\ WF_all(LogThread)
    /\ WF_all(Destructors)

----------------------------------------------------------------------------
(* Properties, besides those of ThreadPool *)

\* When the logger's destructor returns, the file holds all that was logged
\* before it began, in order and once, whichever tasks of the pool logged it
\* (simpleLogger.hpp:21-70).
WrittenAtExit == Log!WrittenAtExit

\* Accepted tasks run, and while the logger is up what they log reaches the
\* file without another log() (Threadpool.hpp:47-61, simpleLogger.hpp:31-70).
AllGetsDone == EveryTaskRuns /\ Log!EveryMessageWritten

\* What was logged by a task whose future was ready when the logger's destructor
\* began is in the file when that destructor returns, whatever the other tasks
\* log meanwhile (main.cpp:62-70, simpleLogger.hpp:21-70, Threadpool.hpp:47-61).
FinishedTasksLogged ==
    lpc = "done" => \A k \in DOMAIN author : author[k] \in finished => k <= Len(file)

\* Both destructors return (simpleLogger.hpp:21-29, Threadpool.hpp:14-27).
DestructorsEnd == Log!DestructorEnds /\ DestructorEnds
===========================================================================
