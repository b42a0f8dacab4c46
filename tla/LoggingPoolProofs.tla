------------------------- MODULE LoggingPoolProofs -------------------------
(***************************************************************************)
(* Proofs about ThreadPool, SimpleLogger and LoggingPool for any sets of   *)
(* workers and clients and any number of tasks and messages: the safety    *)
(* invariants of each alone; that used together the pool is still a        *)
(* ThreadPool and the logger still a SimpleLogger, so that what is proved  *)
(* of each alone holds; and that what the finished tasks have logged is in *)
(* the file.  The logger is proved about as Log, the instance LoggingPool  *)
(* declares: its threads are the workers, of which any set will do.        *)
(***************************************************************************)
EXTENDS LoggingPool, TLAPS, SequenceTheorems

----------------------------------------------------------------------------
(* ThreadPool *)

\* Tasks are numbered in the order of submission, so the next one is new.
Numbered == \A t \in accepted : t[2] <= submitted[t[1]]

\* A worker holds a task exactly while it runs it.
HoldsWhileRunning == \A w \in Workers : (holds[w] # NoTask) <=> (wpc[w] = "running")

\* A worker returns only after stop_ is set and the queue is empty, and it stays
\* empty then, since submit() throws.
EmptyAfterExit ==
    /\ stop <=> dpc # "idle"
    /\ \A w \in Workers : wpc[w] = "exited" => stop /\ tasks = <<>>
    /\ dpc = "done" => \A w \in Workers : wpc[w] = "exited"

\* The inductive invariant.
IInv ==
    /\ TypeOK
    /\ Numbered
    /\ HoldsWhileRunning
    /\ EmptyAfterExit
    /\ NothingLost
    /\ RunsOnce
    /\ NoLostWakeup

----------------------------------------------------------------------------
\* The elements of a queue after a push.
LEMMA QueuedAfterPush ==
    ASSUME NEW q \in Seq(Task), NEW t \in Task
    PROVE  /\ Append(q, t) \in Seq(Task)
           /\ {Append(q, t)[k] : k \in DOMAIN Append(q, t)} =
                {q[k] : k \in DOMAIN q} \union {t}
           /\ (/\ \A j, k \in DOMAIN q : q[j] = q[k] => j = k
               /\ t \notin {q[k] : k \in DOMAIN q})
              => \A j, k \in DOMAIN Append(q, t) :
                   Append(q, t)[j] = Append(q, t)[k] => j = k
<1>1. /\ Append(q, t) \in Seq(Task)
      /\ Len(Append(q, t)) = Len(q) + 1
      /\ \A i \in 1 .. Len(q) : Append(q, t)[i] = q[i]
      /\ Append(q, t)[Len(q) + 1] = t
  BY AppendProperties
<1>2. /\ DOMAIN q = 1 .. Len(q)
      /\ DOMAIN Append(q, t) = 1 .. (Len(q) + 1)
      /\ Len(q) \in Nat
  BY <1>1, LenProperties
<1>3. DOMAIN Append(q, t) = DOMAIN q \union {Len(q) + 1}
  BY <1>2
<1> QED BY <1>1, <1>2, <1>3

\* The elements of a queue after a pop.
LEMMA QueuedAfterPop ==
    ASSUME NEW q \in Seq(Task), q # <<>>
    PROVE  /\ Head(q) \in Task
           /\ Tail(q) \in Seq(Task)
           /\ {q[k] : k \in DOMAIN q} =
                {Tail(q)[k] : k \in DOMAIN Tail(q)} \union {Head(q)}
           /\ (\A j, k \in DOMAIN q : q[j] = q[k] => j = k)
              => /\ Head(q) \notin {Tail(q)[k] : k \in DOMAIN Tail(q)}
                 /\ \A j, k \in DOMAIN Tail(q) : Tail(q)[j] = Tail(q)[k] => j = k
<1>1. /\ Head(q) \in Task
      /\ Tail(q) \in Seq(Task)
      /\ Len(Tail(q)) = Len(q) - 1
      /\ \A i \in 1 .. Len(Tail(q)) : Tail(q)[i] = q[i + 1]
  BY HeadTailProperties
<1>2. Head(q) = q[1] OBVIOUS
<1>3. Len(q) \in Nat \ {0} BY EmptySeq
<1>4. /\ DOMAIN q = 1 .. Len(q)
      /\ DOMAIN Tail(q) = 1 .. (Len(q) - 1)
  BY <1>1, LenProperties
<1>5. \A i \in DOMAIN Tail(q) : i + 1 \in DOMAIN q /\ i + 1 # 1 /\ Tail(q)[i] = q[i + 1]
  BY <1>1, <1>3, <1>4
<1>6. \A k \in DOMAIN q : k = 1 \/ (k - 1 \in DOMAIN Tail(q) /\ (k - 1) + 1 = k)
  BY <1>3, <1>4
<1>7. 1 \in DOMAIN q BY <1>3, <1>4
<1>8. {q[k] : k \in DOMAIN q} =
        {Tail(q)[k] : k \in DOMAIN Tail(q)} \union {Head(q)}
  BY <1>2, <1>5, <1>6, <1>7
<1>9. ASSUME \A j, k \in DOMAIN q : q[j] = q[k] => j = k
      PROVE  /\ Head(q) \notin {Tail(q)[k] : k \in DOMAIN Tail(q)}
             /\ \A j, k \in DOMAIN Tail(q) : Tail(q)[j] = Tail(q)[k] => j = k
  BY <1>2, <1>4, <1>5, <1>7, <1>9
<1> QED BY <1>1, <1>8, <1>9

\* The task of a call of submit() is a task, and a new one.
LEMMA NextTaskIsNew ==
    ASSUME TypeOK, Numbered, NEW s \in Submitters, Calls(s)
    PROVE  /\ NextTask(s) \in Task
           /\ submitted[s] + 1 \in 0 .. MaxSubmits
           /\ NextTask(s) \notin accepted
<1>1. submitted[s] \in 0 .. MaxSubmits /\ submitted[s] < MaxSubmits
  BY DEF TypeOK, Calls
<1>2. submitted[s] + 1 \in 1 .. MaxSubmits
  BY <1>1, ConstantsAssumption
<1>3. ~(submitted[s] + 1 <= submitted[s]) BY <1>1
<1>4. NextTask(s)[1] = s /\ NextTask(s)[2] = submitted[s] + 1 BY DEF NextTask
<1> QED BY <1>2, <1>3, <1>4 DEF NextTask, Task, Numbered

LEMMA NoTaskIsNone == NoTask \notin Task
BY ConstantsAssumption DEF Task, Submitters

\* The invariant holds at first.
LEMMA InitInv == Init => IInv
<1> SUFFICES ASSUME Init PROVE IInv OBVIOUS
<1>1. TypeOK
  <2>1. tasks \in Seq(Task) BY DEF Init
  <2>2. 0 \in 0 .. MaxSubmits BY ConstantsAssumption
  <2> QED BY <2>1, <2>2 DEF Init, TypeOK
<1>2. Numbered /\ HoldsWhileRunning /\ EmptyAfterExit /\ NoLostWakeup
  BY DEF Init, Numbered, HoldsWhileRunning, EmptyAfterExit, NoLostWakeup
<1>3. Queued = {} /\ Held = {} /\ DOMAIN tasks = {}
  BY DEF Init, Queued, Held
<1>4. NothingLost BY <1>3 DEF Init, NothingLost
<1>5. RunsOnce BY <1>3 DEF Init, RunsOnce
<1> QED BY <1>1, <1>2, <1>4, <1>5 DEF IInv

----------------------------------------------------------------------------
\* submit() preserves the invariant.
LEMMA PushInv ==
    ASSUME IInv, NEW s \in Submitters, Push(s)
    PROVE  IInv'
<1> USE DEF IInv
<1>1. /\ NextTask(s) \in Task
      /\ submitted[s] + 1 \in 0 .. MaxSubmits
      /\ NextTask(s) \notin accepted
  BY NextTaskIsNew DEF Push
<1>2. tasks \in Seq(Task) BY DEF TypeOK
<1>3. NextTask(s) \notin Queued BY <1>1 DEF NothingLost
<1>4. /\ tasks' \in Seq(Task)
      /\ Queued' = Queued \union {NextTask(s)}
      /\ \A j, k \in DOMAIN tasks' : tasks'[j] = tasks'[k] => j = k
  BY <1>1, <1>2, <1>3, QueuedAfterPush DEF Push, Queued, RunsOnce
<1>5. Held' = Held BY DEF Push, workerVars, Held
<1>6. TypeOK' BY <1>1, <1>4 DEF Push, TypeOK, workerVars
<1>7. Numbered'
  <2> SUFFICES ASSUME NEW t \in accepted' PROVE t[2] <= submitted'[t[1]]
    BY DEF Numbered
  <2>1. CASE t = NextTask(s)
    <3>1. t[1] = s /\ t[2] = submitted[s] + 1 BY <2>1 DEF NextTask
    <3>2. submitted'[s] = submitted[s] + 1 BY DEF Push, TypeOK
    <3> QED BY <1>1, <3>1, <3>2
  <2>2. CASE t \in accepted
    <3>1. t[1] \in Submitters /\ t[2] \in 1 .. MaxSubmits
      BY <2>2 DEF TypeOK, Task
    <3>2. /\ submitted[t[1]] \in 0 .. MaxSubmits
          /\ submitted'[t[1]] = submitted[t[1]]
             \/ submitted'[t[1]] = submitted[t[1]] + 1
      BY <3>1 DEF Push, TypeOK
    <3>3. t[2] <= submitted[t[1]] BY <2>2 DEF Numbered
    <3> QED BY <3>1, <3>2, <3>3, ConstantsAssumption
  <2> QED BY <2>1, <2>2 DEF Push
<1>8. HoldsWhileRunning' BY DEF Push, workerVars, HoldsWhileRunning
<1>9. EmptyAfterExit' BY DEF Push, workerVars, EmptyAfterExit
<1>10. NothingLost' BY <1>4, <1>5 DEF Push, NothingLost
<1>11. RunsOnce' BY <1>1, <1>4, <1>5 DEF Push, workerVars, RunsOnce, NothingLost
<1>12. NoLostWakeup' BY DEF Push, NoLostWakeup, TypeOK
<1> QED BY <1>6, <1>7, <1>8, <1>9, <1>10, <1>11, <1>12

LEMMA RejectInv ==
    ASSUME IInv, NEW s \in Submitters, Reject(s)
    PROVE  IInv'
<1> USE DEF IInv
<1>1. NextTask(s) \in Task /\ submitted[s] + 1 \in 0 .. MaxSubmits
  BY NextTaskIsNew DEF Reject
<1>2. Queued' = Queued /\ Held' = Held
  BY DEF Reject, workerVars, Queued, Held
<1>3. TypeOK' BY <1>1 DEF Reject, TypeOK, workerVars
<1>4. Numbered'
  <2> SUFFICES ASSUME NEW t \in accepted PROVE t[2] <= submitted'[t[1]]
    BY DEF Numbered, Reject
  <2>1. t[1] \in Submitters /\ t[2] \in 1 .. MaxSubmits
    BY DEF TypeOK, Task
  <2>2. /\ submitted[t[1]] \in 0 .. MaxSubmits
        /\ submitted'[t[1]] = submitted[t[1]]
           \/ submitted'[t[1]] = submitted[t[1]] + 1
    BY <2>1 DEF Reject, TypeOK
  <2>3. t[2] <= submitted[t[1]] BY DEF Numbered
  <2> QED BY <2>1, <2>2, <2>3, ConstantsAssumption
<1>5. HoldsWhileRunning' /\ EmptyAfterExit' /\ NoLostWakeup'
  BY DEF Reject, workerVars, HoldsWhileRunning, EmptyAfterExit, NoLostWakeup
<1>6. NothingLost' BY <1>2 DEF Reject, NothingLost
<1>7. RunsOnce' BY <1>2 DEF Reject, workerVars, RunsOnce
<1> QED BY <1>3, <1>4, <1>5, <1>6, <1>7

\* A step that changes neither the queue nor what is held nor the histories
\* leaves them as they are.
LEMMA TasksUntouched ==
    ASSUME NothingLost, RunsOnce, Numbered,
           UNCHANGED <<tasks, holds, accepted, done, submitted>>
    PROVE  NothingLost' /\ RunsOnce' /\ Numbered'
<1>1. Queued' = Queued /\ Held' = Held BY DEF Queued, Held
<1> QED BY <1>1 DEF NothingLost, RunsOnce, Numbered

\* When no worker waits, some worker that has not returned is awake, or all
\* have returned and the queue is empty.
LEMMA NobodyWaits ==
    ASSUME EmptyAfterExit, Waiting = {}, Workers # {}, tasks # <<>>
    PROVE  \E w \in Workers : wpc[w] \notin {"waiting", "exited"}
BY DEF EmptyAfterExit, Waiting

LEMMA NotifyOneInv ==
    ASSUME IInv, NEW s \in Submitters, NotifyOne(s)
    PROVE  IInv'
<1> USE DEF IInv
<1>1. NothingLost' /\ RunsOnce' /\ Numbered' BY TasksUntouched DEF NotifyOne
<1>2. CASE Waiting = {}
  <2>1. UNCHANGED wpc BY <1>2 DEF NotifyOne
  <2>2. TypeOK' /\ HoldsWhileRunning' /\ EmptyAfterExit'
    BY <2>1 DEF NotifyOne, TypeOK, HoldsWhileRunning, EmptyAfterExit
  <2>3. NoLostWakeup'
    BY <1>2, <2>1, NobodyWaits DEF NotifyOne, NoLostWakeup
  <2> QED BY <1>1, <2>2, <2>3
<1>3. CASE Waiting # {}
  <2>1. PICK w \in Waiting : wpc' = [wpc EXCEPT ![w] = "check"]
    BY <1>3 DEF NotifyOne
  <2>2. w \in Workers /\ wpc[w] = "waiting" BY DEF Waiting
  <2>3. wpc'[w] = "check" BY <2>1, <2>2 DEF TypeOK
  <2>4. TypeOK' BY <2>1 DEF NotifyOne, TypeOK
  <2>5. HoldsWhileRunning' /\ EmptyAfterExit'
    BY <2>1, <2>2 DEF NotifyOne, TypeOK, HoldsWhileRunning, EmptyAfterExit
  <2>6. NoLostWakeup' BY <2>2, <2>3 DEF NoLostWakeup
  <2> QED BY <1>1, <2>4, <2>5, <2>6
<1> QED BY <1>2, <1>3

----------------------------------------------------------------------------
\* The steps of a worker preserve the invariant.
LEMMA WaitInv ==
    ASSUME IInv, NEW w \in Workers, Wait(w)
    PROVE  IInv'
<1> USE DEF IInv
<1>1. NothingLost' /\ RunsOnce' /\ Numbered'
  BY TasksUntouched DEF Wait, clientVars
<1>2. TypeOK' BY DEF Wait, clientVars, TypeOK
<1>3. HoldsWhileRunning' /\ EmptyAfterExit'
  BY DEF Wait, clientVars, TypeOK, HoldsWhileRunning, EmptyAfterExit
<1>4. NoLostWakeup' BY DEF Wait, NoLostWakeup
<1> QED BY <1>1, <1>2, <1>3, <1>4

LEMMA ExitInv ==
    ASSUME IInv, NEW w \in Workers, Exit(w)
    PROVE  IInv'
<1> USE DEF IInv
<1>1. NothingLost' /\ RunsOnce' /\ Numbered'
  BY TasksUntouched DEF Exit, clientVars
<1>2. TypeOK' BY DEF Exit, clientVars, TypeOK
<1>3. HoldsWhileRunning' /\ EmptyAfterExit'
  BY DEF Exit, clientVars, TypeOK, HoldsWhileRunning, EmptyAfterExit
<1>4. NoLostWakeup' BY DEF Exit, NoLostWakeup
<1> QED BY <1>1, <1>2, <1>3, <1>4

LEMMA SpuriousInv ==
    ASSUME IInv, NEW w \in Workers, SpuriousWakeup(w)
    PROVE  IInv'
<1> USE DEF IInv
<1>1. NothingLost' /\ RunsOnce' /\ Numbered'
  BY TasksUntouched DEF SpuriousWakeup, clientVars
<1>2. TypeOK' BY DEF SpuriousWakeup, clientVars, TypeOK
<1>3. HoldsWhileRunning' /\ EmptyAfterExit'
  BY DEF SpuriousWakeup, clientVars, TypeOK, HoldsWhileRunning, EmptyAfterExit
<1>4. wpc'[w] = "check" BY DEF SpuriousWakeup, TypeOK
<1>5. NoLostWakeup' BY <1>4 DEF NoLostWakeup
<1> QED BY <1>1, <1>2, <1>3, <1>5

LEMMA TakeInv ==
    ASSUME IInv, NEW w \in Workers, Take(w)
    PROVE  IInv'
<1> USE DEF IInv
<1> DEFINE t == Head(tasks)
<1>1. tasks \in Seq(Task) /\ tasks # <<>> BY DEF Take, TypeOK
<1>2. /\ t \in Task
      /\ tasks' \in Seq(Task)
      /\ Queued = Queued' \union {t}
      /\ t \notin Queued'
      /\ \A j, k \in DOMAIN tasks' : tasks'[j] = tasks'[k] => j = k
  <2>1. tasks' = Tail(tasks) BY DEF Take
  <2>2. \A j, k \in DOMAIN tasks : tasks[j] = tasks[k] => j = k BY DEF RunsOnce
  <2>3. /\ t \in Task
        /\ Tail(tasks) \in Seq(Task)
        /\ Queued = {Tail(tasks)[k] : k \in DOMAIN Tail(tasks)} \union {t}
        /\ t \notin {Tail(tasks)[k] : k \in DOMAIN Tail(tasks)}
        /\ \A j, k \in DOMAIN Tail(tasks) :
             Tail(tasks)[j] = Tail(tasks)[k] => j = k
    BY <1>1, <2>2, QueuedAfterPop DEF Queued
  <2> HIDE DEF t
  <2> QED BY <2>1, <2>3 DEF Queued
<1>3. t # NoTask BY <1>2, NoTaskIsNone
<1>4. holds[w] = NoTask BY DEF Take, HoldsWhileRunning
<1>5. holds' = [holds EXCEPT ![w] = t] /\ wpc' = [wpc EXCEPT ![w] = "running"]
  BY DEF Take
<1>6. holds \in [Workers -> Task \union {NoTask}] BY DEF TypeOK
<1>7. Held' = Held \union {t} BY <1>3, <1>4, <1>5, <1>6 DEF Held
<1>8. t \in Queued /\ t \notin Held /\ t \notin done
  BY <1>2 DEF RunsOnce
<1>9. TypeOK' BY <1>2, <1>5 DEF Take, clientVars, TypeOK
<1>10. Numbered' BY DEF Take, clientVars, Numbered
<1>11. HoldsWhileRunning' BY <1>3, <1>5 DEF TypeOK, HoldsWhileRunning
<1>12. EmptyAfterExit'
  BY <1>1, <1>5 DEF Take, TypeOK, EmptyAfterExit
<1>13. NothingLost' BY <1>2, <1>7 DEF Take, NothingLost
<1>14. RunsOnce'
  <2>1. \A v \in Workers : holds[v] # t BY <1>3, <1>8 DEF Held
  <2>2. \A u, v \in Workers : holds'[u] = holds'[v] /\ holds'[u] # NoTask => u = v
    BY <2>1, <1>5, <1>6 DEF RunsOnce
  <2>3. done' = done BY DEF Take
  <2>4. Queued' \cap Held' = {} BY <1>2, <1>7 DEF RunsOnce
  <2>5. (Queued' \union Held') \cap done' = {}
    BY <1>2, <1>7, <1>8, <2>3 DEF RunsOnce
  <2> QED BY <1>2, <2>2, <2>4, <2>5 DEF RunsOnce
<1>15. NoLostWakeup'
  <2>1. wpc'[w] = "running" BY <1>5 DEF TypeOK
  <2> QED BY <2>1 DEF NoLostWakeup
<1> QED BY <1>9, <1>10, <1>11, <1>12, <1>13, <1>14, <1>15

LEMMA FinishInv ==
    ASSUME IInv, NEW w \in Workers, Finish(w)
    PROVE  IInv'
<1> USE DEF IInv
<1> DEFINE t == holds[w]
<1>1. t \in Task /\ t # NoTask
  <2>1. holds[w] \in Task \union {NoTask} BY DEF TypeOK
  <2>2. holds[w] # NoTask BY DEF Finish, HoldsWhileRunning
  <2> QED BY <2>1, <2>2
<1>2. holds' = [holds EXCEPT ![w] = NoTask] /\ wpc' = [wpc EXCEPT ![w] = "check"]
  BY DEF Finish
<1>3. holds \in [Workers -> Task \union {NoTask}] BY DEF TypeOK
<1>4. t \in Held BY <1>1 DEF Held
<1>5. Queued' = Queued BY DEF Finish, Queued
<1>6. Held' = Held \ {t} BY <1>1, <1>2, <1>3 DEF Held, RunsOnce
<1>7. done' = done \union {t} BY DEF Finish
<1>8. TypeOK' BY <1>1, <1>2 DEF Finish, clientVars, TypeOK
<1>9. Numbered' BY DEF Finish, clientVars, Numbered
<1>10. HoldsWhileRunning' BY <1>2 DEF TypeOK, HoldsWhileRunning
<1>11. EmptyAfterExit' BY <1>2 DEF Finish, TypeOK, EmptyAfterExit
<1>12. NothingLost' BY <1>4, <1>5, <1>6, <1>7 DEF Finish, NothingLost
<1>13. RunsOnce'
  <2>1. \A u, v \in Workers : holds'[u] = holds'[v] /\ holds'[u] # NoTask => u = v
    BY <1>2, <1>3 DEF RunsOnce
  <2>2. \A j, k \in DOMAIN tasks' : tasks'[j] = tasks'[k] => j = k
    BY DEF Finish, RunsOnce
  <2>3. /\ Queued' \cap Held' = {}
        /\ (Queued' \union Held') \cap done' = {}
    BY <1>4, <1>5, <1>6, <1>7 DEF RunsOnce
  <2> QED BY <2>1, <2>2, <2>3 DEF RunsOnce
<1>14. NoLostWakeup'
  <2>1. wpc'[w] = "check" BY <1>2 DEF TypeOK
  <2> QED BY <2>1 DEF NoLostWakeup
<1> QED BY <1>8, <1>9, <1>10, <1>11, <1>12, <1>13, <1>14

----------------------------------------------------------------------------
\* The steps of the destructor preserve the invariant.
LEMMA DestructorInv ==
    ASSUME IInv, Stop \/ NotifyAll \/ Joined
    PROVE  IInv'
<1> USE DEF IInv
<1>1. NothingLost' /\ RunsOnce' /\ Numbered'
  BY TasksUntouched DEF Stop, NotifyAll, Joined, workerVars, clientVars
<1>2. CASE Stop
  BY <1>1, <1>2 DEF Stop, workerVars, clientVars, TypeOK, HoldsWhileRunning,
                    EmptyAfterExit, NoLostWakeup
<1>3. CASE NotifyAll
  <2>1. TypeOK' BY <1>3 DEF NotifyAll, clientVars, TypeOK
  <2>2. HoldsWhileRunning' /\ EmptyAfterExit'
    BY <1>3 DEF NotifyAll, clientVars, TypeOK, HoldsWhileRunning, EmptyAfterExit
  <2>3. NoLostWakeup'
    BY <1>3 DEF NotifyAll, clientVars, EmptyAfterExit, NoLostWakeup
  <2> QED BY <1>1, <2>1, <2>2, <2>3
<1>4. CASE Joined
  BY <1>1, <1>4 DEF Joined, workerVars, clientVars, TypeOK, HoldsWhileRunning,
                    EmptyAfterExit, NoLostWakeup
<1> QED BY <1>2, <1>3, <1>4

\* The invariant is inductive.
LEMMA StepInv == IInv /\ [Next]_vars => IInv'
<1> SUFFICES ASSUME IInv, [Next]_vars PROVE IInv' OBVIOUS
<1>1. ASSUME NEW s \in Submitters, Push(s) \/ Reject(s) \/ NotifyOne(s)
      PROVE  IInv'
  BY <1>1, PushInv, RejectInv, NotifyOneInv
<1>2. ASSUME NEW w \in Workers, Worker(w) \/ SpuriousWakeup(w)
      PROVE  IInv'
  BY <1>2, WaitInv, TakeInv, ExitInv, FinishInv, SpuriousInv DEF Worker
<1>3. CASE Stop \/ NotifyAll \/ Joined
  BY <1>3, DestructorInv
<1>4. CASE UNCHANGED vars
  <2>1. NothingLost' /\ RunsOnce' /\ Numbered'
    BY <1>4, TasksUntouched DEF vars, workerVars, clientVars, IInv
  <2> QED
    BY <1>4, <2>1 DEF vars, workerVars, clientVars, IInv, TypeOK,
                      HoldsWhileRunning, EmptyAfterExit, NoLostWakeup
<1> QED BY <1>1, <1>2, <1>3, <1>4 DEF Next

THEOREM Invariant == Spec => []IInv
<1> QED BY InitInv, StepInv, PTL DEF Spec

----------------------------------------------------------------------------
\* The type invariant of the thread pool holds for any sets of threads.
THEOREM TypeCorrect == Spec => []TypeOK
<1>1. IInv => TypeOK BY DEF IInv
<1> QED BY <1>1, Invariant, PTL

\* submit(), worker() and the destructor never lose an accepted task
\* (Threadpool.hpp:29-61).
THEOREM LossCorrect == Spec => []NothingLost
<1>1. IInv => NothingLost BY DEF IInv
<1> QED BY <1>1, Invariant, PTL

\* No accepted task is taken twice (Threadpool.hpp:53-57).
THEOREM OnceCorrect == Spec => []RunsOnce
<1>1. IInv => RunsOnce BY DEF IInv
<1> QED BY <1>1, Invariant, PTL

\* No wake-up of a worker is lost (Threadpool.hpp:33-42 and 51-54).
THEOREM WakeupCorrect == Spec => []NoLostWakeup
<1>1. IInv => NoLostWakeup BY DEF IInv
<1> QED BY <1>1, Invariant, PTL

\* The destructor returns only when every accepted task is done: all workers
\* have returned by then, so that the queue is empty, and none holds a task
\* (Threadpool.hpp:14-27).
THEOREM DrainCorrect == Spec => []DrainedAtEnd
<1>1. IInv => DrainedAtEnd
  <2> SUFFICES ASSUME IInv, dpc = "done", Workers # {} PROVE done = accepted
    BY DEF DrainedAtEnd
  <2>1. \A w \in Workers : wpc[w] = "exited"
    BY DEF IInv, EmptyAfterExit
  <2>2. tasks = <<>> BY <2>1 DEF IInv, EmptyAfterExit
  <2>3. Queued = {} BY <2>2 DEF Queued
  <2>4. Held = {} BY <2>1 DEF IInv, HoldsWhileRunning, Held
  <2> QED BY <2>3, <2>4 DEF IInv, NothingLost
<1> QED BY <1>1, Invariant, PTL

----------------------------------------------------------------------------
(* SimpleLogger *)

\* The first n messages.
FirstOnes(n) == [k \in 1 .. n |-> k]

\* What the proofs need of the types; MaxMsgs plays no part in them.
LogKinds ==
    /\ running \in BOOLEAN
    /\ buffer \in Seq(Nat) /\ toWrite \in Seq(Nat) /\ file \in Seq(Nat)
    /\ logged \in Nat /\ before \in Nat
    /\ before <= logged

\* running_ is false from the destructor's critical section on, and the worker
\* leaves its loop only then, with both sequences written; the destructor joins it.
LogStopping ==
    /\ running <=> lpc = "idle"
    /\ bpc \in {"final", "exited"} => ~running
    /\ bpc # "write" => toWrite = <<>>
    /\ bpc = "final" => before <= Len(file)
    /\ lpc = "done" => bpc = "exited"

\* The inductive invariant.
LogInv == LogKinds /\ LogStopping /\ Log!InOrder /\ Log!WrittenAtExit

----------------------------------------------------------------------------
\* One more message behind the first n.
LEMMA OneMore ==
    ASSUME NEW n \in Nat
    PROVE  Append(FirstOnes(n), n + 1) = FirstOnes(n + 1)
<1>1. FirstOnes(n) \in Seq(Nat) /\ Len(FirstOnes(n)) = n
  BY DEF FirstOnes
<1> QED BY <1>1 DEF FirstOnes

\* A message appended to the last of three sequences is appended to the whole.
LEMMA AppendToThird ==
    ASSUME NEW S, NEW a \in Seq(S), NEW b \in Seq(S), NEW c \in Seq(S), NEW e \in S
    PROVE  a \o b \o Append(c, e) = Append(a \o b \o c, e)
<1>1. a \o b \in Seq(S) BY ConcatProperties
<1>2. a \o b \o c \in Seq(S) BY <1>1, ConcatProperties
<1>3. <<e>> \in Seq(S) OBVIOUS
<1>4. Append(c, e) = c \o <<e>> BY AppendIsConcat
<1>5. Append(a \o b \o c, e) = (a \o b \o c) \o <<e>> BY <1>2, AppendIsConcat
<1> QED BY <1>1, <1>3, <1>4, <1>5, ConcatAssociative

\* Empty sequences in a concatenation.
LEMMA Empties ==
    ASSUME NEW S, NEW a \in Seq(S), NEW b \in Seq(S)
    PROVE  /\ a \o <<>> \o b = a \o b
           /\ a \o b \o <<>> = a \o b
           /\ a \o <<>> \o <<>> = a
           /\ a \o b \in Seq(S)
           /\ Len(a) <= Len(a \o b)
<1>1. a \o b \in Seq(S) /\ Len(a \o b) = Len(a) + Len(b) BY ConcatProperties
<1>2. a \o <<>> = a BY ConcatEmptySeq
<1>3. (a \o b) \o <<>> = a \o b BY <1>1, ConcatEmptySeq
<1>4. Len(a) \in Nat /\ Len(b) \in Nat BY LenProperties
<1> QED BY <1>1, <1>2, <1>3, <1>4

\* The length of a sequence that is the first n messages.
LEMMA LenOfFirst ==
    ASSUME NEW n \in Nat, NEW s, s = FirstOnes(n)
    PROVE  Len(s) = n /\ s = FirstOnes(Len(s))
<1>1. Len(FirstOnes(n)) = n BY DEF FirstOnes
<1> QED BY <1>1

----------------------------------------------------------------------------
LEMMA LogInitInv == Log!Init => LogInv
<1> SUFFICES ASSUME Log!Init PROVE LogInv
  OBVIOUS
<1>1. LogKinds /\ LogStopping BY DEF Log!Init, LogKinds, LogStopping
<1>2. file \o toWrite \o buffer = <<>>
  BY ConcatEmptySeq, EmptySeq DEF Log!Init
<1>3. Log!InOrder BY <1>2 DEF Log!Init, Log!InOrder
<1>4. Log!WrittenAtExit BY DEF Log!Init, Log!WrittenAtExit
<1> QED BY <1>1, <1>3, <1>4 DEF LogInv

\* log(): the message goes behind everything that is not yet written.
LEMMA LogPushInv ==
    ASSUME LogInv, NEW t \in Workers, Log!Push(t)
    PROVE  LogInv'
<1> USE DEF LogInv
<1>1. LogKinds'
  BY DEF Log!Push, LogKinds
<1>2. LogStopping'
  BY DEF Log!Push, LogStopping
<1>3. Log!InOrder'
  <2>1. SUFFICES ASSUME bpc # "exited"
                 PROVE  file \o toWrite \o Append(buffer, logged + 1) = FirstOnes(logged + 1)
    BY DEF Log!Push, Log!InOrder, FirstOnes
  <2>2. file \o toWrite \o buffer = FirstOnes(logged)
    BY <2>1 DEF Log!InOrder, FirstOnes
  <2>3. file \o toWrite \o Append(buffer, logged + 1)
          = Append(file \o toWrite \o buffer, logged + 1)
    BY AppendToThird DEF LogKinds
  <2> QED BY <2>2, <2>3, OneMore DEF LogKinds
<1>4. Log!WrittenAtExit'
  BY LenProperties DEF Log!Push, LogKinds, Log!WrittenAtExit
<1> QED BY <1>1, <1>2, <1>3, <1>4

\* A notification, a wait or a wake-up moves the worker inside its loop only.
LEMMA LogWakeInv ==
    ASSUME LogInv,
           UNCHANGED <<running, buffer, toWrite, file, logged, before>>,
           (lpc = "idle") <=> (lpc' = "idle"),
           lpc' = "done" => lpc = "done" \/ bpc = "exited",
           \/ bpc' = bpc
           \/ bpc \in {"check", "waiting"} /\ bpc' \in {"check", "waiting"}
    PROVE  LogInv'
BY DEF LogInv, LogKinds, LogStopping, Log!InOrder, Log!WrittenAtExit

\* The worker takes the buffer: what it held moves to toWrite.
LEMMA LogSwapInv == ASSUME LogInv, Log!Swap PROVE LogInv'
<1>1. toWrite = <<>> BY DEF LogInv, LogStopping, Log!Swap
<1>2. LogKinds' BY DEF LogInv, LogKinds, Log!Swap
<1>3. LogStopping' BY DEF LogInv, LogStopping, Log!Swap
<1>4. file \o buffer \o <<>> = file \o <<>> \o buffer
  BY Empties DEF LogInv, LogKinds
<1>5. Log!InOrder' BY <1>1, <1>4 DEF LogInv, Log!InOrder, Log!Swap
<1>6. Log!WrittenAtExit' BY DEF Log!WrittenAtExit, Log!Swap
<1> QED BY <1>2, <1>3, <1>5, <1>6 DEF LogInv

\* The worker writes what it took.
LEMMA LogWriteInv == ASSUME LogInv, Log!Write PROVE LogInv'
<1>1. file \o toWrite \in Seq(Nat) BY Empties DEF LogInv, LogKinds
<1>2. LogKinds' BY <1>1 DEF LogInv, LogKinds, Log!Write
<1>3. LogStopping' BY DEF LogInv, LogStopping, Log!Write
<1>4. (file \o toWrite) \o <<>> \o buffer = file \o toWrite \o buffer
  BY <1>1, Empties DEF LogInv, LogKinds
<1>5. Log!InOrder' BY <1>4 DEF LogInv, Log!InOrder, Log!Write
<1>6. Log!WrittenAtExit' BY DEF Log!WrittenAtExit, Log!Write
<1> QED BY <1>2, <1>3, <1>5, <1>6 DEF LogInv

\* The worker leaves its loop with nothing held and nothing buffered, so that
\* the file is all that was logged.
LEMMA LogBreakInv == ASSUME LogInv, Log!Break PROVE LogInv'
<1>1. toWrite = <<>> /\ buffer = <<>> BY DEF LogInv, LogStopping, Log!Break
<1>2. file = FirstOnes(logged)
  <2>1. file \o toWrite \o buffer = FirstOnes(logged)
    BY DEF LogInv, Log!InOrder, Log!Break, FirstOnes
  <2>2. file \o <<>> \o <<>> = file BY Empties DEF LogInv, LogKinds
  <2> QED BY <1>1, <2>1, <2>2
<1>3. Len(file) = logged BY <1>2, LenOfFirst DEF LogInv, LogKinds
<1>4. LogKinds' BY DEF LogInv, LogKinds, Log!Break
<1>5. LogStopping' BY <1>1, <1>3 DEF LogInv, LogKinds, LogStopping, Log!Break
<1>6. Log!InOrder' BY DEF LogInv, Log!InOrder, Log!Break
<1>7. Log!WrittenAtExit' BY DEF Log!WrittenAtExit, Log!Break
<1> QED BY <1>4, <1>5, <1>6, <1>7 DEF LogInv

\* The second look at the buffer: whatever was logged in between is written.
LEMMA LogFinalInv == ASSUME LogInv, Log!Final PROVE LogInv'
<1>1. toWrite = <<>> BY DEF LogInv, LogStopping, Log!Final
<1>2. /\ file \o buffer \in Seq(Nat)
      /\ Len(file) <= Len(file \o buffer)
      /\ file \o <<>> \o buffer = file \o buffer
  BY Empties DEF LogInv, LogKinds
<1>3. file \o buffer = FirstOnes(logged)
  <2>1. file \o toWrite \o buffer = FirstOnes(logged)
    BY DEF LogInv, Log!InOrder, Log!Final, FirstOnes
  <2> QED BY <1>1, <1>2, <2>1
<1>4. /\ Len(file \o buffer) = logged
      /\ file \o buffer = FirstOnes(Len(file \o buffer))
  BY <1>3, LenOfFirst DEF LogInv, LogKinds
<1>5. LogKinds' BY <1>2 DEF LogInv, LogKinds, Log!Final
<1>6. LogStopping' BY <1>1 DEF LogInv, LogStopping, Log!Final
<1>7. Log!InOrder' BY DEF Log!InOrder, Log!Final
<1>8. Log!WrittenAtExit'
  BY <1>4 DEF LogInv, LogKinds, Log!WrittenAtExit, Log!Final, FirstOnes
<1> QED BY <1>5, <1>6, <1>7, <1>8 DEF LogInv

\* The destructor's critical section: the worker is still in its loop.
LEMMA LogStopInv == ASSUME LogInv, Log!Stop PROVE LogInv'
<1>1. bpc \notin {"final", "exited"} BY DEF LogInv, LogStopping, Log!Stop
<1>2. LogKinds'
  <2>1. running' \in BOOLEAN BY DEF Log!Stop
  <2>2. logged \in Nat /\ before' = logged BY DEF LogInv, LogKinds, Log!Stop
  <2>3. before' <= logged BY <2>2
  <2> QED BY <2>1, <2>2, <2>3 DEF LogInv, LogKinds, Log!Stop
<1>3. LogStopping' BY <1>1 DEF LogInv, LogStopping, Log!Stop
<1>4. Log!InOrder' BY DEF LogInv, Log!InOrder, Log!Stop
<1>5. Log!WrittenAtExit' BY <1>1 DEF Log!WrittenAtExit, Log!Stop
<1> QED BY <1>2, <1>3, <1>4, <1>5 DEF LogInv

LEMMA LogStepInv == LogInv /\ [Log!Next]_(Log!vars) => LogInv'
<1> SUFFICES ASSUME LogInv, [Log!Next]_(Log!vars) PROVE LogInv'
  OBVIOUS
<1>1. ASSUME NEW t \in Workers, Log!Push(t) PROVE LogInv'
  BY <1>1, LogPushInv
<1>2. ASSUME NEW t \in Workers, Log!NotifyOne(t) PROVE LogInv'
  BY <1>2, LogWakeInv DEF Log!NotifyOne, Log!Woken
<1>3. CASE Log!Wait BY <1>3, LogWakeInv DEF Log!Wait
<1>4. CASE Log!Swap BY <1>4, LogSwapInv
<1>5. CASE Log!Write BY <1>5, LogWriteInv
<1>6. CASE Log!Break BY <1>6, LogBreakInv
<1>7. CASE Log!Final BY <1>7, LogFinalInv
<1>8. CASE Log!SpuriousWakeup BY <1>8, LogWakeInv DEF Log!SpuriousWakeup
<1>9. CASE Log!Stop BY <1>9, LogStopInv
<1>10. CASE Log!NotifyAll BY <1>10, LogWakeInv DEF Log!NotifyAll, Log!Woken
<1>11. CASE Log!Join BY <1>11, LogWakeInv DEF Log!Join
<1>12. CASE UNCHANGED Log!vars BY <1>12, LogWakeInv DEF Log!vars
<1> QED
  BY <1>1, <1>2, <1>3, <1>4, <1>5, <1>6, <1>7, <1>8, <1>9, <1>10, <1>11, <1>12
     DEF Log!Next, Log!Worker

LEMMA LogInductive == Log!Spec => []LogInv
BY LogInitInv, LogStepInv, PTL DEF Log!Spec

----------------------------------------------------------------------------
\* Until the worker exits, what was logged is written, held or buffered, once
\* and in order, for any number of threads and messages
\* (simpleLogger.hpp:31-57).
THEOREM LogOrderCorrect == Log!Spec => []Log!InOrder
<1>1. LogInv => Log!InOrder BY DEF LogInv
<1> QED BY <1>1, LogInductive, PTL

\* Once the worker has exited the file begins with everything logged before
\* the destructor, in order and without repetition, whatever the other threads
\* log while it leaves (simpleLogger.hpp:21-29 and 50-70).
THEOREM LogExitCorrect == Log!Spec => []Log!WrittenAtExit
<1>1. LogInv => Log!WrittenAtExit BY DEF LogInv
<1> QED BY <1>1, LogInductive, PTL

----------------------------------------------------------------------------
(* LoggingPool *)

\* Every message has an author, and from the moment the logger's destructor has
\* begun nobody who was finished then is the author of a later one.
Authors ==
    /\ author \in Seq(Task)
    /\ Len(author) = logged
    /\ finished \subseteq done
    /\ lpc # "idle" => \A k \in DOMAIN author : author[k] \in finished => k <= before

\* The inductive invariant.
LInv == IInv /\ LogInv /\ Authors

----------------------------------------------------------------------------
\* Every step is a step of the pool or leaves it alone.
LEMMA StepOfPool == [LoggingNext]_all => [Next]_vars
<1> SUFFICES ASSUME [LoggingNext]_all PROVE [Next]_vars
  OBVIOUS
<1>1. ASSUME NEW c \in Clients, ClientSubmits(c) \/ SubmitNotifies(c)
      PROVE  [Next]_vars
  BY <1>1 DEF ClientSubmits, SubmitNotifies, Next, Submitters
<1>2. ASSUME NEW w \in Workers, WorkerStep(w) PROVE [Next]_vars
  <2>1. CASE Wait(w) \/ Take(w) \/ Exit(w) BY <2>1 DEF Next, Worker
  <2>2. CASE SubmitNotifies(w) BY <2>2 DEF SubmitNotifies, Next, Submitters
  <2>3. CASE TaskSubmits(w) BY <2>3 DEF TaskSubmits, Next, Submitters
  <2>4. CASE TaskLogs(w) BY <2>4 DEF TaskLogs
  <2>5. CASE TaskLogsTooLate(w) BY <2>5 DEF TaskLogsTooLate
  <2>6. CASE LogNotifies(w) BY <2>6 DEF LogNotifies
  <2>7. CASE TaskReturns(w) BY <2>7 DEF TaskReturns, Next, Worker
  <2> QED BY <1>2, <2>1, <2>2, <2>3, <2>4, <2>5, <2>6, <2>7 DEF WorkerStep
<1>3. CASE LogThread BY <1>3 DEF LogThread
<1>4. CASE SpuriousWakeups BY <1>4 DEF SpuriousWakeups, Next
<1>5. CASE LogStops BY <1>5 DEF LogStops, Log!Stop, vars, workerVars, clientVars
<1>6. CASE PoolStops BY <1>6 DEF PoolStops, Next
<1>7. CASE Destructors BY <1>7 DEF Destructors, Next
<1>8. CASE UNCHANGED all BY <1>8 DEF all
<1> QED BY <1>1, <1>2, <1>3, <1>4, <1>5, <1>6, <1>7, <1>8 DEF LoggingNext

\* Every step is a step of the logger or leaves it alone.
LEMMA StepOfLogger == [LoggingNext]_all => [Log!Next]_(Log!vars)
<1> SUFFICES ASSUME [LoggingNext]_all PROVE [Log!Next]_(Log!vars)
  OBVIOUS
<1>a. UNCHANGED logger => UNCHANGED Log!vars
  BY DEF logger, Log!vars
<1>1. ASSUME NEW c \in Clients, ClientSubmits(c) \/ SubmitNotifies(c)
      PROVE  UNCHANGED logger
  BY <1>1 DEF ClientSubmits, SubmitNotifies
<1>2. ASSUME NEW w \in Workers, WorkerStep(w) PROVE [Log!Next]_(Log!vars)
  <2>1. CASE (Wait(w) \/ Take(w) \/ Exit(w)) /\ UNCHANGED <<logger, task>>
    BY <1>a, <2>1
  <2>2. CASE SubmitNotifies(w) BY <1>a, <2>2 DEF SubmitNotifies
  <2>3. CASE TaskSubmits(w) BY <1>a, <2>3 DEF TaskSubmits
  <2>4. CASE TaskLogs(w) BY <2>4 DEF TaskLogs, Log!Next
  <2>5. CASE TaskLogsTooLate(w) BY <1>a, <2>5 DEF TaskLogsTooLate
  <2>6. CASE LogNotifies(w) BY <2>6 DEF LogNotifies, Log!Next
  <2>7. CASE TaskReturns(w) BY <1>a, <2>7 DEF TaskReturns
  <2> QED BY <1>2, <2>1, <2>2, <2>3, <2>4, <2>5, <2>6, <2>7 DEF WorkerStep
<1>3. CASE LogThread BY <1>3 DEF LogThread, Log!Next
<1>4. CASE SpuriousWakeups BY <1>a, <1>4 DEF SpuriousWakeups, Log!Next
<1>5. CASE LogStops BY <1>5 DEF LogStops, Log!Next
<1>6. CASE PoolStops BY <1>a, <1>6 DEF PoolStops
<1>7. CASE Destructors BY <1>a, <1>7 DEF Destructors, Log!Next
<1>8. CASE UNCHANGED all BY <1>a, <1>8 DEF all
<1> QED BY <1>a, <1>1, <1>2, <1>3, <1>4, <1>5, <1>6, <1>7, <1>8 DEF LoggingNext

----------------------------------------------------------------------------
LEMMA LoggingInitInv == LoggingInit => LInv
<1> SUFFICES ASSUME LoggingInit PROVE LInv
  OBVIOUS
<1>1. IInv BY InitInv DEF LoggingInit
<1>2. LogInv BY LogInitInv DEF LoggingInit
<1>3. Authors BY DEF LoggingInit, Log!Init, Authors
<1> QED BY <1>1, <1>2, <1>3 DEF LInv

\* A message is logged by a worker in a task, which is therefore not done.
LEMMA LogsAuthors ==
    ASSUME LInv, NEW w \in Workers, TaskLogs(w)
    PROVE  Authors'
<1>1. wpc[w] = "running" BY DEF TaskLogs
<1>2. holds[w] \in Task /\ holds[w] \notin done
  <2>1. holds[w] # NoTask BY <1>1 DEF LInv, IInv, HoldsWhileRunning
  <2>2. holds[w] \in Task BY <2>1 DEF LInv, IInv, TypeOK
  <2>3. holds[w] \in Held BY <2>1 DEF Held
  <2> QED BY <2>2, <2>3 DEF LInv, IInv, RunsOnce
<1>3. /\ author' = Append(author, holds[w])
      /\ logged' = logged + 1
      /\ UNCHANGED <<finished, done, before, lpc>>
  BY DEF TaskLogs, Log!Push, vars
<1>4. /\ author \in Seq(Task) /\ Len(author) = logged
      /\ finished \subseteq done
      /\ lpc # "idle" => \A k \in DOMAIN author : author[k] \in finished => k <= before
  BY DEF LInv, Authors
<1>5. /\ author' \in Seq(Task)
      /\ Len(author') = logged'
  BY <1>2, <1>3, <1>4
<1>6. ASSUME lpc' # "idle", NEW k \in DOMAIN author', author'[k] \in finished'
      PROVE  k <= before'
  <2>1. k \in 1 .. Len(author) + 1 BY <1>3, <1>4, <1>5, <1>6
  <2>2. CASE k = Len(author) + 1
    <3>1. author'[k] = holds[w] BY <1>3, <1>4, <2>2
    <3> QED BY <1>2, <1>3, <1>4, <1>6, <3>1
  <2>3. CASE k \in 1 .. Len(author)
    <3>1. author'[k] = author[k] BY <1>2, <1>3, <1>4, <2>3
    <3> QED BY <1>3, <1>4, <1>6, <2>3, <3>1
  <2> QED BY <1>4, <2>1, <2>2, <2>3
<1> QED BY <1>3, <1>4, <1>5, <1>6 DEF Authors

\* When the logger's destructor begins, all messages are before it.
LEMMA StopsAuthors ==
    ASSUME LInv, LogStops
    PROVE  Authors'
<1>1. /\ before' = logged /\ finished' = done
      /\ UNCHANGED <<author, logged, done>>
  BY DEF LogStops, Log!Stop, vars
<1>2. /\ author \in Seq(Task) /\ Len(author) = logged
  BY DEF LInv, Authors
<1>3. \A k \in DOMAIN author : k <= Len(author) BY <1>2
<1> QED BY <1>1, <1>2, <1>3 DEF Authors

\* Every other step leaves the messages and their authors alone.
LEMMA AuthorsKept ==
    ASSUME LInv,
           UNCHANGED <<author, finished, logged, before>>,
           done \subseteq done',
           lpc = "idle" => lpc' = "idle"
    PROVE  Authors'
BY DEF LInv, Authors

LEMMA AuthorsStep == LInv /\ [LoggingNext]_all => Authors'
<1> SUFFICES ASSUME LInv, [LoggingNext]_all PROVE Authors'
  OBVIOUS
<1>1. ASSUME NEW c \in Clients, ClientSubmits(c) \/ SubmitNotifies(c)
      PROVE  Authors'
  <2>1. UNCHANGED <<logger, task, done>>
    BY <1>1 DEF ClientSubmits, SubmitNotifies, Push, Reject, NotifyOne
  <2> QED BY <2>1, AuthorsKept DEF logger, task
<1>2. ASSUME NEW w \in Workers, WorkerStep(w) PROVE Authors'
  <2>1. CASE (Wait(w) \/ Take(w) \/ Exit(w)) /\ UNCHANGED <<logger, task>>
    BY <2>1, AuthorsKept DEF Wait, Take, Exit, logger, task
  <2>2. CASE SubmitNotifies(w)
    BY <2>2, AuthorsKept DEF SubmitNotifies, NotifyOne, logger, task
  <2>3. CASE TaskSubmits(w)
    BY <2>3, AuthorsKept DEF TaskSubmits, Push, Reject, logger
  <2>4. CASE TaskLogs(w) BY <2>4, LogsAuthors
  <2>5. CASE TaskLogsTooLate(w)
    BY <2>5, AuthorsKept DEF TaskLogsTooLate, vars, logger
  <2>6. CASE LogNotifies(w)
    BY <2>6, AuthorsKept DEF LogNotifies, Log!NotifyOne, vars, task
  <2>7. CASE TaskReturns(w)
    BY <2>7, AuthorsKept DEF TaskReturns, Finish, logger
  <2> QED BY <1>2, <2>1, <2>2, <2>3, <2>4, <2>5, <2>6, <2>7 DEF WorkerStep
<1>3. CASE LogThread
  BY <1>3, AuthorsKept DEF LogThread, Log!Worker, Log!Wait, Log!Swap, Log!Write,
                           Log!Break, Log!Final, vars, task
<1>4. CASE SpuriousWakeups
  BY <1>4, AuthorsKept DEF SpuriousWakeups, SpuriousWakeup, Log!SpuriousWakeup,
                           vars, logger, task
<1>5. CASE LogStops BY <1>5, StopsAuthors
<1>6. CASE PoolStops BY <1>6, AuthorsKept DEF PoolStops, Stop, logger, task
<1>7. CASE Destructors
  BY <1>7, AuthorsKept DEF Destructors, NotifyAll, Joined, Log!NotifyAll, Log!Join,
                           vars, logger, task
<1>8. CASE UNCHANGED all BY <1>8, AuthorsKept DEF all, vars, logger, task
<1> QED BY <1>1, <1>2, <1>3, <1>4, <1>5, <1>6, <1>7, <1>8 DEF LoggingNext

LEMMA LoggingStepInv == LInv /\ [LoggingNext]_all => LInv'
<1> SUFFICES ASSUME LInv, [LoggingNext]_all PROVE LInv'
  OBVIOUS
<1>1. IInv' BY StepOfPool, StepInv DEF LInv
<1>2. LogInv'
  BY StepOfLogger, LogStepInv DEF LInv
<1>3. Authors' BY AuthorsStep
<1> QED BY <1>1, <1>2, <1>3 DEF LInv

LEMMA LoggingInductive == LoggingSpec => []LInv
BY LoggingInitInv, LoggingStepInv, PTL DEF LoggingSpec

----------------------------------------------------------------------------
\* The pool of main.cpp, whose tasks log, is a ThreadPool: what is proved of
\* that holds of it (main.cpp:62-72, Threadpool.hpp).
THEOREM PoolImplemented == LoggingSpec => Spec
<1>1. LoggingInit => Init BY DEF LoggingInit
<1> QED BY <1>1, StepOfPool, PTL DEF LoggingSpec, Spec

\* The logger of main.cpp, destroyed while tasks may still log, is a
\* SimpleLogger (main.cpp:62-72, simpleLogger.hpp).
THEOREM LoggerImplemented == LoggingSpec => Log!Spec
<1>1. LoggingInit => Log!Init BY DEF LoggingInit
<1> QED BY <1>1, StepOfLogger, PTL DEF LoggingSpec, Log!Spec

\* When the logger's destructor returns, the file holds what was logged before
\* it began, in order and once (simpleLogger.hpp:21-70).
THEOREM WrittenCorrect == LoggingSpec => []WrittenAtExit
<1>1. LInv => WrittenAtExit
  BY DEF LInv, LogInv, WrittenAtExit, Log!WrittenAtExit
<1> QED BY <1>1, LoggingInductive, PTL

\* A task whose future was ready when the logger's destructor began has its
\* messages in the file when that destructor returns, whatever the other tasks
\* log meanwhile (main.cpp:62-72).
THEOREM FinishedCorrect == LoggingSpec => []FinishedTasksLogged
<1>1. LInv => FinishedTasksLogged
  <2> SUFFICES ASSUME LInv, lpc = "done", NEW k \in DOMAIN author,
                      author[k] \in finished
               PROVE  k <= Len(file)
    BY DEF FinishedTasksLogged
  <2>1. bpc = "exited" BY DEF LInv, LogInv, LogStopping
  <2>2. Len(file) \in before .. logged
    BY <2>1 DEF LInv, LogInv, Log!WrittenAtExit
  <2>3. before \in Nat /\ logged \in Nat
    BY DEF LInv, LogInv, LogKinds
  <2>4. k <= before /\ k \in Nat BY DEF LInv, Authors
  <2> QED BY <2>2, <2>3, <2>4
<1> QED BY <1>1, LoggingInductive, PTL
============================================================================
