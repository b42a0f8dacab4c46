--------------------------- MODULE SimpleLogger ---------------------------
(***************************************************************************)
(* The asynchronous logger (include/simpleLogger.hpp): threads that log,   *)
(* the background thread that writes, the destructor, and the condition    *)
(* variable between them.  A step is one critical section of mtx_, one     *)
(* notification or the writing of one batch.  A message is its number in   *)
(* the order of the push_backs.  Threads may still log while the           *)
(* destructor runs, as the pool's tasks of src/main.cpp may (62-69: the    *)
(* logger is destroyed before the pool).                                   *)
(***************************************************************************)
EXTENDS Naturals, Sequences, SequencesExt

CONSTANTS
    Loggers,        \* threads that call log()
    MaxMsgs         \* bound: messages logged, of all threads together

VARIABLES
    running,        \* running_
    buffer,         \* buffer_
    toWrite,        \* to_write
    file,           \* what has been written
    logged,         \* messages pushed
    before,         \* history: messages pushed before the destructor began
    notifying,      \* threads in log() between the push and notify_one
    wpc,            \* the worker: check, waiting (in cv_), write, final, exited
    dpc             \* the destructor: idle, notify, join, done

vars == <<running, buffer, toWrite, file, logged, before, notifying, wpc, dpc>>

Init ==
    /\ running = TRUE
    /\ buffer = <<>> /\ toWrite = <<>> /\ file = <<>>
    /\ logged = 0 /\ before = 0
    /\ notifying = {}
    /\ wpc = "check"
    /\ dpc = "idle"

----------------------------------------------------------------------------
(* log() *)

Push(t) ==
    /\ t \notin notifying
    /\ logged < MaxMsgs
    /\ dpc # "done"
    /\ logged' = logged + 1
    /\ buffer' = Append(buffer, logged + 1)
    /\ notifying' = notifying \union {t}
    /\ UNCHANGED <<running, toWrite, file, before, wpc, dpc>>

\* What a notification makes of the worker.
StillAsleep == wpc              \* Mutant: the notification is forgotten
Woken == IF wpc = "waiting" THEN "check" ELSE wpc

NotifyOne(t) ==
    /\ t \in notifying
    /\ notifying' = notifying \ {t}
    /\ wpc' = Woken
    /\ UNCHANGED <<running, buffer, toWrite, file, logged, before, dpc>>

----------------------------------------------------------------------------
(* background_work() *)

Wait ==
    /\ wpc = "check"
    /\ running /\ buffer = <<>>
    /\ wpc' = "waiting"
    /\ UNCHANGED <<running, buffer, toWrite, file, logged, before, notifying, dpc>>

SpuriousWakeup ==
    /\ wpc = "waiting"
    /\ wpc' = "check"
    /\ UNCHANGED <<running, buffer, toWrite, file, logged, before, notifying, dpc>>

Swap ==
    /\ wpc = "check"
    /\ buffer # <<>>
    /\ toWrite' = buffer
    /\ buffer' = toWrite
    /\ wpc' = "write"
    /\ UNCHANGED <<running, file, logged, before, notifying, dpc>>

Write ==
    /\ wpc = "write"
    /\ file' = file \o toWrite
    /\ toWrite' = <<>>
    /\ wpc' = "check"
    /\ UNCHANGED <<running, buffer, logged, before, notifying, dpc>>

\* Mutant: the worker leaves the loop as soon as running_ is false.
BreakAtStop ==
    /\ wpc = "check"
    /\ ~running
    /\ wpc' = "exited"
    /\ UNCHANGED <<running, buffer, toWrite, file, logged, before, notifying, dpc>>

Break ==
    /\ wpc = "check"
    /\ ~running /\ buffer = <<>>
    /\ wpc' = "final"
    /\ UNCHANGED <<running, buffer, toWrite, file, logged, before, notifying, dpc>>

\* The second look at buffer_, which writes but does not clear it.
Final ==
    /\ wpc = "final"
    /\ file' = file \o buffer
    /\ wpc' = "exited"
    /\ UNCHANGED <<running, buffer, toWrite, logged, before, notifying, dpc>>

----------------------------------------------------------------------------
(* ~SimpleLogger() *)

Stop ==
    /\ dpc = "idle"
    /\ running' = FALSE
    /\ before' = logged
    /\ dpc' = "notify"
    /\ UNCHANGED <<buffer, toWrite, file, logged, notifying, wpc>>

NotifyAll ==
    /\ dpc = "notify"
    /\ wpc' = Woken
    /\ dpc' = "join"
    /\ UNCHANGED <<running, buffer, toWrite, file, logged, before, notifying>>

Join ==
    /\ dpc = "join"
    /\ wpc = "exited"
    /\ dpc' = "done"
    /\ UNCHANGED <<running, buffer, toWrite, file, logged, before, notifying, wpc>>

Worker == Wait \/ Swap \/ Write \/ Break \/ Final

Next ==
    \/ \E t \in Loggers : Push(t) \/ NotifyOne(t)
    \/ Worker \/ SpuriousWakeup
    \/ Stop \/ NotifyAll \/ Join

Spec == Init /\ [][Next]_vars

\* The logger's own threads and calls go on; nobody has to log or destroy.
FairSpec ==
    /\ Spec
    /\ WF_vars(Worker)
    /\ \A t \in Loggers : WF_vars(NotifyOne(t))
    /\ WF_vars(NotifyAll \/ Join)

----------------------------------------------------------------------------
(* Properties *)

TypeOK ==
    /\ running \in BOOLEAN
    /\ {buffer, toWrite, file} \subseteq Seq(1 .. MaxMsgs)
    /\ logged \in 0 .. MaxMsgs /\ before \in 0 .. logged
    /\ notifying \subseteq Loggers
    /\ wpc \in {"check", "waiting", "write", "final", "exited"}
    /\ dpc \in {"idle", "notify", "join", "done"}

\* Until the worker exits, what was logged is written, held or buffered, once
\* and in order (simpleLogger.hpp:31-57).
InOrder ==
    wpc # "exited" => file \o toWrite \o buffer = [k \in 1 .. logged |-> k]

\* When the worker exits, the file begins with everything logged before the
\* destructor, in order, and has no message twice, whatever is logged while the
\* worker leaves its loop and looks at the buffer again (21-29 and 50-70).
WrittenAtExit ==
    wpc = "exited" => /\ Len(file) \in before .. logged
                      /\ file = [k \in 1 .. Len(file) |-> k]

\* Again and again, while the destructor has not begun, the file holds all that
\* was logged: a message logged while the worker is about to wait is not left
\* until the next one comes (31-39 and 45-52).
EveryMessageWritten == []<>(running => Len(file) = logged)

\* The destructor returns (21-29).
DestructorEnds == []<>(~running => dpc = "done")
===========================================================================
