--------------------------- MODULE TaskExecutor ---------------------------
(***************************************************************************)
(* What EventLoop::runInLoop and EventLoop::quit promise to their callers, *)
(* without threads, locks, eventfd or epoll:                               *)
(*                                                                         *)
(*   - a task is either accepted (runInLoop returns true) or refused       *)
(*     (it returns false); it is refused only after quit() was called;     *)
(*   - accepted tasks run once each, one at a time, in acceptance order;   *)
(*   - the executor stops only after quit(), and only when no accepted     *)
(*     task is left; nothing is accepted afterwards.                       *)
(*                                                                         *)
(* EventLoop.tla implements this module.                                   *)
(***************************************************************************)
EXTENDS Sequences

CONSTANT Task       \* the calls of runInLoop made from other threads

VARIABLES
    phase,          \* "open", then "closing" (quit called), then "stopped"
    queue,          \* accepted tasks that have not run, oldest first
    executed,       \* tasks that have run, in order
    refused         \* tasks whose caller was told false

execVars == <<phase, queue, executed, refused>>

TypeOK ==
    /\ phase \in {"open", "closing", "stopped"}
    /\ queue \in Seq(Task)
    /\ executed \in Seq(Task)
    /\ refused \subseteq Task

Init ==
    /\ phase = "open"
    /\ queue = <<>>
    /\ executed = <<>>
    /\ refused = {}

Accept(t) ==
    /\ phase # "stopped"
    /\ queue' = Append(queue, t)
    /\ UNCHANGED <<phase, executed, refused>>

Refuse(t) ==
    /\ phase # "open"
    /\ refused' = refused \union {t}
    /\ UNCHANGED <<phase, queue, executed>>

Execute ==
    /\ queue # <<>>
    /\ executed' = Append(executed, Head(queue))
    /\ queue' = Tail(queue)
    /\ UNCHANGED <<phase, refused>>

\* Running a task whose body calls quit() executes it and closes the executor.
ExecuteAndClose ==
    /\ queue # <<>>
    /\ executed' = Append(executed, Head(queue))
    /\ queue' = Tail(queue)
    /\ phase = "open"
    /\ phase' = "closing"
    /\ UNCHANGED refused

Close ==
    /\ phase = "open"
    /\ phase' = "closing"
    /\ UNCHANGED <<queue, executed, refused>>

Stop ==
    /\ phase = "closing"
    /\ queue = <<>>
    /\ phase' = "stopped"
    /\ UNCHANGED <<queue, executed, refused>>

Next ==
    \/ \E t \in Task : Accept(t) \/ Refuse(t)
    \/ Execute
    \/ ExecuteAndClose
    \/ Close
    \/ Stop

Spec == Init /\ [][Next]_execVars
===========================================================================
