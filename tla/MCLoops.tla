------------------------------ MODULE MCLoops ------------------------------
(***************************************************************************)
(* A loop and what it owes when it ends, at two grains: one EventLoop with *)
(* all that its threads do (EventLoop), or the sub Reactors of the chat    *)
(* server, each with such a loop, whose server ends (ChatShutdown).  Which *)
(* of the two runs is chosen at the start; the other one stands still.     *)
(***************************************************************************)
EXTENDS EventLoop, ServerEnd

CONSTANT MaxOthers

VARIABLES
    part,           \* "loop" or "server"
    sigint, next, serving, queued, batches, posts, others, dirty, conns
                    \* those of ChatShutdown that ServerEnd does not have

Server == INSTANCE ChatShutdown WITH
    running <- serving, pending <- queued, locals <- batches

server == <<mpc, sigint, next, accepts, early, serving, queued, batches, tpc,
            posts, others, dirty, conns, closed, noticed>>
all == <<part, vars, server>>

LoopsInit ==
    /\ part \in {"loop", "server"}
    /\ Init
    /\ Server!Init

LoopsNext ==
    \/ part = "loop" /\ Next /\ UNCHANGED <<part, server>>
    \/ part = "server" /\ Server!Next /\ UNCHANGED <<part, vars>>

\* The fairness of each part, while it is the one that runs.
LoopsSpec ==
    /\ LoopsInit /\ [][LoopsNext]_all
    /\ WF_vars(part = "loop" /\ LoopThread)
    /\ \A p \in Posters : WF_vars(part = "loop" /\ CallGoesOn(p))
    /\ \A q \in Quitters : WF_vars(part = "loop" /\ QuitWake(q))
    /\ WF_server(part = "server" /\ Server!MainThread)
    /\ \A i \in Loops :
          WF_server(part = "server" /\ Server!SubThread(i))

----------------------------------------------------------------------------
\* SIGINT ends the server: all sub threads can be joined (519-527).
ShutdownEnds == Server!ShutdownEnds
============================================================================
