----------------------------- MODULE ServerEnd -----------------------------
(***************************************************************************)
(* What the chat server owes its connections when it ends (run() of        *)
(* src/chat_server.cpp), in the terms of ChatShutdown, which specifies how *)
(* it ends.                                                                *)
(***************************************************************************)
EXTENDS SubLoops

VARIABLES
    mpc,            \* where the main thread is
    tpc,            \* where each sub thread is; "gone": its EventLoop is too
    accepts,        \* accept() calls so far
    early,          \* connections accepted before onWakeup
    closed,         \* connections whose descriptor has been closed
    noticed         \* history: connections sent the shutdown notice

\* A connection accepted before the shutdown has been sent the notice or closed
\* by the time its sub thread is gone: the notice is queued before the quit and
\* drained after it (chat_server.cpp:1173-1183 and 524, EventLoop.hpp:82-83).
NoticeDelivered ==
    \A c \in early : tpc[Owner(c)] = "gone" => c \in noticed \union closed

\* When run() returns every accepted connection has been closed, those whose
\* adoption was still queued included (chat_server.cpp:529-536).
NothingLeftOpen == mpc = "done" => 1 .. accepts \subseteq closed
============================================================================
