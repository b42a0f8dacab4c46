------------------------------ MODULE SubLoops ------------------------------
(***************************************************************************)
(* The sub Reactors of the chat server (src/chat_server.cpp) and the       *)
(* connections that are dealt out to them in turn: what ChatServer, which  *)
(* serves, and ChatShutdown, which ends, have in common.                   *)
(***************************************************************************)
EXTENDS Naturals

CONSTANTS
    NLoops,         \* kSubLoopCount
    MaxConns        \* bound: connections ever accepted

ASSUME LoopsAssumption == NLoops \in Nat \ {0} /\ MaxConns \in Nat

Loops == 0 .. NLoops - 1
Conns == 1 .. MaxConns

\* nextLoop_ counts the accepts: round robin.
Owner(c) == (c - 1) % NLoops
=============================================================================
