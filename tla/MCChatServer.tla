--------------------------- MODULE MCChatServer ---------------------------
(* ChatServer for TLC.                                                     *)
EXTENDS ChatServer

Symmetry == Permutations(Nicks)
===========================================================================
