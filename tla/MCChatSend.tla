---------------------------- MODULE MCChatSend ----------------------------
(* ChatSend for TLC: the constants get their values in the .cfg files.     *)
EXTENDS ChatSend
===========================================================================
