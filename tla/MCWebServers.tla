---------------------------- MODULE MCWebServers ----------------------------
(* The web servers, two connections that share descriptors one after another. *)
EXTENDS WebServers
=============================================================================
