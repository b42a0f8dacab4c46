---------------------------- MODULE MCEndpoints ----------------------------
(* Endpoints for TLC: frames with at most one word of payload.             *)
EXTENDS Endpoints

MCPayloads == {<<>>}

\* A frame and the beginning of a longer one; a length that is too large.
MCReplies == {<<2, Magic, 1, 3, Magic>>, <<4>>, <<>>}

\* With both ends the server is silent.
MCSessionReplies == {<<>>}
============================================================================
