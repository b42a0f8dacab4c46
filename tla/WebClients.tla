----------------------------- MODULE WebClients -----------------------------
(***************************************************************************)
(* The browsers of the web servers, and what the servers share: sockets    *)
(* and descriptors, and the loop that cuts requests out of a buffer.       *)
(*                                                                         *)
(* A request is any number of parts ("p") and its last part: "k" when the  *)
(* connection is to stay, "c" when the request says that it ends (HTTP/1.0 *)
(* or "Connection: close", whichever the server looks at; where in the     *)
(* request it says so matters to WebSubReactors only).                     *)
(***************************************************************************)
EXTENDS Naturals, Sequences, FiniteSets, FiniteSetsExt, SequencesExt

CONSTANTS
    MaxConns,       \* bound: connections made
    MaxParts        \* bound: parts of requests sent in all

ASSUME ClientsAssumption == {MaxConns, MaxParts} \subseteq Nat

Conn == 1 .. MaxConns
Fds == 1 .. MaxConns
Part == {"p", "k", "c"}

VARIABLES
    state,          \* each connection: none, pending (to be accepted), open, closed
    fdOf,           \* its descriptor in the server, 0 unless it is open
    sent,           \* what its peer has sent
    unread,         \* the part of it that the server has not read
    fin,            \* its peer has closed
    answered        \* responses sent on it

sockets == <<state, fdOf, sent, unread, fin, answered>>

ClientsInit ==
    /\ state = [c \in Conn |-> "none"]
    /\ fdOf = [c \in Conn |-> 0]
    /\ sent = [c \in Conn |-> <<>>]
    /\ unread = [c \in Conn |-> <<>>]
    /\ fin = [c \in Conn |-> FALSE]
    /\ answered = [c \in Conn |-> 0]

----------------------------------------------------------------------------
(* Requests in a buffer *)

Ends(s) == {k \in DOMAIN s : s[k] \in {"k", "c"}}
Requests(s) == Cardinality(Ends(s))
From(s, k) == SubSeq(s, k, Len(s))

\* What is left of a stream behind its first n requests.
Behind(s, n) ==
    IF n = 0 THEN s
    ELSE From(s, 1 + CHOOSE k \in Ends(s) : Cardinality({j \in Ends(s) : j <= k}) = n)

\* The requests of a stream up to the first one that asks for the end.
AskedEnds(s) == {k \in DOMAIN s : s[k] = "c"}
Due(s) == IF AskedEnds(s) = {} THEN Requests(s)
          ELSE Requests(SubSeq(s, 1, Min(AskedEnds(s))))

\* Mutant: one request per event.
AnswerOne(s) ==
    LET n == Min({1, Requests(s)})
    IN  [answers |-> n, rest |-> Behind(s, n),
         close |-> n = 1 /\ s[Min(Ends(s))] = "c"]

\* The loop ends with a buffer without a complete request, or closes behind
\* the first request that asks for it.
Answer(s) ==
    [answers |-> Due(s), rest |-> Behind(s, Due(s)), close |-> AskedEnds(s) # {}]

----------------------------------------------------------------------------
(* The peers *)

PeerConnects(c) ==
    /\ state[c] = "none"
    /\ c > 1 => state[c - 1] # "none"
    /\ state' = [state EXCEPT ![c] = "pending"]
    /\ UNCHANGED <<fdOf, sent, unread, fin, answered>>

PeerSends(c, part) ==
    /\ state[c] \in {"pending", "open"}
    /\ ~fin[c]
    /\ SumFunction([d \in Conn |-> Len(sent[d])]) < MaxParts
    /\ sent' = [sent EXCEPT ![c] = Append(@, part)]
    /\ unread' = [unread EXCEPT ![c] = Append(@, part)]
    /\ UNCHANGED <<state, fdOf, fin, answered>>

PeerEnds(c) ==
    /\ state[c] \in {"pending", "open"}
    /\ ~fin[c]
    /\ fin' = [fin EXCEPT ![c] = TRUE]
    /\ UNCHANGED <<state, fdOf, sent, unread, answered>>

Readable(c) == state[c] = "open" /\ (unread[c] # <<>> \/ fin[c])
Pending == {c \in Conn : state[c] = "pending"}
Open == {c \in Conn : state[c] = "open"}

ConnAt(fd) == CHOOSE c \in Open : fdOf[c] = fd
IsOpen(fd) == \E c \in Open : fdOf[c] = fd

\* What accept() returns in a loop until EAGAIN: the lowest free numbers, in
\* the order of the connections.
Used == {fdOf[c] : c \in Open}
NewFds ==
    {new \in [Pending -> Fds \ Used] :
        /\ \A c, d \in Pending : c < d => new[c] < new[d]
        /\ \A c \in Pending, fd \in Fds \ Used :
              fd < new[c] => \E d \in Pending : new[d] = fd}

AcceptAll(new) ==
    /\ state' = [c \in Conn |-> IF c \in Pending THEN "open" ELSE state[c]]
    /\ fdOf' = [c \in Conn |-> IF c \in Pending THEN new[c] ELSE fdOf[c]]
    /\ UNCHANGED <<sent, unread, fin, answered>>

\* recv() of the first n parts of connection c, then as many responses as
\* there are answers, and close() if the connection is to end.
Serve(c, n, answers, close) ==
    /\ unread' = [unread EXCEPT ![c] = From(@, n + 1)]
    /\ answered' = [answered EXCEPT ![c] = @ + answers]
    /\ state' = IF close THEN [state EXCEPT ![c] = "closed"] ELSE state
    /\ fdOf' = IF close THEN [fdOf EXCEPT ![c] = 0] ELSE fdOf
    /\ UNCHANGED <<sent, fin>>

\* close() of some connections: what is unread stays so.
CloseAll(cs) ==
    /\ state' = [c \in Conn |-> IF c \in cs THEN "closed" ELSE state[c]]
    /\ fdOf' = [c \in Conn |-> IF c \in cs THEN 0 ELSE fdOf[c]]
    /\ UNCHANGED <<sent, unread, fin, answered>>
=============================================================================
