----------------------------- MODULE HttpClient -----------------------------
(***************************************************************************)
(* One request of the desktop tool's HTTP client (qt-client/httpclient.cpp)*)
(* from send() to finished(): the window keeps one client and uses it for  *)
(* request after request, the load generator makes one for each request.   *)
(*                                                                         *)
(* The flags timedOut, cancelled and truncated are set right before        *)
(* abort(), and abort() emits finished() before it returns: so a request   *)
(* that is going on has none of them, and its end is one step that knows   *)
(* its cause.  Bytes are counted in units of one read() of the reply.      *)
(***************************************************************************)
EXTENDS Naturals

CONSTANTS
    Statuses,       \* status codes a server sends
    MaxResponse,    \* HttpClient::MaxResponse
    MaxBody         \* bound: the longest body a server sends

ASSUME HttpAssumption ==
    /\ Statuses \subseteq 200 .. 599
    /\ {MaxResponse, MaxBody} \subseteq Nat

\* The reply: the status when its headers are in (else 0), what can be read,
\* and bytesReceived.
NewRequest == [status |-> 0, unread |-> 0, received |-> 0]

\* The network: headers, then the body.
HeadersArrive(r, status) == [r EXCEPT !.status = status]
MayGrow(r) == r.status # 0 /\ r.unread + r.received < MaxBody
BodyArrives(r) == [r EXCEPT !.unread = @ + 1]

----------------------------------------------------------------------------
(* drain() *)

Over(r) == r.received > MaxResponse

\* How much drain() reads: everything, or up to the read that goes over.
Readable(r) ==
    LET room == IF Over(r) THEN 1 ELSE MaxResponse + 1 - r.received
    IN  IF r.unread < room THEN r.unread ELSE room

Drain(r) ==
    [r EXCEPT !.received = @ + Readable(r), !.unread = @ - Readable(r)]

----------------------------------------------------------------------------
(* finish() *)

\* httpStatusError(): the errors that only repeat a 4xx or 5xx status.
HttpStatusError(error) == error = "content"

\* Mutant: any error is forgiven to a response with a status of 300 or more.
FailedByStatus(r, error) == error # "none" /\ ~(r.status >= 300)
Failed(r, error) ==
    error # "none" /\ ~(r.status >= 300 /\ HttpStatusError(error))

Outcome(r, cause, drained, error) ==
    IF drained /\ Over(r) THEN "tooLarge"
    ELSE IF cause # "reply" THEN cause
    ELSE IF Failed(r, error) \/ r.status = 0 THEN "networkError"
    ELSE IF r.status \in 200 .. 299 THEN "success"
    ELSE "httpError"

\* The result of a request that ends with this cause and error of the reply,
\* which abort() may have closed (then drain() reads nothing).  whole: the
\* server's response had come to its end.
Finish(r, cause, error, open) ==
    LET d == IF open THEN Drain(r) ELSE r
    IN  [outcome |-> Outcome(d, cause, open /\ Readable(r) > 0, error),
         status  |-> d.status,
         read    |-> d.unread = 0 /\ ~Over(d),
         whole   |-> error \in {"none", "content"},
         cause   |-> cause]

\* finished() by itself.  QNetworkReply has an error unless the response is
\* complete with a status below 400, and an error of its own for the others.
ReplyResults(r) ==
    {Finish(r, "reply", error, TRUE) : error \in
        {"transport"} \union (IF r.status = 0 THEN {}
                              ELSE IF r.status < 400 THEN {"none"} ELSE {"content"})}

\* finished() from abort().
AbortResults(r, cause) == {Finish(r, cause, "canceled", open) : open \in BOOLEAN}

----------------------------------------------------------------------------
\* A result says what became of the request: success and httpError only for a
\* response that was read to its end within the limit, with a status that fits;
\* a timeout or cancel only for a request that was timed out or cancelled
\* (httpclient.cpp:118-180, mainwindow.cpp:1156-1160).
Honest(result) ==
    /\ result.outcome \in {"success", "httpError"}
       => result.whole /\ result.read /\ result.cause = "reply"
    /\ result.outcome = "success" => result.status \in 200 .. 299
    /\ result.outcome = "httpError" => result.status \in 300 .. 599
    /\ result.outcome \in {"timeout", "cancelled"} => result.cause = result.outcome
    /\ result.cause = "reply" /\ result.whole /\ result.read
       => result.outcome \in {"success", "httpError"}
=============================================================================
