----------------------------- MODULE MainWindow -----------------------------
(***************************************************************************)
(* The window of the desktop tool (qt-client/mainwindow.cpp) over its HTTP *)
(* client http_ and its load generator benchmark_: what the buttons do,    *)
(* when they are enabled, and the end of the program.  The chat client has *)
(* a module of its own, TcpClient; here it is idle or it is not.           *)
(***************************************************************************)
EXTENDS HttpClient, Benchmark

CONSTANT MaxSends   \* bound: requests sent with http_

ASSUME WindowAssumption == MaxSends \in Nat

VARIABLES
    http,           \* the request of http_, or Idle
    sent,           \* history: accepted calls of http_.send()
    answered,       \* history: finished() of http_
    sendHttp,       \* sendHttp_->isEnabled()
    profile,        \* profile_->isEnabled()
    benchStart,     \* benchStart_->isEnabled()
    benchExport,    \* benchExport_->isEnabled()
    shown,          \* the snapshot on the load page
    tcpIdle,        \* tcpDisconnect_ is disabled
    exit            \* up, closed, blocked and released (in ~BenchmarkRunner), gone

ui == <<sendHttp, profile, benchStart, benchExport, shown, tcpIdle>>
client == <<http, sent, answered>>
window == <<client, ui, exit>>

Idle == [status |-> 0, unread |-> 0, received |-> 0, idle |-> TRUE]
Busy == http # Idle

WindowInit ==
    /\ BenchInit
    /\ http = Idle /\ sent = 0 /\ answered = 0
    /\ sendHttp = TRUE /\ profile = TRUE
    /\ benchStart = TRUE /\ benchExport = FALSE
    /\ shown = NoSnapshot
    /\ tcpIdle = TRUE
    /\ exit = "up"

\* The window's thread is free for an event; the buttons are there.
Event == exit \in {"up", "closed"}
Click == exit = "up"

----------------------------------------------------------------------------
(* http_ *)

SendHttp ==
    /\ Click /\ sendHttp
    /\ ~Busy
    /\ sent < MaxSends
    /\ http' = NewRequest
    /\ sent' = sent + 1
    /\ sendHttp' = FALSE /\ profile' = FALSE
    /\ UNCHANGED <<bench, answered, benchStart, benchExport, shown, tcpIdle, exit>>

\* Mutant: busyChanged(false) forgets the load generator.
HttpFinishesAlone(results, idle) ==
    /\ results # {}
    /\ http' = Idle
    /\ answered' = answered + 1
    /\ sendHttp' = TRUE
    /\ profile' = idle
    /\ tcpIdle' = idle
    /\ UNCHANGED <<sent, benchStart, benchExport, shown>>

\* busyChanged(false) and finished(), with any result; idle tells what the chat
\* client is afterwards.
HttpFinishes(results, idle) ==
    /\ results # {}
    /\ http' = Idle
    /\ answered' = answered + 1
    /\ sendHttp' = TRUE
    /\ profile' = (~running /\ idle)
    /\ tcpIdle' = idle
    /\ UNCHANGED <<sent, benchStart, benchExport, shown>>

HttpGrows ==
    /\ Busy
    /\ \/ /\ http.status = 0
          /\ \E status \in Statuses : http' = HeadersArrive(http, status)
       \/ MayGrow(http) /\ http' = BodyArrives(http)
    /\ UNCHANGED <<bench, sent, answered, ui, exit>>

HttpReads ==
    /\ Event /\ Busy
    /\ http.unread > 0
    /\ LET r == Drain(http)
       IN  IF Over(r) THEN HttpFinishes(AbortResults(r, "tooLarge"), tcpIdle)
           ELSE http' = r /\ UNCHANGED <<sent, answered, ui>>
    /\ UNCHANGED <<bench, exit>>

HttpEnds ==
    /\ Event /\ Busy
    /\ HttpFinishes(ReplyResults(http), tcpIdle)
    /\ UNCHANGED <<bench, exit>>

HttpTimesOut ==
    /\ Event /\ Busy
    /\ HttpFinishes(AbortResults(http, "timeout"), tcpIdle)
    /\ UNCHANGED <<bench, exit>>

CancelHttp ==
    /\ Click /\ Busy
    /\ HttpFinishes(AbortResults(http, "cancelled"), tcpIdle)
    /\ UNCHANGED <<bench, exit>>

----------------------------------------------------------------------------
(* benchmark_ *)

\* updateBenchmark()
Show(s) ==
    /\ shown' = s
    /\ benchStart' = ~s.running
    /\ profile' = (~s.running /\ ~Busy /\ tcpIdle)

StartBenchmark ==
    /\ Click /\ benchStart
    /\ Start
    /\ Show([NoSnapshot EXCEPT !.run = runs', !.running = TRUE])
    /\ benchExport' = FALSE
    /\ UNCHANGED <<client, sendHttp, tcpIdle, exit>>

StopBenchmark ==
    /\ Click
    /\ Stop
    /\ UNCHANGED window

WindowSignal ==
    /\ Event
    /\ RunnerSignal
    /\ Show(Head(signals).snapshot)
    /\ benchExport' = (benchExport \/ Head(signals).kind = "finished")
    /\ UNCHANGED <<client, sendHttp, tcpIdle, exit>>

\* stateChanged() of the chat client: connecting, connected and disconnecting
\* are all not idle, so what matters of it is the change of idle.
TcpChanges ==
    /\ Event
    /\ tcpIdle' = ~tcpIdle
    /\ profile' = (tcpIdle' /\ ~Busy /\ ~running)
    /\ UNCHANGED <<bench, client, sendHttp, benchStart, benchExport, shown, exit>>

----------------------------------------------------------------------------
(* The end: closeEvent(), then ~BenchmarkRunner() *)

\* The chat client that is told to disconnect is idle at once, or later, when
\* what it has queued is sent.
CloseWindow ==
    /\ Click
    /\ \E idle \in {tcpIdle, TRUE} :
          IF Busy THEN HttpFinishes(AbortResults(http, "cancelled"), idle)
          ELSE /\ tcpIdle' = idle
               /\ profile' = IF idle = tcpIdle THEN profile ELSE ~running
               /\ UNCHANGED <<client, sendHttp, benchStart, benchExport, shown>>
    /\ IF running THEN Stop ELSE UNCHANGED bench
    /\ exit' = "closed"

\* The signals are disconnected, and the last stop() is waited for.
DestroyRunner ==
    /\ exit = "closed"
    /\ signals' = <<>>
    /\ calls' = Append(calls, "last")
    /\ exit' = "blocked"
    /\ UNCHANGED <<worker, runner, client, ui>>

WorkerAnswers ==
    /\ WorkerCall
    /\ exit' = IF Head(calls) = "last" THEN "released" ELSE exit
    /\ UNCHANGED <<client, ui>>

\* thread_.quit() and wait()
ThreadEnds ==
    /\ exit = "released"
    /\ exit' = "gone"
    /\ UNCHANGED <<bench, client, ui>>

WorkerFills ==
    /\ exit # "gone"
    /\ WorkerFill
    /\ UNCHANGED window

WorkerShows ==
    /\ exit # "gone"
    /\ WorkerUpdates
    /\ UNCHANGED window

WorkerRequestEnds ==
    /\ exit # "gone"
    /\ \E id \in active : RequestEnds(id)
    /\ UNCHANGED window

WindowNext ==
    \/ SendHttp \/ HttpGrows \/ HttpReads \/ HttpEnds \/ HttpTimesOut \/ CancelHttp
    \/ StartBenchmark \/ StopBenchmark \/ WindowSignal \/ TcpChanges
    \/ CloseWindow \/ DestroyRunner \/ ThreadEnds
    \/ WorkerAnswers \/ WorkerFills \/ WorkerShows \/ WorkerRequestEnds

all == <<bench, window>>
WindowSpec == WindowInit /\ [][WindowNext]_all

\* Each thread's event loop goes on with what is queued and with its timers, and
\* the timer of a request ends it if nothing else does; servers and the user owe
\* nothing.
FairWindowSpec ==
    /\ WindowSpec
    /\ WF_all(WorkerAnswers \/ WorkerFills \/ WorkerRequestEnds \/ ThreadEnds)
    /\ WF_all(WindowSignal \/ HttpTimesOut)

----------------------------------------------------------------------------
(* Properties *)

\* Whatever ends a request now, the reply, a read over the limit, the timer or
\* cancel(), its result is honest; and http_ has answered every request it took
\* but the one in flight (httpclient.cpp:30-40 and 76-180).
ResultsHonest ==
    /\ Busy =>
          \A result \in ReplyResults(http) \union AbortResults(http, "timeout")
                \union AbortResults(http, "cancelled")
                \union (IF Over(Drain(http)) THEN AbortResults(Drain(http), "tooLarge")
                        ELSE {}) :
             Honest(result)
    /\ sent = answered + (IF Busy THEN 1 ELSE 0)

\* Between two events of the window a request, a load run and a choice of the
\* server can be started exactly when this is safe, though the state of the
\* three clients reaches the window in different ways and the load generator's
\* is behind (mainwindow.cpp:858-874, 889-898 and 1223-1263).
WindowConsistent ==
    Event => /\ sendHttp = ~Busy
             /\ profile = (~Busy /\ ~running /\ tcpIdle)
             /\ benchStart = ~running
             /\ benchExport => shown.run = runs /\ csv = 1 .. shown.completed
             /\ shown.completed <= shown.started /\ shown.cancelled <= shown.completed

\* A run ends and the window hears of it, a request ends, and the window that
\* was closed does not hang in the destructor, which leaves nothing in flight
\* and nothing that will start (benchmark.cpp:107-169, 235-270).
WaitsEnd ==
    []<>(/\ exit = "up" => ~running /\ ~Busy
         /\ exit \notin {"blocked", "released"}
         /\ exit = "gone" => active = {} /\ ~snapshot.running)
=============================================================================
