----------------------------- MODULE Benchmark -----------------------------
(***************************************************************************)
(* The load generator of the desktop tool (qt-client/benchmark.cpp): the   *)
(* BenchmarkRunner on the window's thread, the BenchmarkWorker on its own, *)
(* and the queued calls and signals between the two, in both directions in *)
(* the order they were made.  A step is one event of one of the threads.   *)
(* The HttpClients of the worker live on its thread, so their signals are  *)
(* direct calls: cancel() runs consume() before it returns.  What goes on  *)
(* in a request is in HttpClient; to the worker it is in flight until it   *)
(* ends, with the outcome "cancelled" only after cancel(), which may also  *)
(* find a response that is too large (Honest and Finish of HttpClient).    *)
(***************************************************************************)
EXTENDS Naturals, Sequences, FiniteSets, FiniteSetsExt

CONSTANTS
    Total,          \* requests of a run
    Concurrency,    \* at most so many at a time
    MaxRuns,        \* bound: runs started
    MaxCalls,       \* bound: calls on their way to the worker
    MaxSignals      \* bound: signals on their way to the window

ASSUME BenchmarkAssumption ==
    /\ {Total, Concurrency, MaxCalls, MaxSignals} \subseteq Nat \ {0}
    /\ MaxRuns \in Nat

VARIABLES
    \* the worker
    snapshot,       \* snapshot_, with the number of its run
    stopping,       \* stopping_
    active,         \* active_: the ids in flight
    records,        \* records_: the ids that are completed
    fills,          \* single-shot timers that will call fill()
    \* the events between the threads
    calls,          \* to the worker: start, stop, the destructor's stop
    signals,        \* to the window: updated and finished
    \* the runner
    running,        \* running_
    csv,            \* csv_: the ids of its rows
    runs,           \* history: start() calls that were accepted
    stopAsked       \* history: the runs during which stop() was called

worker == <<snapshot, stopping, active, records, fills>>
runner == <<running, csv, runs, stopAsked>>
bench == <<worker, calls, signals, runner>>

NoSnapshot ==
    [run |-> 0, running |-> FALSE, started |-> 0, completed |-> 0, cancelled |-> 0]

BenchInit ==
    /\ snapshot = NoSnapshot
    /\ stopping = FALSE
    /\ active = {} /\ records = {}
    /\ fills = 0
    /\ calls = <<>> /\ signals = <<>>
    /\ running = FALSE /\ csv = {}
    /\ runs = 0 /\ stopAsked = {}

----------------------------------------------------------------------------
(* BenchmarkWorker: fill(), consume() and finish() call each other, so     *)
(* they are functions of the worker's state.                               *)

State == [snapshot |-> snapshot, stopping |-> stopping, active |-> active,
          records |-> records, fills |-> fills, signals |-> signals]

Becomes(s) ==
    /\ snapshot' = s.snapshot /\ stopping' = s.stopping
    /\ active' = s.active /\ records' = s.records
    /\ fills' = s.fills /\ signals' = s.signals

Signal(kind, s) == [kind |-> kind, snapshot |-> s.snapshot, csv |-> s.records]

FinishRun(s) ==
    IF ~s.snapshot.running THEN s
    ELSE LET over == [s EXCEPT !.snapshot.running = FALSE]
         IN  [over EXCEPT !.signals = Append(@, Signal("finished", over))]

AllDone(s) ==
    /\ s.active = {}
    /\ s.stopping \/ s.snapshot.started = Total

\* Mutant: fill() counts what it adds and forgets what is in flight.
RoomForAll(s) == IF s.stopping THEN 0 ELSE Concurrency

Room(s) == IF s.stopping THEN 0 ELSE Concurrency - Cardinality(s.active)

\* client->send() does not fail in fill(): BenchmarkRunner::start() has
\* validated the same address and timeout.
Fill(s) ==
    IF ~s.snapshot.running THEN s
    ELSE LET started == s.snapshot.started
             last == Min({Total, started + Room(s)})
             filled == [s EXCEPT
                 !.snapshot.started = last,
                 !.active = @ \union (started + 1 .. last)]
         IN  IF AllDone(filled) THEN FinishRun(filled) ELSE filled

\* Mutant: the next request is left to the next fill().
ConsumeNoFill(s, ids, cancelled) ==
    LET taken == [s EXCEPT
            !.active = @ \ ids,
            !.snapshot.completed = @ + Cardinality(ids),
            !.snapshot.cancelled = @ + cancelled,
            !.records = @ \union ids]
    IN  IF AllDone(taken) THEN FinishRun(taken)
        ELSE taken

\* consume() of one request in flight or, in stop(), of all of them one by one,
\* so many of them cancelled: only the last can leave active_ empty, the others
\* set a timer for fill() each.
Consume(s, ids, cancelled) ==
    LET taken == [s EXCEPT
            !.active = @ \ ids,
            !.snapshot.completed = @ + Cardinality(ids),
            !.snapshot.cancelled = @ + cancelled,
            !.records = @ \union ids,
            !.fills = @ + Cardinality(ids) - 1]
    IN  IF AllDone(taken) THEN FinishRun(taken)
        ELSE [taken EXCEPT !.fills = @ + 1]

\* Mutant: the stop of the run before still counts.
StartRunStopping(s) ==
    IF s.snapshot.running THEN s
    ELSE Fill([s EXCEPT
            !.snapshot = [NoSnapshot EXCEPT !.run = s.snapshot.run + 1, !.running = TRUE],
            !.records = {}])

StartRun(s) ==
    IF s.snapshot.running THEN s
    ELSE Fill([s EXCEPT
            !.snapshot = [NoSnapshot EXCEPT !.run = s.snapshot.run + 1, !.running = TRUE],
            !.stopping = FALSE,
            !.records = {}])

\* stop(): every client's cancel(), which may also find a response too large.
Stops(s) ==
    LET stopped == [s EXCEPT !.stopping = TRUE]
    IN  IF ~s.snapshot.running THEN {s}
        ELSE IF s.active = {} THEN {FinishRun(stopped)}
        ELSE {Consume(stopped, s.active, cancelled) :
                cancelled \in 0 .. Cardinality(s.active)}

----------------------------------------------------------------------------
(* The worker's thread: one event each *)

WorkerCall ==
    /\ calls # <<>>
    /\ calls' = Tail(calls)
    /\ IF Head(calls) = "start" THEN Becomes(StartRun(State))
       ELSE \E s \in Stops(State) : Becomes(s)
    /\ UNCHANGED runner

WorkerFill ==
    /\ fills > 0
    /\ Becomes(Fill([State EXCEPT !.fills = @ - 1]))
    /\ UNCHANGED <<calls, runner>>

\* updateTimer_, which finish() stops.
WorkerUpdates ==
    /\ snapshot.running
    /\ Len(signals) < MaxSignals
    /\ signals' = Append(signals, Signal("updated", State))
    /\ UNCHANGED <<worker, calls, runner>>

\* A request ends by itself: with a response, an error or a timeout.
RequestEnds(id) ==
    /\ id \in active
    /\ Becomes(Consume(State, {id}, 0))
    /\ UNCHANGED <<calls, runner>>

----------------------------------------------------------------------------
(* BenchmarkRunner *)

Start ==
    /\ ~running
    /\ runs < MaxRuns
    /\ Len(calls) < MaxCalls
    /\ runs' = runs + 1
    /\ running' = TRUE
    /\ csv' = {}
    /\ calls' = Append(calls, "start")
    /\ UNCHANGED <<worker, signals, stopAsked>>

Stop ==
    /\ running
    /\ Len(calls) < MaxCalls
    /\ calls' = Append(calls, "stop")
    /\ stopAsked' = stopAsked \union {runs}
    /\ UNCHANGED <<worker, signals, running, csv, runs>>

\* A queued signal of the worker reaches the runner.
RunnerSignal ==
    /\ signals # <<>>
    /\ signals' = Tail(signals)
    /\ IF Head(signals).kind = "finished"
       THEN running' = FALSE /\ csv' = Head(signals).csv
       ELSE UNCHANGED <<running, csv>>
    /\ UNCHANGED <<worker, calls, runs, stopAsked>>

----------------------------------------------------------------------------
(* Properties *)

\* At every moment the requests of the run are the completed ones and those in
\* flight, each once, and never more in flight than the limit, whatever fill()
\* timers of this run or an earlier one are still to come; a run that is over
\* has none in flight (benchmark.cpp:56-169).
CountsAddUp ==
    /\ active \cap records = {}
    /\ active \union records = 1 .. snapshot.started
    /\ snapshot.completed = Cardinality(records)
    /\ Cardinality(active) <= Concurrency
    /\ ~snapshot.running => active = {}
    /\ \A k \in DOMAIN signals : signals[k].kind = "finished" =>
          LET s == signals[k].snapshot
          IN  s.completed = s.started /\ signals[k].csv = 1 .. s.started

\* A run is cut short, or has cancelled requests, only if it was stopped itself:
\* a stop() that crosses the end of one run never reaches the next one
\* (benchmark.cpp:79-90 and 246-303).
StopsItsOwnRun ==
    /\ stopping \/ snapshot.cancelled > 0 => snapshot.run \in stopAsked
    /\ snapshot.running => running /\ snapshot.run = runs
=============================================================================
