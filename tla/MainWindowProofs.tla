-------------------------- MODULE MainWindowProofs --------------------------
(***************************************************************************)
(* Proofs about HttpClient, Benchmark and MainWindow, for any limits and   *)
(* any number of requests and of load runs: what a result says, that the   *)
(* counts of a run add up, that a stop reaches its own run only, and that  *)
(* the buttons of the window agree with its clients.                       *)
(***************************************************************************)
EXTENDS MainWindow, TLAPS, SequenceTheorems, FiniteSetTheorems

Snapshot == [run : Nat, running : BOOLEAN,
             started : Nat, completed : Nat, cancelled : Nat]
SignalSet == [kind : {"updated", "finished"}, snapshot : Snapshot, csv : SUBSET Nat]

\* The states of the worker.
WState == [snapshot : Snapshot, stopping : BOOLEAN,
           active : SUBSET Nat, records : SUBSET Nat,
           fills : Int, signals : Seq(SignalSet)]

\* What the worker keeps true of its own state: CountsAddUp but for the signals.
Good(s) ==
    /\ s.snapshot.started <= Total
    /\ s.active \cap s.records = {}
    /\ s.active \union s.records = 1 .. s.snapshot.started
    /\ s.snapshot.completed = Cardinality(s.records)
    /\ Cardinality(s.active) <= Concurrency
    /\ ~s.snapshot.running => s.active = {}
    /\ s.snapshot.cancelled <= s.snapshot.completed

\* Everything that was started is completed, and on record.
Complete(snap, rows) == snap.completed = snap.started /\ rows = 1 .. snap.started

\* What fill() and consume() do to a run: it goes on, or it is over and the
\* signal of that is the last one.
After(s, t) ==
    /\ t \in WState /\ Good(t)
    /\ t.snapshot.run = s.snapshot.run
    /\ \/ t.signals = s.signals /\ t.snapshot.running = s.snapshot.running
       \/ /\ s.snapshot.running /\ ~t.snapshot.running
          /\ t.signals = Append(s.signals, Signal("finished", t))
          /\ Complete(t.snapshot, t.records)

----------------------------------------------------------------------------
(* The worker *)

LEMMA Limits == Total \in Nat \ {0} /\ Concurrency \in Nat \ {0}
BY BenchmarkAssumption

\* The sets of a worker's requests are finite, and their sizes add up.
LEMMA Sizes ==
    ASSUME NEW n \in Nat, NEW A, NEW R, A \cap R = {}, A \union R = 1 .. n
    PROVE  /\ IsFiniteSet(A) /\ IsFiniteSet(R)
           /\ Cardinality(A) \in Nat /\ Cardinality(R) \in Nat
           /\ Cardinality(A) + Cardinality(R) = n
<1>1. IsFiniteSet(1 .. n) /\ Cardinality(1 .. n) = n
  BY FS_Interval
<1>2. A \subseteq 1 .. n /\ R \subseteq 1 .. n OBVIOUS
<1>3. IsFiniteSet(A) /\ IsFiniteSet(R) BY <1>1, <1>2, FS_Subset
<1>4. Cardinality(A) \in Nat /\ Cardinality(R) \in Nat
  BY <1>3, FS_CardinalityType
<1>5. Cardinality({}) = 0 BY FS_EmptySet
<1>6. Cardinality(A \union R) = Cardinality(A) + Cardinality(R) - Cardinality(A \cap R)
  BY <1>3, FS_Union
<1>7. Cardinality(A \union R) = n BY <1>1
<1>8. Cardinality(A \cap R) = 0 BY <1>5
<1> QED BY <1>3, <1>4, <1>6, <1>7, <1>8

LEMMA MinOfTwo ==
    ASSUME NEW x \in Nat, NEW y \in Nat
    PROVE  Min({x, y}) = IF x <= y THEN x ELSE y
<1> DEFINE m == IF x <= y THEN x ELSE y
<1>1. m \in {x, y} /\ \A z \in {x, y} : m <= z OBVIOUS
<1>2. \A v \in {x, y} : (\A z \in {x, y} : v <= z) => v = m OBVIOUS
<1> QED BY <1>1, <1>2 DEF Min

LEMMA FinishAfter ==
    ASSUME NEW s \in WState, Good(s), s.active = {}
    PROVE  /\ After(s, FinishRun(s))
           /\ FinishRun(s).stopping = s.stopping
           /\ FinishRun(s).snapshot.cancelled = s.snapshot.cancelled
<1>1. CASE ~s.snapshot.running
  BY <1>1 DEF FinishRun, After
<1>2. CASE s.snapshot.running
  <2> DEFINE over == [s EXCEPT !.snapshot.running = FALSE]
             t == [over EXCEPT !.signals = Append(@, Signal("finished", over))]
  <2>1. FinishRun(s) = t BY <1>2 DEF FinishRun
  <2>2. /\ over \in WState
        /\ over.snapshot = [s.snapshot EXCEPT !.running = FALSE]
        /\ over.stopping = s.stopping /\ over.active = s.active
        /\ over.records = s.records /\ over.signals = s.signals
    BY DEF WState, Snapshot
  <2>3. Signal("finished", over) \in SignalSet
    BY <2>2 DEF Signal, SignalSet, WState
  <2>4. Append(over.signals, Signal("finished", over)) \in Seq(SignalSet)
    <3>1. s.signals \in Seq(SignalSet) BY DEF WState
    <3>2. \A q \in Seq(SignalSet), e \in SignalSet : Append(q, e) \in Seq(SignalSet)
      OBVIOUS
    <3>3. over.signals \in Seq(SignalSet) BY <2>2, <3>1
    <3> HIDE DEF over
    <3> QED BY <2>3, <3>2, <3>3
  <2>5. /\ t \in WState
        /\ t.snapshot = over.snapshot /\ t.stopping = over.stopping
        /\ t.active = over.active /\ t.records = over.records
        /\ t.signals = Append(over.signals, Signal("finished", over))
    BY <2>2, <2>4 DEF WState
  <2>6. /\ t.snapshot.run = s.snapshot.run /\ t.snapshot.running = FALSE
        /\ t.snapshot.started = s.snapshot.started
        /\ t.snapshot.completed = s.snapshot.completed
        /\ t.snapshot.cancelled = s.snapshot.cancelled
    BY <2>2, <2>5 DEF WState, Snapshot
  <2>7. Good(t) BY <2>2, <2>5, <2>6 DEF Good
  <2>8. Signal("finished", over) = Signal("finished", t)
    BY <2>2, <2>5 DEF Signal
  <2>9. s.records = 1 .. s.snapshot.started BY DEF Good
  <2>10. s.snapshot.completed = s.snapshot.started
    <3>1. s.snapshot.started \in Nat BY DEF WState, Snapshot
    <3>2. Cardinality(1 .. s.snapshot.started) = s.snapshot.started
      BY <3>1, FS_Interval
    <3> QED BY <2>9, <3>2 DEF Good
  <2>11. t.signals = Append(s.signals, Signal("finished", t)) BY <2>2, <2>5, <2>8
  <2>12. Complete(t.snapshot, t.records) BY <2>2, <2>5, <2>6, <2>9, <2>10 DEF Complete
  <2>13. After(s, t) BY <1>2, <2>5, <2>6, <2>7, <2>11, <2>12 DEF After
  <2> QED BY <2>1, <2>2, <2>5, <2>6, <2>13
<1> QED BY <1>1, <1>2
\* fill() as far as the requests it starts.
Filled(s) ==
    LET started == s.snapshot.started
        last == Min({Total, started + Room(s)})
    IN  [s EXCEPT !.snapshot.started = last,
                  !.active = @ \union (started + 1 .. last)]

LEMMA FilledFacts ==
    ASSUME NEW s \in WState, Good(s), s.snapshot.running
    PROVE  LET f == Filled(s)
           IN  /\ f \in WState /\ Good(f)
               /\ f.snapshot.run = s.snapshot.run /\ f.snapshot.running
               /\ f.snapshot.cancelled = s.snapshot.cancelled
               /\ f.stopping = s.stopping /\ f.signals = s.signals
               /\ s.active \subseteq f.active
               /\ ~s.stopping /\ s.active = {} /\ s.snapshot.started = 0
                  => f.active # {}
<1> DEFINE f == Filled(s)
           started == s.snapshot.started
           last == Min({Total, started + Room(s)})
<1>1. /\ started \in Nat /\ s.snapshot \in Snapshot
      /\ s.active \in SUBSET Nat /\ s.records \in SUBSET Nat
      /\ Total \in Nat \ {0} /\ Concurrency \in Nat \ {0}
      /\ started <= Total
  BY Limits DEF WState, Snapshot, Good
<1>2. /\ Cardinality(s.active) \in Nat /\ Cardinality(s.active) <= Concurrency
      /\ IsFiniteSet(s.active)
  BY <1>1, Sizes DEF Good
<1>3. /\ Room(s) \in Nat
      /\ Room(s) <= Concurrency - Cardinality(s.active)
      /\ ~s.stopping => Room(s) = Concurrency - Cardinality(s.active)
  BY <1>1, <1>2 DEF Room
<1>4. /\ last \in Nat /\ started <= last /\ last <= Total /\ last <= started + Room(s)
      /\ last = Total \/ last = started + Room(s)
  <2>1. started + Room(s) \in Nat BY <1>1, <1>3
  <2>2. last = IF Total <= started + Room(s) THEN Total ELSE started + Room(s)
    BY <1>1, <2>1, MinOfTwo
  <2> QED BY <1>1, <1>3, <2>2
<1> HIDE DEF last
<1>5. f = [s EXCEPT !.snapshot.started = last,
                    !.active = @ \union (started + 1 .. last)]
  BY DEF Filled, last
<1>6. s.active \union (started + 1 .. last) \in SUBSET Nat BY <1>1, <1>4
<1>7. /\ f \in WState
      /\ f.snapshot = [s.snapshot EXCEPT !.started = last]
      /\ f.active = s.active \union (started + 1 .. last)
      /\ f.records = s.records /\ f.stopping = s.stopping /\ f.signals = s.signals
  <2>1. PICK p : p = [s.snapshot EXCEPT !.started = last] OBVIOUS
  <2>2. p \in Snapshot BY <1>1, <1>4, <2>1 DEF Snapshot
  <2>3. f = [s EXCEPT !.snapshot = p, !.active = @ \union (started + 1 .. last)]
    BY <1>5, <2>1
  <2>4. PICK a \in SUBSET Nat : a = s.active \union (started + 1 .. last) BY <1>6
  <2>5. f = [s EXCEPT !.snapshot = p, !.active = a] BY <2>3, <2>4
  <2> QED BY <2>1, <2>2, <2>4, <2>5 DEF WState
<1>8. /\ f.snapshot.started = last
      /\ f.snapshot.run = s.snapshot.run /\ f.snapshot.running = s.snapshot.running
      /\ f.snapshot.completed = s.snapshot.completed
      /\ f.snapshot.cancelled = s.snapshot.cancelled
  BY <1>1, <1>7 DEF Snapshot
<1>9. s.active \cap s.records = {} /\ s.active \union s.records = 1 .. started
  BY DEF Good
<1>10. f.active \cap f.records = {} /\ f.active \union f.records = 1 .. last
  <2>1. (started + 1 .. last) \cap (1 .. started) = {} BY <1>1, <1>4
  <2>2. (1 .. started) \union (started + 1 .. last) = 1 .. last BY <1>1, <1>4
  <2> QED BY <1>7, <1>9, <2>1, <2>2
<1>11. Cardinality(f.active) = Cardinality(s.active) + (last - started)
  <2>1. IsFiniteSet(started + 1 .. last) /\ Cardinality(started + 1 .. last) = last - started
    <3>1. started + 1 \in Int /\ last \in Int BY <1>1, <1>4
    <3>2. \A a \in Int, b \in Int : /\ IsFiniteSet(a .. b)
                                    /\ Cardinality(a .. b) = IF a > b THEN 0 ELSE b - a + 1
      BY FS_Interval
    <3>3. /\ IsFiniteSet(started + 1 .. last)
          /\ Cardinality(started + 1 .. last)
               = IF started + 1 > last THEN 0 ELSE last - (started + 1) + 1
      BY <3>1, <3>2
    <3> QED BY <1>1, <1>4, <3>3
  <2>2. s.active \cap (started + 1 .. last) = {} BY <1>1, <1>4, <1>9
  <2>3. Cardinality(s.active \cap (started + 1 .. last)) = 0 BY <2>2, FS_EmptySet
  <2>4. Cardinality(s.active \union (started + 1 .. last))
          = Cardinality(s.active) + Cardinality(started + 1 .. last)
            - Cardinality(s.active \cap (started + 1 .. last))
    BY <1>2, <2>1, FS_Union
  <2> QED BY <1>1, <1>2, <1>4, <1>7, <2>1, <2>3, <2>4
<1>12. Cardinality(f.active) <= Concurrency
  BY <1>1, <1>2, <1>3, <1>4, <1>11
<1>13. Good(f) BY <1>4, <1>7, <1>8, <1>10, <1>12 DEF Good
<1>14. ~s.stopping /\ s.active = {} /\ started = 0 => f.active # {}
  <2> SUFFICES ASSUME ~s.stopping, s.active = {}, started = 0
               PROVE  1 \in f.active
    OBVIOUS
  <2>1. Cardinality(s.active) = 0 BY FS_EmptySet
  <2>2. last >= 1 BY <1>1, <1>3, <1>4, <2>1
  <2> QED BY <1>4, <1>7, <2>2
<1> QED BY <1>7, <1>8, <1>13, <1>14

LEMMA FillOfFilled ==
    ASSUME NEW s, s.snapshot.running
    PROVE  Fill(s) = IF AllDone(Filled(s)) THEN FinishRun(Filled(s)) ELSE Filled(s)
BY DEF Fill, Filled

LEMMA AfterTrans ==
    ASSUME NEW s \in WState, NEW u \in WState, NEW t, After(u, t),
           u.snapshot.run = s.snapshot.run, u.snapshot.running = s.snapshot.running,
           u.signals = s.signals
    PROVE  After(s, t)
BY DEF After

LEMMA FillAfter ==
    ASSUME NEW s \in WState, Good(s)
    PROVE  /\ After(s, Fill(s))
           /\ Fill(s).stopping = s.stopping
           /\ Fill(s).snapshot.cancelled = s.snapshot.cancelled
<1>1. CASE ~s.snapshot.running
  BY <1>1 DEF Fill, After
<1>2. CASE s.snapshot.running
  <2>1. PICK f : f = Filled(s) OBVIOUS
  <2>2. /\ f \in WState /\ Good(f)
        /\ f.snapshot.run = s.snapshot.run /\ f.snapshot.running = s.snapshot.running
        /\ f.snapshot.cancelled = s.snapshot.cancelled
        /\ f.stopping = s.stopping /\ f.signals = s.signals
    BY <1>2, <2>1, FilledFacts
  <2>3. Fill(s) = IF AllDone(f) THEN FinishRun(f) ELSE f
    BY <1>2, <2>1, FillOfFilled
  <2>4. CASE AllDone(f)
    <3>1. f.active = {} BY <2>4 DEF AllDone
    <3>2. PICK t : t = FinishRun(f) OBVIOUS
    <3>3. /\ After(f, t) /\ t.stopping = f.stopping
          /\ t.snapshot.cancelled = f.snapshot.cancelled
      BY <2>2, <3>1, <3>2, FinishAfter
    <3>4. After(s, t) BY <2>2, <3>3, AfterTrans
    <3> QED BY <2>2, <2>3, <2>4, <3>2, <3>3, <3>4
  <2>5. CASE ~AllDone(f)
    <3>1. After(s, f) BY <2>2 DEF After
    <3> QED BY <2>2, <2>3, <2>5, <3>1
  <2> QED BY <2>4, <2>5
<1> QED BY <1>1, <1>2

\* consume() without what comes of the last request.
Taken(s, ids, cancelled) ==
    [s EXCEPT !.active = @ \ ids,
              !.snapshot.completed = @ + Cardinality(ids),
              !.snapshot.cancelled = @ + cancelled,
              !.records = @ \union ids,
              !.fills = @ + Cardinality(ids) - 1]

LEMMA TakenFacts ==
    ASSUME NEW s \in WState, Good(s),
           NEW ids \in SUBSET s.active, NEW n \in 0 .. Cardinality(ids)
    PROVE  LET t == Taken(s, ids, n)
           IN  /\ t \in WState /\ Good(t)
               /\ t.snapshot.run = s.snapshot.run
               /\ t.snapshot.running = s.snapshot.running
               /\ t.snapshot.cancelled = s.snapshot.cancelled + n
               /\ t.stopping = s.stopping /\ t.signals = s.signals
               /\ IsFiniteSet(ids)
<1> DEFINE t == Taken(s, ids, n)
<1>1. /\ s.snapshot.started \in Nat /\ s.snapshot.completed \in Nat
      /\ s.snapshot.cancelled \in Nat /\ s.snapshot \in Snapshot
      /\ s.active \in SUBSET Nat /\ s.records \in SUBSET Nat
      /\ s.fills \in Int /\ Concurrency \in Nat
  BY Limits DEF WState, Snapshot
<1>2. s.active \cap s.records = {} /\ s.active \union s.records = 1 .. s.snapshot.started
  BY DEF Good
<1>3. /\ IsFiniteSet(s.active) /\ IsFiniteSet(s.records)
      /\ Cardinality(s.active) \in Nat /\ Cardinality(s.records) \in Nat
  BY <1>1, <1>2, Sizes
<1>4. /\ IsFiniteSet(ids) /\ Cardinality(ids) \in Nat
      /\ Cardinality(s.active \ ids) <= Cardinality(s.active)
      /\ Cardinality(s.active \ ids) \in Nat
  <2>1. IsFiniteSet(ids) BY <1>3, FS_Subset
  <2>2. s.active \ ids \in SUBSET s.active OBVIOUS
  <2>3. IsFiniteSet(s.active \ ids) /\ Cardinality(s.active \ ids) <= Cardinality(s.active)
    BY <1>3, <2>2, FS_Subset
  <2> QED BY <2>1, <2>3, FS_CardinalityType
<1>5. Cardinality(s.records \union ids) = Cardinality(s.records) + Cardinality(ids)
  <2>1. s.records \cap ids = {} BY <1>2
  <2>2. Cardinality(s.records \cap ids) = 0 BY <2>1, FS_EmptySet
  <2>3. Cardinality(s.records \union ids)
          = Cardinality(s.records) + Cardinality(ids) - Cardinality(s.records \cap ids)
    BY <1>3, <1>4, FS_Union
  <2> QED BY <1>3, <1>4, <2>2, <2>3
<1>6. PICK k \in Nat : k = Cardinality(ids) BY <1>4
<1>7. t = [s EXCEPT !.active = @ \ ids, !.snapshot.completed = @ + k,
                    !.snapshot.cancelled = @ + n, !.records = @ \union ids,
                    !.fills = @ + k - 1]
  BY <1>6 DEF Taken
<1>8. /\ s.active \ ids \in SUBSET Nat /\ s.records \union ids \in SUBSET Nat
      /\ s.snapshot.completed + k \in Nat /\ s.snapshot.cancelled + n \in Nat
      /\ s.fills + k - 1 \in Int
  BY <1>1, <1>6
<1>9. /\ t \in WState
      /\ t.snapshot = [s.snapshot EXCEPT !.completed = @ + k, !.cancelled = @ + n]
      /\ t.active = s.active \ ids /\ t.records = s.records \union ids
      /\ t.stopping = s.stopping /\ t.signals = s.signals
  <2>1. PICK p : p = [s.snapshot EXCEPT !.completed = @ + k, !.cancelled = @ + n]
    OBVIOUS
  <2>2. p \in Snapshot BY <1>1, <1>8, <2>1 DEF Snapshot
  <2>3. PICK a \in SUBSET Nat, r \in SUBSET Nat, f \in Int :
           a = s.active \ ids /\ r = s.records \union ids /\ f = s.fills + k - 1
    BY <1>8
  <2>4. PICK u : u = [s EXCEPT !.active = a, !.snapshot = p, !.records = r, !.fills = f]
    OBVIOUS
  <2>5. /\ u \in WState /\ u.snapshot = p /\ u.active = a /\ u.records = r
        /\ u.fills = f /\ u.stopping = s.stopping /\ u.signals = s.signals
    BY <2>2, <2>4 DEF WState
  <2>6. t = u BY <1>7, <2>1, <2>3, <2>4 DEF WState, Snapshot
  <2> QED BY <2>1, <2>3, <2>5, <2>6
<1>10. /\ t.snapshot.run = s.snapshot.run /\ t.snapshot.running = s.snapshot.running
       /\ t.snapshot.started = s.snapshot.started
       /\ t.snapshot.completed = s.snapshot.completed + k
       /\ t.snapshot.cancelled = s.snapshot.cancelled + n
  BY <1>1, <1>9 DEF Snapshot
<1>11. t.active \cap t.records = {} /\ t.active \union t.records = 1 .. s.snapshot.started
  BY <1>2, <1>9
<1>12. t.snapshot.completed = Cardinality(t.records)
  BY <1>5, <1>6, <1>9, <1>10 DEF Good
<1>13. t.snapshot.cancelled <= t.snapshot.completed
  BY <1>1, <1>6, <1>10 DEF Good
<1>14. Cardinality(t.active) <= Concurrency
  BY <1>1, <1>3, <1>4, <1>9 DEF Good
<1>15. Good(t) BY <1>9, <1>10, <1>11, <1>12, <1>13, <1>14 DEF Good
<1> QED BY <1>4, <1>9, <1>10, <1>15

LEMMA ConsumeAfter ==
    ASSUME NEW s \in WState, Good(s), s.snapshot.running,
           NEW ids \in SUBSET s.active, NEW n \in 0 .. Cardinality(ids)
    PROVE  /\ After(s, Consume(s, ids, n))
           /\ Consume(s, ids, n).stopping = s.stopping
           /\ Consume(s, ids, n).snapshot.cancelled = s.snapshot.cancelled + n
<1>1. PICK t : t = Taken(s, ids, n) OBVIOUS
<1>2. /\ t \in WState /\ Good(t)
      /\ t.snapshot.run = s.snapshot.run
      /\ t.snapshot.running = s.snapshot.running
      /\ t.snapshot.cancelled = s.snapshot.cancelled + n
      /\ t.stopping = s.stopping /\ t.signals = s.signals
  BY <1>1, TakenFacts
<1>3. Consume(s, ids, n) = IF AllDone(t) THEN FinishRun(t) ELSE [t EXCEPT !.fills = @ + 1]
  BY <1>1 DEF Consume, Taken
<1>4. CASE AllDone(t)
  <2>1. t.active = {} BY <1>4 DEF AllDone
  <2>2. PICK u : u = FinishRun(t) OBVIOUS
  <2>3. /\ After(t, u) /\ u.stopping = t.stopping
        /\ u.snapshot.cancelled = t.snapshot.cancelled
    BY <1>2, <2>1, <2>2, FinishAfter
  <2>4. After(s, u) BY <1>2, <2>3, AfterTrans
  <2> QED BY <1>2, <1>3, <1>4, <2>2, <2>3, <2>4
<1>5. CASE ~AllDone(t)
  <2>1. PICK u : u = [t EXCEPT !.fills = @ + 1] OBVIOUS
  <2>2. /\ u \in WState /\ u.snapshot = t.snapshot /\ u.stopping = t.stopping
        /\ u.active = t.active /\ u.records = t.records /\ u.signals = t.signals
    <3>1. t.fills \in Int /\ t.fills + 1 \in Int BY <1>2 DEF WState
    <3>2. PICK n1 \in Int : n1 = t.fills + 1 BY <3>1
    <3>3. u = [t EXCEPT !.fills = n1] BY <2>1, <3>2
    <3> QED BY <1>2, <3>3 DEF WState
  <2>3. Good(u) BY <1>2, <2>2 DEF Good
  <2>4. After(s, u) BY <1>2, <2>2, <2>3 DEF After
  <2> QED BY <1>2, <1>3, <1>5, <2>1, <2>2, <2>4
<1> QED BY <1>4, <1>5

\* start(): the run that begins has requests in flight, and none of it cancelled.
LEMMA StartAfter ==
    ASSUME NEW s \in WState, Good(s), ~s.snapshot.running
    PROVE  LET t == StartRun(s)
           IN  /\ t \in WState /\ Good(t)
               /\ t.snapshot.run = s.snapshot.run + 1 /\ t.snapshot.running
               /\ t.snapshot.cancelled = 0
               /\ ~t.stopping /\ t.signals = s.signals
<1>1. PICK z : z = [s EXCEPT
            !.snapshot = [NoSnapshot EXCEPT !.run = s.snapshot.run + 1, !.running = TRUE],
            !.stopping = FALSE,
            !.records = {}]
  OBVIOUS
<1>2. StartRun(s) = Fill(z) BY <1>1 DEF StartRun
<1>3. PICK p : p = [NoSnapshot EXCEPT !.run = s.snapshot.run + 1, !.running = TRUE]
  OBVIOUS
<1>4. s.snapshot.run \in Nat BY DEF WState, Snapshot
<1>5. /\ p \in Snapshot /\ p.run = s.snapshot.run + 1 /\ p.running = TRUE
      /\ p.started = 0 /\ p.completed = 0 /\ p.cancelled = 0
  <2>1. PICK r \in Nat : r = s.snapshot.run + 1 BY <1>4
  <2>2. p = [run |-> r, running |-> TRUE, started |-> 0, completed |-> 0, cancelled |-> 0]
    BY <1>3, <2>1 DEF NoSnapshot
  <2> QED BY <2>1, <2>2 DEF Snapshot
<1>6. /\ z \in WState /\ z.snapshot = p /\ z.stopping = FALSE /\ z.records = {}
      /\ z.active = s.active /\ z.signals = s.signals
  BY <1>1, <1>3, <1>5 DEF WState
<1>7. z.active = {} BY <1>6 DEF Good
<1>8. Good(z)
  <2>1. Cardinality({}) = 0 BY FS_EmptySet
  <2>2. 1 .. 0 = {} OBVIOUS
  <2> QED BY <1>5, <1>6, <1>7, <2>1, <2>2, Limits DEF Good
<1>9. PICK f : f = Filled(z) OBVIOUS
<1>10. /\ f \in WState /\ Good(f)
       /\ f.snapshot.run = z.snapshot.run /\ f.snapshot.running
       /\ f.snapshot.cancelled = z.snapshot.cancelled
       /\ f.stopping = z.stopping /\ f.signals = z.signals
       /\ f.active # {}
  BY <1>5, <1>6, <1>7, <1>8, <1>9, FilledFacts
<1>11. Fill(z) = f
  BY <1>5, <1>6, <1>9, <1>10, FillOfFilled DEF AllDone
<1> QED BY <1>2, <1>5, <1>6, <1>10, <1>11

\* stop() and the destructor's: nothing, or the end of the run under way.
LEMMA StopsAfter ==
    ASSUME NEW s \in WState, Good(s), NEW t \in Stops(s)
    PROVE  /\ After(s, t)
           /\ ~s.snapshot.running => t = s
<1>1. CASE ~s.snapshot.running
  <2>1. t = s BY <1>1 DEF Stops
  <2> QED BY <2>1 DEF After
<1>2. CASE s.snapshot.running
  <2>1. PICK z : z = [s EXCEPT !.stopping = TRUE] OBVIOUS
  <2>2. /\ z \in WState /\ z.snapshot = s.snapshot /\ z.active = s.active
        /\ z.records = s.records /\ z.signals = s.signals
    BY <2>1 DEF WState
  <2>3. Good(z) BY <2>2 DEF Good
  <2>4. CASE s.active = {}
    <3>1. t = FinishRun(z) BY <1>2, <2>1, <2>4 DEF Stops
    <3>2. After(z, t) BY <2>2, <2>3, <2>4, <3>1, FinishAfter
    <3> QED BY <1>2, <2>2, <3>2, AfterTrans
  <2>5. CASE s.active # {}
    <3>1. PICK n \in 0 .. Cardinality(s.active) : t = Consume(z, s.active, n)
      BY <1>2, <2>1, <2>5 DEF Stops
    <3>2. After(z, t) BY <1>2, <2>2, <2>3, <3>1, ConsumeAfter
    <3> QED BY <1>2, <2>2, <3>2, AfterTrans
  <2> QED BY <2>4, <2>5
<1> QED BY <1>1, <1>2

----------------------------------------------------------------------------
(* The invariant *)

Call == {"start", "stop", "last"}
Request == [status : Nat, unread : Nat, received : Nat]

Counted(snap) == snap.completed <= snap.started /\ snap.cancelled <= snap.completed

WorkerGood ==
    /\ State \in WState /\ Good(State)
    /\ \A k \in 1 .. Len(signals) :
          /\ Counted(signals[k].snapshot)
          /\ signals[k].kind = "finished" => Complete(signals[k].snapshot, signals[k].csv)

StartQueued == \E k \in 1 .. Len(calls) : calls[k] = "start"

\* One start() at most is on its way, and then the worker is idle; otherwise the
\* worker is in the latest run, or done with it.
Protocol ==
    /\ calls \in Seq(Call) /\ running \in BOOLEAN /\ runs \in Nat
    /\ \A j, k \in 1 .. Len(calls) : calls[j] = "start" /\ calls[k] = "start" => j = k
    /\ StartQueued => running /\ ~snapshot.running /\ runs = snapshot.run + 1
    /\ ~StartQueued => runs = snapshot.run /\ (snapshot.running => running)

\* A stop() that no start() follows is one of the run under way, if there is one;
\* the window closes only after it has asked for one, and the last stop() of the
\* destructor comes after that.
StopsAsked ==
    /\ running => \A k \in 1 .. Len(calls) :
          (calls[k] # "start" /\ \A j \in 1 .. Len(calls) : calls[j] = "start" => j < k)
             => runs \in stopAsked
    /\ exit # "up" /\ running => runs \in stopAsked
    /\ \A k \in 1 .. Len(calls) : calls[k] = "last" => exit # "up"
    /\ stopping \/ snapshot.cancelled > 0 => snapshot.run \in stopAsked

\* What is on its way to a window that still hears: signals of the run under way,
\* with its end, if it has come, as the last one.
Heard ==
    Event =>
        /\ ~running \/ StartQueued => signals = <<>>
        /\ \A k \in 1 .. Len(signals) :
              /\ signals[k].snapshot.run = runs
              /\ signals[k].snapshot.running = (signals[k].kind # "finished")
              /\ signals[k].kind = "finished" => k = Len(signals) /\ ~snapshot.running

HttpGood ==
    /\ sent \in Nat /\ answered \in Nat
    /\ Busy => /\ http \in Request /\ http.received <= MaxResponse
               /\ http.status \in {0} \union Statuses
    /\ sent = answered + (IF Busy THEN 1 ELSE 0)

Buttons ==
    /\ shown \in Snapshot /\ Counted(shown)
    /\ Event => /\ sendHttp = ~Busy
                /\ profile = (~Busy /\ ~running /\ tcpIdle)
                /\ benchStart = ~running
                /\ benchExport => ~running /\ shown.run = runs /\ csv = 1 .. shown.completed

\* The load generator's share of the invariant, and all of it.
BInv == WorkerGood /\ Protocol /\ StopsAsked /\ Heard
IInv == BInv /\ HttpGood /\ Buttons

LEMMA CountedGood ==
    ASSUME NEW s \in WState, Good(s)
    PROVE  Counted(s.snapshot)
<1>1. s.snapshot.started \in Nat /\ s.snapshot.completed \in Nat BY DEF WState, Snapshot
<1>2. /\ Cardinality(s.active) \in Nat /\ Cardinality(s.records) \in Nat
      /\ Cardinality(s.active) + Cardinality(s.records) = s.snapshot.started
  BY <1>1, Sizes DEF Good
<1> QED BY <1>1, <1>2 DEF Good, Counted

LEMMA StateFields ==
    /\ State.snapshot = snapshot /\ State.stopping = stopping
    /\ State.active = active /\ State.records = records
    /\ State.fills = fills /\ State.signals = signals
BY DEF State

LEMMA BecomesState ==
    ASSUME NEW t \in WState, Becomes(t)
    PROVE  State' = t
<1>1. t = [snapshot |-> t.snapshot, stopping |-> t.stopping, active |-> t.active,
           records |-> t.records, fills |-> t.fills, signals |-> t.signals]
  BY DEF WState
<1> QED BY <1>1 DEF Becomes, State

\* One more signal, or one less.
LEMMA SignalAppended ==
    ASSUME NEW S, NEW q \in Seq(S), NEW e \in S
    PROVE  /\ Append(q, e) \in Seq(S)
           /\ Len(q) \in Nat /\ Len(Append(q, e)) = Len(q) + 1
           /\ Append(q, e)[Len(q) + 1] = e
           /\ \A k \in 1 .. Len(q) : Append(q, e)[k] = q[k] /\ q[k] \in S
           /\ Append(q, e) # <<>>
BY AppendProperties, LenProperties, ElementOfSeq

LEMMA FirstRemoved ==
    ASSUME NEW S, NEW q \in Seq(S), q # <<>>
    PROVE  /\ Tail(q) \in Seq(S)
           /\ Len(q) \in Nat \ {0} /\ Len(Tail(q)) = Len(q) - 1
           /\ Head(q) = q[1] /\ q[1] \in S
           /\ \A k \in 1 .. Len(Tail(q)) : Tail(q)[k] = q[k + 1] /\ k + 1 \in 1 .. Len(q)
           /\ Len(q) = 1 => Tail(q) = <<>>
<1>1. Len(q) \in Nat \ {0} BY LenProperties, EmptySeq
<1>2. Tail(q) \in Seq(S) /\ Len(Tail(q)) = Len(q) - 1 BY HeadTailProperties
<1>3. \A k \in 1 .. Len(Tail(q)) : Tail(q)[k] = q[k + 1] /\ k + 1 \in 1 .. Len(q)
  BY <1>1, <1>2, HeadTailProperties
<1>4. Head(q) = q[1] /\ q[1] \in S BY <1>1, HeadTailProperties, ElementOfSeq
<1>5. ASSUME Len(q) = 1 PROVE Tail(q) = <<>>
  <2>1. Len(Tail(q)) = 0 BY <1>2, <1>5
  <2> QED BY <1>2, <2>1, EmptySeq
<1> QED BY <1>1, <1>2, <1>3, <1>4, <1>5

----------------------------------------------------------------------------
(* The steps of the worker *)

LEMMA WorkerGoodKept ==
    ASSUME WorkerGood, NEW t, After(State, t), Becomes(t)
    PROVE  WorkerGood'
<1>1. t \in WState /\ Good(t) BY DEF After
<1>2. State' = t BY <1>1, BecomesState
<1>3. signals' = t.signals /\ signals \in Seq(SignalSet)
  BY StateFields DEF Becomes, WorkerGood, WState
<1>4. CASE signals' = signals
  BY <1>1, <1>2, <1>4 DEF WorkerGood
<1>5. CASE /\ signals' = Append(signals, Signal("finished", t))
           /\ Complete(t.snapshot, t.records)
  <2>1. PICK e : e = Signal("finished", t) OBVIOUS
  <2>2. /\ e.kind = "finished" /\ e.snapshot = t.snapshot /\ e.csv = t.records
        /\ e \in SignalSet
    BY <1>1, <2>1 DEF Signal, SignalSet, WState
  <2>3. PICK q \in Seq(SignalSet) : q = signals BY <1>3
  <2>4. /\ Len(q) \in Nat /\ Len(Append(q, e)) = Len(q) + 1
        /\ Append(q, e)[Len(q) + 1] = e
        /\ \A k \in 1 .. Len(q) : Append(q, e)[k] = q[k]
    BY <2>2, SignalAppended
  <2>5. Counted(e.snapshot) BY <1>1, <2>2, CountedGood
  <2>6. \A k \in 1 .. Len(signals') : k \in 1 .. Len(q) \/ k = Len(q) + 1
    BY <1>5, <2>1, <2>3, <2>4
  <2>7. \A k \in 1 .. Len(q) : /\ Counted(q[k].snapshot)
                               /\ q[k].kind = "finished" => Complete(q[k].snapshot, q[k].csv)
    BY <2>3 DEF WorkerGood
  <2>8. \A k \in 1 .. Len(signals') :
           /\ Counted(signals'[k].snapshot)
           /\ signals'[k].kind = "finished" => Complete(signals'[k].snapshot, signals'[k].csv)
    BY <1>5, <2>1, <2>2, <2>3, <2>4, <2>5, <2>6, <2>7
  <2> QED BY <1>1, <1>2, <2>8 DEF WorkerGood
<1> QED BY <1>3, <1>4, <1>5, StateFields DEF After

\* The worker ends no run but the one the window waits for.
LEMMA HeardKept ==
    ASSUME WorkerGood, Protocol, Heard, NEW t, After(State, t), Becomes(t),
           UNCHANGED runner, Event' => Event, StartQueued' => StartQueued
    PROVE  Heard'
<1> SUFFICES ASSUME Event' PROVE Heard'
  BY DEF Heard
<1>1. Event /\ running' = running /\ runs' = runs BY DEF runner
<1>2. /\ t \in WState /\ t.snapshot.run = snapshot.run
      /\ signals' = t.signals /\ snapshot' = t.snapshot
  BY StateFields DEF After, Becomes
<1>3. signals \in Seq(SignalSet) /\ snapshot \in Snapshot
  BY StateFields DEF WorkerGood, WState
<1>4. CASE t.signals = signals /\ t.snapshot.running = snapshot.running
  BY <1>1, <1>2, <1>4 DEF Heard
<1>5. CASE /\ snapshot.running /\ ~t.snapshot.running
           /\ t.signals = Append(signals, Signal("finished", t))
  <2>1. PICK e : e = Signal("finished", t) OBVIOUS
  <2>2. /\ e.kind = "finished" /\ e.snapshot = t.snapshot /\ e \in SignalSet
    BY <1>2, <2>1 DEF Signal, SignalSet, WState
  <2>3. PICK q \in Seq(SignalSet) : q = signals BY <1>3
  <2>4. /\ Len(q) \in Nat /\ Len(Append(q, e)) = Len(q) + 1
        /\ Append(q, e)[Len(q) + 1] = e
        /\ \A k \in 1 .. Len(q) : Append(q, e)[k] = q[k]
    BY <2>2, SignalAppended
  <2>5. running /\ ~StartQueued /\ runs = snapshot.run BY <1>5 DEF Protocol
  <2>6. \A k \in 1 .. Len(q) : /\ q[k].snapshot.run = runs
                               /\ q[k].snapshot.running = (q[k].kind # "finished")
                               /\ q[k].kind # "finished"
    BY <1>1, <1>5, <2>3 DEF Heard
  <2>7. e.snapshot.run = runs /\ e.snapshot.running = (e.kind # "finished")
    <3>1. t.snapshot.running \in BOOLEAN BY <1>2 DEF WState, Snapshot
    <3> QED BY <1>2, <1>5, <2>2, <2>5, <3>1
  <2>8. \A k \in 1 .. Len(signals') : k \in 1 .. Len(q) \/ k = Len(q) + 1
    BY <1>2, <1>5, <2>1, <2>3, <2>4
  <2>9. signals' = Append(q, e) /\ Len(signals') = Len(q) + 1
    BY <1>2, <1>5, <2>1, <2>3, <2>4
  <2>10. ASSUME NEW k \in 1 .. Len(signals')
         PROVE  /\ signals'[k].snapshot.run = runs
                /\ signals'[k].snapshot.running = (signals'[k].kind # "finished")
                /\ signals'[k].kind = "finished" => k = Len(signals')
    <3>1. CASE k \in 1 .. Len(q) BY <2>4, <2>6, <2>9, <3>1
    <3>2. CASE k = Len(q) + 1 BY <2>4, <2>7, <2>9, <3>2
    <3> QED BY <2>8, <3>1, <3>2
  <2> QED BY <1>1, <1>2, <1>5, <2>5, <2>10 DEF Heard
<1> QED BY <1>4, <1>5, StateFields DEF After

\* The end of the program goes forward, and past the window's only when the run
\* has been asked to stop.
ExitKept ==
    /\ Event' => Event
    /\ exit' = "up" => exit = "up"
    /\ exit' # "up" => exit # "up" \/ ~running \/ runs \in stopAsked

\* fill() by its timer, and the end of a request.
LEMMA MovesInv ==
    ASSUME BInv, ExitKept, NEW t, After(State, t), Becomes(t),
           UNCHANGED <<calls, runner>>,
           t.stopping = stopping /\ t.snapshot.cancelled = snapshot.cancelled
    PROVE  BInv'
<1>1. WorkerGood' BY WorkerGoodKept DEF BInv
<1>2. StartQueued' = StartQueued BY DEF StartQueued
<1>3. UNCHANGED runner OBVIOUS
<1>4. Heard' BY <1>2, <1>3, HeardKept DEF BInv, ExitKept
<1>5. /\ snapshot'.run = snapshot.run /\ (snapshot'.running => snapshot.running)
      /\ stopping' = stopping /\ snapshot'.cancelled = snapshot.cancelled
  BY StateFields DEF After, Becomes
<1>6. UNCHANGED <<calls, running, runs, stopAsked>> BY DEF runner
<1>7. Protocol' BY <1>2, <1>5, <1>6 DEF BInv, Protocol
<1>8. StopsAsked' BY <1>5, <1>6 DEF BInv, StopsAsked, ExitKept
<1> QED BY <1>1, <1>4, <1>7, <1>8 DEF BInv

LEMMA UpdatesInv ==
    ASSUME BInv, ExitKept, WorkerUpdates
    PROVE  BInv'
<1>1. /\ snapshot.running
      /\ signals' = Append(signals, Signal("updated", State))
      /\ UNCHANGED <<snapshot, stopping, active, records, fills, calls,
                     running, csv, runs, stopAsked>>
  BY DEF WorkerUpdates, worker, runner
<1>2. PICK e : e = Signal("updated", State) OBVIOUS
<1>3. /\ signals \in Seq(SignalSet) /\ snapshot \in Snapshot /\ records \in SUBSET Nat
      /\ State \in WState /\ Good(State)
  BY StateFields DEF BInv, WorkerGood, WState
<1>4. e.kind = "updated" /\ e.snapshot = snapshot /\ e \in SignalSet
  BY <1>2, <1>3, StateFields DEF Signal, SignalSet
<1>5. PICK q \in Seq(SignalSet) : q = signals BY <1>3
<1>6. /\ Append(q, e) \in Seq(SignalSet)
      /\ Len(q) \in Nat /\ Len(Append(q, e)) = Len(q) + 1
      /\ Append(q, e)[Len(q) + 1] = e
      /\ \A k \in 1 .. Len(q) : Append(q, e)[k] = q[k]
  BY <1>4, SignalAppended
<1>7. signals' = Append(q, e) BY <1>1, <1>2, <1>5
<1>8. \A k \in 1 .. Len(signals') : k \in 1 .. Len(q) \/ k = Len(q) + 1
  BY <1>6, <1>7
<1>9. WorkerGood'
  <2>1. PICK t : t = [State EXCEPT !.signals = Append(q, e)] OBVIOUS
  <2>2. /\ t \in WState /\ t.snapshot = State.snapshot /\ t.stopping = State.stopping
        /\ t.active = State.active /\ t.records = State.records
        /\ t.fills = State.fills /\ t.signals = Append(q, e)
    BY <1>3, <1>6, <2>1 DEF WState
  <2>3. Becomes(t) BY <1>1, <1>7, <2>2, StateFields DEF Becomes
  <2>4. State' = t BY <2>2, <2>3, BecomesState
  <2>5. Good(t) BY <1>3, <2>2 DEF Good
  <2>6. Counted(e.snapshot) BY <1>3, <1>4, CountedGood, StateFields
  <2>7. \A k \in 1 .. Len(q) : /\ Counted(q[k].snapshot)
                               /\ q[k].kind = "finished" => Complete(q[k].snapshot, q[k].csv)
    BY <1>5 DEF BInv, WorkerGood
  <2>8. ASSUME NEW k \in 1 .. Len(signals')
        PROVE  /\ Counted(signals'[k].snapshot)
               /\ signals'[k].kind = "finished"
                    => Complete(signals'[k].snapshot, signals'[k].csv)
    <3>1. CASE k \in 1 .. Len(q) BY <1>6, <1>7, <2>7, <3>1
    <3>2. CASE k = Len(q) + 1 BY <1>4, <1>6, <1>7, <2>6, <3>2
    <3> QED BY <1>8, <3>1, <3>2
  <2> QED BY <2>2, <2>4, <2>5, <2>8 DEF WorkerGood
<1>10. StartQueued' = StartQueued BY <1>1 DEF StartQueued
<1>11. Protocol' BY <1>1, <1>10 DEF BInv, Protocol
<1>12. StopsAsked' BY <1>1 DEF BInv, StopsAsked, ExitKept
<1>13. Heard'
  <2> SUFFICES ASSUME Event' PROVE Heard'
    BY DEF Heard
  <2>1. Event BY DEF ExitKept
  <2>2. running /\ ~StartQueued /\ runs = snapshot.run BY <1>1 DEF BInv, Protocol
  <2>3. \A k \in 1 .. Len(q) : /\ q[k].snapshot.run = runs
                               /\ q[k].snapshot.running = (q[k].kind # "finished")
                               /\ q[k].kind # "finished"
    BY <1>1, <1>5, <2>1 DEF BInv, Heard
  <2>4. e.snapshot.run = runs /\ e.snapshot.running = (e.kind # "finished")
    <3>1. snapshot.running \in BOOLEAN BY <1>3 DEF Snapshot
    <3> QED BY <1>1, <1>4, <2>2, <3>1
  <2>5. ASSUME NEW k \in 1 .. Len(signals')
        PROVE  /\ signals'[k].snapshot.run = runs
               /\ signals'[k].snapshot.running = (signals'[k].kind # "finished")
               /\ signals'[k].kind # "finished"
    <3>1. CASE k \in 1 .. Len(q) BY <1>6, <1>7, <2>3, <3>1
    <3>2. CASE k = Len(q) + 1 BY <1>4, <1>6, <1>7, <2>4, <3>2
    <3> QED BY <1>8, <3>1, <3>2
  <2> QED BY <1>1, <1>10, <2>2, <2>5 DEF Heard
<1> QED BY <1>9, <1>11, <1>12, <1>13 DEF BInv

\* The calls that are left when the worker takes the first one.
LEMMA CallTaken ==
    ASSUME Protocol, calls # <<>>, calls' = Tail(calls)
    PROVE  /\ calls' \in Seq(Call) /\ Len(calls') = Len(calls) - 1
           /\ Len(calls) \in Nat \ {0}
           /\ Head(calls) = calls[1] /\ calls[1] \in Call
           /\ \A k \in 1 .. Len(calls') : calls'[k] = calls[k + 1] /\ k + 1 \in 1 .. Len(calls)
           /\ \A k \in 1 .. Len(calls) : k = 1 \/ (k - 1 \in 1 .. Len(calls') /\ calls'[k - 1] = calls[k])
<1>1. PICK q \in Seq(Call) : q = calls BY DEF Protocol
<1>2. /\ Tail(q) \in Seq(Call)
      /\ Len(q) \in Nat \ {0} /\ Len(Tail(q)) = Len(q) - 1
      /\ Head(q) = q[1] /\ q[1] \in Call
      /\ \A k \in 1 .. Len(Tail(q)) : Tail(q)[k] = q[k + 1] /\ k + 1 \in 1 .. Len(q)
  BY <1>1, FirstRemoved
<1>3. calls' = Tail(q) BY <1>1
<1>4. \A k \in 1 .. Len(q) : k = 1 \/ (k - 1 \in 1 .. Len(Tail(q)) /\ Tail(q)[k - 1] = q[k])
  <2> TAKE k \in 1 .. Len(q)
  <2>1. k = 1 \/ k - 1 \in 1 .. Len(Tail(q)) BY <1>2
  <2>2. (k - 1) + 1 = k BY <1>2
  <2> QED BY <1>2, <2>1, <2>2
<1> QED BY <1>1, <1>2, <1>3, <1>4

LEMMA CallStartInv ==
    ASSUME BInv, ExitKept, WorkerCall, Head(calls) = "start"
    PROVE  BInv'
<1>1. calls # <<>> /\ calls' = Tail(calls) /\ Becomes(StartRun(State))
  BY DEF WorkerCall
<1>2. UNCHANGED <<running, csv, runs, stopAsked>> BY DEF WorkerCall, runner
<1>3. /\ calls' \in Seq(Call) /\ Len(calls') = Len(calls) - 1
      /\ Len(calls) \in Nat \ {0} /\ calls[1] = "start"
      /\ \A k \in 1 .. Len(calls') : calls'[k] = calls[k + 1] /\ k + 1 \in 1 .. Len(calls)
  BY <1>1, CallTaken DEF BInv
<1>4. StartQueued /\ ~StartQueued'
  <2>1. StartQueued BY <1>3 DEF StartQueued
  <2>2. \A k \in 1 .. Len(calls') : calls'[k] # "start"
    <3> TAKE k \in 1 .. Len(calls')
    <3>1. k + 1 # 1 /\ 1 \in 1 .. Len(calls) BY <1>3
    <3> QED BY <1>3, <3>1 DEF BInv, Protocol
  <2> QED BY <2>1, <2>2 DEF StartQueued
<1>5. running /\ ~snapshot.running /\ runs = snapshot.run + 1
  BY <1>4 DEF BInv, Protocol
<1>6. PICK t : t = StartRun(State) OBVIOUS
<1>7. PICK s : s = State OBVIOUS
<1>8. s \in WState /\ Good(s) /\ ~s.snapshot.running
  BY <1>5, <1>7, StateFields DEF BInv, WorkerGood
<1>9. /\ t \in WState /\ Good(t)
      /\ t.snapshot.run = s.snapshot.run + 1 /\ t.snapshot.running
      /\ t.snapshot.cancelled = 0
      /\ ~t.stopping /\ t.signals = s.signals
  BY <1>6, <1>7, <1>8, StartAfter
<1>10. /\ snapshot' = t.snapshot /\ stopping' = t.stopping /\ signals' = signals
       /\ State' = t
  BY <1>1, <1>6, <1>7, <1>9, BecomesState, StateFields DEF Becomes
<1>11. snapshot'.run = runs BY <1>5, <1>7, <1>9, <1>10, StateFields
<1>12. WorkerGood' BY <1>9, <1>10 DEF BInv, WorkerGood
<1>13. Protocol'
  BY <1>2, <1>3, <1>4, <1>5, <1>11 DEF BInv, Protocol, StartQueued
<1>14. StopsAsked'
  <2>1. \A k \in 1 .. Len(calls') : runs \in stopAsked
    <3> TAKE k \in 1 .. Len(calls')
    <3>1. k + 1 \in 1 .. Len(calls) /\ 1 \in 1 .. Len(calls) /\ 1 < k + 1 BY <1>3
    <3>2. \A j \in 1 .. Len(calls) : calls[j] = "start" => j = 1
      BY <1>3, <3>1 DEF BInv, Protocol
    <3>3. calls[k + 1] # "start" BY <3>1, <3>2
    <3> QED BY <1>5, <3>1, <3>2, <3>3 DEF BInv, StopsAsked
  <2>2. ~(stopping' \/ snapshot'.cancelled > 0) BY <1>9, <1>10
  <2>3. \A k \in 1 .. Len(calls') : calls'[k] = "last" => exit' # "up"
    BY <1>3 DEF BInv, StopsAsked, ExitKept
  <2> QED BY <1>2, <2>1, <2>2, <2>3 DEF BInv, StopsAsked, ExitKept
<1>15. Heard'
  BY <1>2, <1>4, <1>10 DEF BInv, Heard, ExitKept
<1> QED BY <1>12, <1>13, <1>14, <1>15 DEF BInv

LEMMA CallStopInv ==
    ASSUME BInv, ExitKept, WorkerCall, Head(calls) # "start"
    PROVE  BInv'
<1>1. calls # <<>> /\ calls' = Tail(calls) /\ \E t \in Stops(State) : Becomes(t)
  BY DEF WorkerCall
<1>2. UNCHANGED <<running, csv, runs, stopAsked>> /\ UNCHANGED runner
  BY DEF WorkerCall, runner
<1>3. /\ calls' \in Seq(Call) /\ Len(calls') = Len(calls) - 1
      /\ Len(calls) \in Nat \ {0} /\ calls[1] # "start"
      /\ \A k \in 1 .. Len(calls') : calls'[k] = calls[k + 1] /\ k + 1 \in 1 .. Len(calls)
      /\ \A k \in 1 .. Len(calls) :
            k = 1 \/ (k - 1 \in 1 .. Len(calls') /\ calls'[k - 1] = calls[k])
  BY <1>1, CallTaken DEF BInv
<1>4. StartQueued' = StartQueued
  <2>1. StartQueued' => StartQueued BY <1>3 DEF StartQueued
  <2>2. StartQueued => StartQueued' BY <1>3 DEF StartQueued
  <2> QED BY <2>1, <2>2 DEF StartQueued
<1>5. PICK s : s = State OBVIOUS
<1>6. s \in WState /\ Good(s) /\ s.snapshot = snapshot
  BY <1>5, StateFields DEF BInv, WorkerGood
<1>7. PICK t \in Stops(s) : Becomes(t) BY <1>1, <1>5
<1>8. After(s, t) /\ (~s.snapshot.running => t = s) BY <1>6, <1>7, StopsAfter
<1>9. After(State, t) BY <1>5, <1>8
<1>10. WorkerGood' BY <1>7, <1>9, WorkerGoodKept DEF BInv
<1>11. Heard' BY <1>2, <1>4, <1>7, <1>9, HeardKept DEF BInv, ExitKept
<1>12. snapshot' = t.snapshot /\ stopping' = t.stopping /\ t.snapshot.run = snapshot.run
       /\ (t.snapshot.running => snapshot.running)
  BY <1>6, <1>7, <1>8 DEF After, Becomes
<1>13. Protocol'
  <2>1. \A j, k \in 1 .. Len(calls') : calls'[j] = "start" /\ calls'[k] = "start" => j = k
    <3> TAKE j, k \in 1 .. Len(calls')
    <3>1. calls[j + 1] = "start" /\ calls[k + 1] = "start" => j + 1 = k + 1
      BY <1>3 DEF BInv, Protocol
    <3> QED BY <1>3, <3>1
  <2> QED BY <1>2, <1>3, <1>4, <1>12, <2>1 DEF BInv, Protocol
<1>14. StopsAsked'
  <2>1. running => \A k \in 1 .. Len(calls') :
          (calls'[k] # "start" /\ \A j \in 1 .. Len(calls') : calls'[j] = "start" => j < k)
             => runs \in stopAsked
    <3> SUFFICES ASSUME running, NEW k \in 1 .. Len(calls'), calls'[k] # "start",
                        \A j \in 1 .. Len(calls') : calls'[j] = "start" => j < k
                 PROVE  runs \in stopAsked
      OBVIOUS
    <3>1. k + 1 \in 1 .. Len(calls) /\ calls[k + 1] # "start" BY <1>3
    <3>2. ASSUME NEW j \in 1 .. Len(calls), calls[j] = "start" PROVE j < k + 1
      <4>1. j # 1 /\ j - 1 \in 1 .. Len(calls') /\ calls'[j - 1] = "start" BY <1>3, <3>2
      <4>2. j - 1 < k BY <4>1
      <4> QED BY <1>3, <4>2
    <3> QED BY <3>1, <3>2 DEF BInv, StopsAsked
  <2>2. stopping' \/ snapshot'.cancelled > 0 => snapshot'.run \in stopAsked
    <3>1. CASE ~snapshot.running
      <4>1. t = s BY <1>6, <1>8, <3>1
      <4>2. stopping' = stopping /\ snapshot' = snapshot
        BY <1>5, <1>12, <4>1, StateFields
      <4> QED BY <4>2 DEF BInv, StopsAsked
    <3>2. CASE snapshot.running
      <4>1. running /\ ~StartQueued /\ runs = snapshot.run BY <3>2 DEF BInv, Protocol
      <4>2. 1 \in 1 .. Len(calls) BY <1>3
      <4>3. \A j \in 1 .. Len(calls) : calls[j] # "start" BY <4>1 DEF StartQueued
      <4>4. runs \in stopAsked BY <1>3, <4>1, <4>2, <4>3 DEF BInv, StopsAsked
      <4> QED BY <1>12, <4>1, <4>4
    <3> QED BY <3>1, <3>2
  <2>3. \A k \in 1 .. Len(calls') : calls'[k] = "last" => exit' # "up"
    BY <1>3 DEF BInv, StopsAsked, ExitKept
  <2> QED BY <1>2, <2>1, <2>2, <2>3 DEF BInv, StopsAsked, ExitKept
<1> QED BY <1>10, <1>11, <1>13, <1>14 DEF BInv

----------------------------------------------------------------------------
(* The steps of the runner *)

LEMMA WorkerUntouched ==
    ASSUME WorkerGood, UNCHANGED <<worker, signals>>
    PROVE  WorkerGood' /\ UNCHANGED <<snapshot, stopping>>
<1>1. UNCHANGED <<snapshot, stopping, active, records, fills, signals>>
  BY DEF worker
<1>2. State' = State BY <1>1 DEF State
<1> QED BY <1>1, <1>2 DEF WorkerGood

\* One more call behind those on their way.
LEMMA CallAdded ==
    ASSUME Protocol, NEW c \in Call, calls' = Append(calls, c)
    PROVE  /\ calls' \in Seq(Call)
           /\ Len(calls) \in Nat /\ Len(calls') = Len(calls) + 1
           /\ calls'[Len(calls) + 1] = c
           /\ \A k \in 1 .. Len(calls) : calls'[k] = calls[k]
           /\ \A k \in 1 .. Len(calls') : k \in 1 .. Len(calls) \/ k = Len(calls) + 1
<1>1. PICK q \in Seq(Call) : q = calls BY DEF Protocol
<1>2. /\ Append(q, c) \in Seq(Call)
      /\ Len(q) \in Nat /\ Len(Append(q, c)) = Len(q) + 1
      /\ Append(q, c)[Len(q) + 1] = c
      /\ \A k \in 1 .. Len(q) : Append(q, c)[k] = q[k]
  BY SignalAppended
<1>3. calls' = Append(q, c) BY <1>1
<1> QED BY <1>1, <1>2, <1>3

LEMMA StartInv ==
    ASSUME BInv, Start, exit' = "up", exit = "up"
    PROVE  BInv'
<1>1. /\ ~running /\ running' = TRUE /\ runs' = runs + 1
      /\ calls' = Append(calls, "start")
      /\ UNCHANGED <<stopAsked, signals>> /\ UNCHANGED <<worker, signals>>
  BY DEF Start
<1>2. WorkerGood' /\ UNCHANGED <<snapshot, stopping>>
  BY <1>1, WorkerUntouched DEF BInv
<1>3. /\ calls' \in Seq(Call)
      /\ Len(calls) \in Nat /\ Len(calls') = Len(calls) + 1
      /\ calls'[Len(calls) + 1] = "start"
      /\ \A k \in 1 .. Len(calls) : calls'[k] = calls[k]
      /\ \A k \in 1 .. Len(calls') : k \in 1 .. Len(calls) \/ k = Len(calls) + 1
  BY <1>1, CallAdded DEF BInv, Call
<1>4. ~StartQueued /\ ~snapshot.running /\ runs = snapshot.run /\ runs \in Nat
  BY <1>1 DEF BInv, Protocol
<1>5. \A k \in 1 .. Len(calls) : calls[k] # "start" BY <1>4 DEF StartQueued
<1>6. StartQueued' /\ Len(calls) + 1 \in 1 .. Len(calls')
  BY <1>3 DEF StartQueued
<1>7. Protocol'
  <2>1. \A k \in 1 .. Len(calls') : calls'[k] = "start" => k = Len(calls) + 1
    BY <1>3, <1>5
  <2> QED BY <1>1, <1>2, <1>3, <1>4, <1>6, <2>1 DEF Protocol
<1>8. StopsAsked'
  <2>1. ASSUME NEW k \in 1 .. Len(calls'), calls'[k] # "start"
        PROVE  ~(\A j \in 1 .. Len(calls') : calls'[j] = "start" => j < k)
    <3>1. k \in 1 .. Len(calls) BY <1>3, <2>1
    <3>2. ~(Len(calls) + 1 < k) BY <1>3, <3>1
    <3> QED BY <1>3, <1>6, <3>2
  <2>2. \A k \in 1 .. Len(calls') : calls'[k] # "last"
    BY <1>3 DEF BInv, StopsAsked
  <2> QED BY <1>1, <1>2, <2>1, <2>2 DEF BInv, StopsAsked
<1>9. Heard'
  <2>1. signals = <<>> BY <1>1 DEF BInv, Heard, Event
  <2> QED BY <1>1, <2>1 DEF Heard
<1> QED BY <1>2, <1>7, <1>8, <1>9 DEF BInv

\* A stop() from the window, or the last one of the destructor, behind which
\* nothing is heard.
LEMMA StopCallInv ==
    ASSUME BInv, NEW c \in {"stop", "last"}, calls' = Append(calls, c),
           UNCHANGED <<worker, running, csv, runs>>,
           stopAsked \subseteq stopAsked',
           running => runs \in stopAsked',
           Event' => Event /\ signals' = signals,
           exit' = "up" => exit = "up" /\ c = "stop",
           signals' \in {signals, <<>>}
    PROVE  BInv'
<1>1. UNCHANGED <<snapshot, stopping, active, records, fills>> BY DEF worker
<1>2. WorkerGood'
  <2>1. CASE signals' = signals
    BY <2>1, WorkerUntouched DEF BInv
  <2>2. CASE signals' = <<>>
    <3>1. PICK t : t = [State EXCEPT !.signals = <<>>] OBVIOUS
    <3>2. <<>> \in Seq(SignalSet) OBVIOUS
    <3>3. /\ t \in WState /\ t.snapshot = State.snapshot /\ t.stopping = State.stopping
          /\ t.active = State.active /\ t.records = State.records
          /\ t.fills = State.fills /\ t.signals = <<>>
      BY <3>1, <3>2 DEF BInv, WorkerGood, WState
    <3>4. Becomes(t) BY <1>1, <2>2, <3>3, StateFields DEF Becomes
    <3>5. State' = t BY <3>3, <3>4, BecomesState
    <3>6. Good(t) BY <3>3 DEF BInv, WorkerGood, Good
    <3>7. Len(<<>>) = 0 BY EmptySeq
    <3> QED BY <2>2, <3>3, <3>5, <3>6, <3>7 DEF WorkerGood
  <2> QED BY <2>1, <2>2
<1>3. /\ calls' \in Seq(Call)
      /\ Len(calls) \in Nat /\ Len(calls') = Len(calls) + 1
      /\ calls'[Len(calls) + 1] = c
      /\ \A k \in 1 .. Len(calls) : calls'[k] = calls[k]
      /\ \A k \in 1 .. Len(calls') : k \in 1 .. Len(calls) \/ k = Len(calls) + 1
  BY CallAdded DEF BInv, Call
<1>4. c # "start" OBVIOUS
<1>5. \A k \in 1 .. Len(calls') : calls'[k] = "start" => k \in 1 .. Len(calls) /\ calls[k] = "start"
  BY <1>3, <1>4
<1>6. StartQueued' = StartQueued
  <2>1. StartQueued' => StartQueued BY <1>5 DEF StartQueued
  <2>2. StartQueued => StartQueued' BY <1>3 DEF StartQueued
  <2> QED BY <2>1, <2>2 DEF StartQueued
<1>7. Protocol'
  <2>1. \A j, k \in 1 .. Len(calls') : calls'[j] = "start" /\ calls'[k] = "start" => j = k
    BY <1>5 DEF BInv, Protocol
  <2> QED BY <1>1, <1>3, <1>6, <2>1 DEF BInv, Protocol
<1>8. StopsAsked'
  <2>1. \A k \in 1 .. Len(calls') : calls'[k] = "last" => exit' # "up"
    <3> TAKE k \in 1 .. Len(calls')
    <3>1. CASE k \in 1 .. Len(calls) BY <1>3, <3>1 DEF BInv, StopsAsked
    <3>2. CASE k = Len(calls) + 1 BY <1>3, <3>2
    <3> QED BY <1>3, <3>1, <3>2
  <2> QED BY <1>1, <2>1 DEF BInv, StopsAsked
<1>9. Heard' BY <1>1, <1>6 DEF BInv, Heard
<1> QED BY <1>2, <1>7, <1>8, <1>9 DEF BInv

\* What the window learns from a signal that reaches it.
LEMMA SignalFacts ==
    ASSUME BInv, Event, signals # <<>>
    PROVE  LET e == Head(signals)
           IN  /\ e \in SignalSet /\ Counted(e.snapshot)
               /\ running /\ ~StartQueued /\ e.snapshot.run = runs
               /\ e.snapshot.running = (e.kind # "finished")
               /\ e.kind = "finished" =>
                     /\ e.csv = 1 .. e.snapshot.completed
                     /\ ~snapshot.running /\ Tail(signals) = <<>>
<1>1. signals \in Seq(SignalSet) BY StateFields DEF BInv, WorkerGood, WState
<1>2. PICK q \in Seq(SignalSet) : q = signals BY <1>1
<1>3. Len(q) \in Nat \ {0} /\ Head(q) = q[1] /\ q[1] \in SignalSet
      /\ (Len(q) = 1 => Tail(q) = <<>>)
  BY <1>2, FirstRemoved
<1>4. 1 \in 1 .. Len(q) BY <1>3
<1>5. running /\ ~StartQueued BY DEF BInv, Heard
<1>6. /\ q[1].snapshot.run = runs
      /\ q[1].snapshot.running = (q[1].kind # "finished")
      /\ q[1].kind = "finished" => 1 = Len(q) /\ ~snapshot.running
  BY <1>2, <1>4 DEF BInv, Heard
<1>7. /\ Counted(q[1].snapshot)
      /\ q[1].kind = "finished" => Complete(q[1].snapshot, q[1].csv)
  BY <1>2, <1>4 DEF BInv, WorkerGood
<1> QED BY <1>2, <1>3, <1>5, <1>6, <1>7 DEF Complete

LEMMA RunnerSignalInv ==
    ASSUME BInv, Event, RunnerSignal, UNCHANGED exit
    PROVE  BInv'
<1>1. /\ signals # <<>> /\ signals' = Tail(signals)
      /\ UNCHANGED <<snapshot, stopping, active, records, fills, calls, runs, stopAsked>>
      /\ IF Head(signals).kind = "finished"
         THEN running' = FALSE /\ csv' = Head(signals).csv
         ELSE UNCHANGED <<running, csv>>
  BY DEF RunnerSignal, worker
<1>2. /\ running /\ ~StartQueued
      /\ Head(signals).kind = "finished" => ~snapshot.running /\ Tail(signals) = <<>>
  BY <1>1, SignalFacts
<1>3. State \in WState /\ Good(State) /\ signals \in Seq(SignalSet)
  BY StateFields DEF BInv, WorkerGood, WState
<1>4. PICK q \in Seq(SignalSet) : q = signals BY <1>3
<1>5. /\ Tail(q) \in Seq(SignalSet)
      /\ Len(q) \in Nat \ {0} /\ Len(Tail(q)) = Len(q) - 1
      /\ \A k \in 1 .. Len(Tail(q)) : Tail(q)[k] = q[k + 1] /\ k + 1 \in 1 .. Len(q)
  BY <1>1, <1>4, FirstRemoved
<1>6. signals' = Tail(q) BY <1>1, <1>4
<1>7. WorkerGood'
  <2>1. PICK t : t = [State EXCEPT !.signals = Tail(q)] OBVIOUS
  <2>2. /\ t \in WState /\ t.snapshot = State.snapshot /\ t.stopping = State.stopping
        /\ t.active = State.active /\ t.records = State.records
        /\ t.fills = State.fills /\ t.signals = Tail(q)
    BY <1>3, <1>5, <2>1 DEF WState
  <2>3. Becomes(t) BY <1>1, <1>6, <2>2, StateFields DEF Becomes
  <2>4. State' = t BY <2>2, <2>3, BecomesState
  <2>5. Good(t) BY <1>3, <2>2 DEF Good
  <2>6. \A k \in 1 .. Len(q) : /\ Counted(q[k].snapshot)
                               /\ q[k].kind = "finished" => Complete(q[k].snapshot, q[k].csv)
    BY <1>4 DEF BInv, WorkerGood
  <2>7. \A k \in 1 .. Len(signals') :
           /\ Counted(signals'[k].snapshot)
           /\ signals'[k].kind = "finished" => Complete(signals'[k].snapshot, signals'[k].csv)
    BY <1>5, <1>6, <2>6
  <2> QED BY <2>2, <2>4, <2>5, <2>7 DEF WorkerGood
<1>8. StartQueued' = StartQueued BY <1>1 DEF StartQueued
<1>9. Protocol' BY <1>1, <1>2, <1>8 DEF BInv, Protocol
<1>10. StopsAsked' BY <1>1, <1>2 DEF BInv, StopsAsked
<1>11. Heard'
  <2>1. CASE Head(signals).kind = "finished"
    <3>1. signals' = <<>> /\ Len(<<>>) = 0 BY <1>1, <1>2, <2>1, EmptySeq
    <3> QED BY <3>1 DEF Heard
  <2>2. CASE Head(signals).kind # "finished"
    <3>1. running' = running /\ runs' = runs /\ snapshot' = snapshot BY <1>1, <2>2
    <3>2. \A k \in 1 .. Len(q) : /\ q[k].snapshot.run = runs
                                 /\ q[k].snapshot.running = (q[k].kind # "finished")
                                 /\ q[k].kind = "finished" => k = Len(q) /\ ~snapshot.running
      BY <1>4 DEF BInv, Heard
    <3>3. ASSUME NEW k \in 1 .. Len(signals')
          PROVE  /\ signals'[k].snapshot.run = runs
                 /\ signals'[k].snapshot.running = (signals'[k].kind # "finished")
                 /\ signals'[k].kind = "finished" => k = Len(signals') /\ ~snapshot.running
      <4>1. signals'[k] = q[k + 1] /\ k + 1 \in 1 .. Len(q) /\ Len(signals') = Len(q) - 1
        BY <1>5, <1>6
      <4>2. k + 1 = Len(q) => k = Len(signals')
        <5>1. PICK n \in Nat : n = Len(q) BY <1>5
        <5>2. Len(signals') = n - 1 /\ k \in 1 .. n - 1 BY <4>1, <5>1
        <5> QED BY <5>1, <5>2
      <4> QED BY <3>2, <4>1, <4>2
    <3> QED BY <1>2, <1>8, <3>1, <3>3 DEF Heard
  <2> QED BY <2>1, <2>2
<1> QED BY <1>7, <1>9, <1>10, <1>11 DEF BInv

\* A step of the window's own.
LEMMA BenchUntouched ==
    ASSUME BInv, ExitKept, UNCHANGED bench
    PROVE  BInv'
<1>1. UNCHANGED <<worker, signals>> /\ UNCHANGED <<calls, running, csv, runs, stopAsked, signals>>
  BY DEF bench, runner
<1>2. WorkerGood' /\ UNCHANGED <<snapshot, stopping>>
  BY <1>1, WorkerUntouched DEF BInv
<1>3. StartQueued' = StartQueued BY <1>1 DEF StartQueued
<1> QED BY <1>1, <1>2, <1>3 DEF BInv, Protocol, StopsAsked, Heard, ExitKept

----------------------------------------------------------------------------
(* The requests of http_ *)

LEMMA IdleIsNone == Idle \notin Request /\ NewRequest \in Request
<1>1. "idle" \in DOMAIN Idle BY DEF Idle
<1>2. \A r \in Request : DOMAIN r = {"status", "unread", "received"} BY DEF Request
<1> QED BY <1>1, <1>2 DEF Request, NewRequest

LEMMA HttpLimits == Statuses \subseteq 200 .. 599 /\ MaxResponse \in Nat
BY HttpAssumption

\* What drain() leaves of a reply that was within the limit: all of it is read,
\* or it goes over.
LEMMA DrainFacts ==
    ASSUME NEW r \in Request, r.received <= MaxResponse
    PROVE  /\ Drain(r) \in Request
           /\ Drain(r).status = r.status
           /\ Readable(r) = 0 => ~Over(Drain(r))
           /\ ~Over(Drain(r)) => Drain(r).unread = 0 /\ Drain(r).received <= MaxResponse
<1>1. r.received \in Nat /\ r.unread \in Nat /\ r.status \in Nat /\ MaxResponse \in Nat
  BY HttpLimits DEF Request
<1>2. ~Over(r) BY <1>1 DEF Over
<1>3. Readable(r) = IF r.unread < MaxResponse + 1 - r.received THEN r.unread
                    ELSE MaxResponse + 1 - r.received
  BY <1>2 DEF Readable
<1>4. PICK n \in Nat : n = Readable(r) BY <1>1, <1>3
<1>5. n <= r.unread /\ (n = r.unread \/ n = MaxResponse + 1 - r.received)
  BY <1>1, <1>3, <1>4
<1>6. PICK a \in Nat, b \in Nat : a = r.received + n /\ b = r.unread - n
  BY <1>1, <1>5
<1>7. Drain(r) = [r EXCEPT !.received = a, !.unread = b]
  BY <1>4, <1>6 DEF Drain, Request
<1>8. /\ Drain(r) \in Request /\ Drain(r).status = r.status
      /\ Drain(r).received = a /\ Drain(r).unread = b
  BY <1>7 DEF Request
<1>9. Over(Drain(r)) <=> a > MaxResponse BY <1>8 DEF Over
<1>10. ~(a > MaxResponse) => a <= MaxResponse BY <1>1, <1>6
<1>11. n = 0 => ~(a > MaxResponse) BY <1>1, <1>6
<1>12. ~(a > MaxResponse) => b = 0 BY <1>1, <1>5, <1>6
<1> QED BY <1>4, <1>8, <1>9, <1>10, <1>11, <1>12

\* What finish() makes of an ending: the fields of the result.
LEMMA FinishFields ==
    ASSUME NEW r, NEW cause, NEW error, NEW open
    PROVE  LET d == IF open THEN Drain(r) ELSE r
               f == Finish(r, cause, error, open)
           IN  /\ f.outcome = Outcome(d, cause, open /\ Readable(r) > 0, error)
               /\ f.status = d.status
               /\ f.read = (d.unread = 0 /\ ~Over(d))
               /\ f.whole = (error \in {"none", "content"})
               /\ f.cause = cause
BY DEF Finish

\* A result that abort() brings about says what brought it about.
LEMMA AbortHonest ==
    ASSUME NEW r, NEW cause \in {"timeout", "cancelled", "tooLarge"},
           NEW result \in AbortResults(r, cause)
    PROVE  Honest(result)
<1>1. PICK open \in BOOLEAN : result = Finish(r, cause, "canceled", open)
  BY DEF AbortResults
<1>2. PICK d : d = IF open THEN Drain(r) ELSE r OBVIOUS
<1>3. /\ result.outcome = Outcome(d, cause, open /\ Readable(r) > 0, "canceled")
      /\ result.cause = cause
      /\ result.whole = ("canceled" \in {"none", "content"})
  BY <1>1, <1>2, FinishFields
<1>4. result.outcome \in {"tooLarge", cause} BY <1>3 DEF Outcome
<1> QED BY <1>3, <1>4 DEF Honest

\* A result that the reply itself brings about.
LEMMA ReplyHonest ==
    ASSUME NEW r \in Request, r.received <= MaxResponse,
           r.status \in {0} \union Statuses,
           NEW result \in ReplyResults(r)
    PROVE  Honest(result)
<1>1. PICK error \in {"transport", "none", "content"} :
        /\ result = Finish(r, "reply", error, TRUE)
        /\ error # "transport" => r.status # 0
        /\ error = "none" => r.status < 400
        /\ error = "content" => ~(r.status < 400)
  BY DEF ReplyResults
<1>2. PICK d : d = Drain(r) OBVIOUS
<1>3. /\ d \in Request /\ d.status = r.status
      /\ Readable(r) = 0 => ~Over(d)
      /\ ~Over(d) => d.unread = 0
  BY <1>2, DrainFacts
<1>4. /\ result.outcome = Outcome(d, "reply", Readable(r) > 0, error)
      /\ result.status = d.status
      /\ result.read = (d.unread = 0 /\ ~Over(d))
      /\ result.whole = (error \in {"none", "content"})
      /\ result.cause = "reply"
  BY <1>1, <1>2 DEF Finish
<1>5. Readable(r) \in Nat
  <2>1. r.received \in Nat /\ r.unread \in Nat /\ MaxResponse \in Nat
    BY HttpLimits DEF Request
  <2> QED BY <2>1 DEF Readable, Over
<1>6. Readable(r) > 0 \/ Readable(r) = 0 BY <1>5
<1>7. d.status = 0 \/ d.status \in 200 .. 599 BY <1>3, HttpLimits
<1>8. error = "transport" => Failed(d, error) BY DEF Failed, HttpStatusError
<1>9. error = "none" => ~Failed(d, error) BY DEF Failed
<1>10. error = "content" => ~Failed(d, error)
  <2>1. error = "content" => d.status >= 300 BY <1>1, <1>3, <1>7
  <2> QED BY <2>1 DEF Failed, HttpStatusError
<1>11. CASE Over(d)
  <2>1. result.outcome = "tooLarge" BY <1>3, <1>4, <1>6, <1>11 DEF Outcome
  <2> QED BY <1>4, <1>11, <2>1 DEF Honest
<1>12. CASE ~Over(d) /\ (error = "transport" \/ d.status = 0)
  <2>1. result.outcome = "networkError" BY <1>4, <1>8, <1>12 DEF Outcome
  <2>2. error = "transport" BY <1>1, <1>3, <1>12
  <2> QED BY <1>4, <2>1, <2>2 DEF Honest
<1>13. CASE ~Over(d) /\ error # "transport" /\ d.status # 0
  <2>1. result.outcome = IF d.status \in 200 .. 299 THEN "success" ELSE "httpError"
    BY <1>1, <1>4, <1>9, <1>10, <1>13 DEF Outcome
  <2>2. d.status \notin 200 .. 299 => d.status \in 300 .. 599 BY <1>7, <1>13
  <2>3. result.whole /\ result.read BY <1>1, <1>3, <1>4, <1>13
  <2> QED BY <1>4, <2>1, <2>2, <2>3 DEF Honest
<1> QED BY <1>11, <1>12, <1>13

LEMMA HonestNow ==
    ASSUME HttpGood
    PROVE  ResultsHonest
<1>1. ASSUME Busy,
             NEW result \in ReplyResults(http) \union AbortResults(http, "timeout")
                \union AbortResults(http, "cancelled")
                \union (IF Over(Drain(http)) THEN AbortResults(Drain(http), "tooLarge")
                        ELSE {})
      PROVE  Honest(result)
  <2>1. PICK r : r = http OBVIOUS
  <2>2. PICK d : d = Drain(http) OBVIOUS
  <2>3. r \in Request /\ r.received <= MaxResponse /\ r.status \in {0} \union Statuses
    BY <1>1, <2>1 DEF HttpGood
  <2>4. CASE result \in ReplyResults(r) BY <2>3, <2>4, ReplyHonest
  <2>5. CASE result \in AbortResults(r, "timeout") BY <2>5, AbortHonest
  <2>6. CASE result \in AbortResults(r, "cancelled") BY <2>6, AbortHonest
  <2>7. CASE result \in AbortResults(d, "tooLarge") BY <2>7, AbortHonest
  <2> QED BY <1>1, <2>1, <2>2, <2>4, <2>5, <2>6, <2>7
<1> QED BY <1>1 DEF HttpGood, ResultsHonest

LEMMA HttpFinished ==
    ASSUME HttpGood, Busy, NEW results, NEW idle, HttpFinishes(results, idle)
    PROVE  HttpGood' /\ ~Busy'
<1>1. /\ http' = Idle /\ answered' = answered + 1 /\ sent' = sent
  BY DEF HttpFinishes
<1> QED BY <1>1 DEF HttpGood, Busy

LEMMA HttpInv ==
    ASSUME HttpGood, [WindowNext]_all
    PROVE  HttpGood'
<1>a. ASSUME UNCHANGED client PROVE HttpGood'
  BY <1>a DEF client, HttpGood, Busy
<1>1. CASE SendHttp
  <2>1. http' = NewRequest /\ sent' = sent + 1 /\ answered' = answered /\ ~Busy
    BY <1>1 DEF SendHttp
  <2>2. Busy' /\ http' \in Request /\ http'.received = 0 /\ http'.status = 0
    BY <2>1, IdleIsNone DEF Busy, NewRequest
  <2>3. 0 <= MaxResponse BY HttpLimits
  <2> QED BY <2>1, <2>2, <2>3 DEF HttpGood
<1>2. CASE HttpGrows
  <2>1. PICK r \in Request : /\ r = http /\ r.received <= MaxResponse
                             /\ r.status \in {0} \union Statuses
    BY <1>2 DEF HttpGrows, HttpGood
  <2>2. /\ http' \in Request /\ http'.received = r.received
        /\ http'.status \in {0} \union Statuses
    <3>1. CASE \E status \in Statuses : http' = HeadersArrive(r, status)
      <4>1. PICK status \in Statuses : http' = HeadersArrive(r, status) BY <3>1
      <4>2. status \in Nat BY HttpLimits
      <4> QED BY <4>1, <4>2 DEF HeadersArrive, Request
    <3>2. CASE http' = BodyArrives(r)
      <4>1. PICK n \in Nat : n = r.unread + 1 BY DEF Request
      <4>2. http' = [r EXCEPT !.unread = n] BY <3>2, <4>1 DEF BodyArrives, Request
      <4> QED BY <2>1, <4>2 DEF Request
    <3> QED BY <1>2, <2>1, <3>1, <3>2 DEF HttpGrows
  <2>3. Busy' BY <2>2, IdleIsNone DEF Busy
  <2> QED BY <1>2, <2>1, <2>2, <2>3 DEF HttpGrows, HttpGood
<1>3. CASE HttpReads
  <2>1. PICK r \in Request : /\ r = http /\ r.received <= MaxResponse
                             /\ r.status \in {0} \union Statuses
    BY <1>3 DEF HttpReads, HttpGood
  <2>2. CASE Over(Drain(http))
    <3>1. Busy /\ HttpFinishes(AbortResults(Drain(http), "tooLarge"), tcpIdle)
      BY <1>3, <2>2 DEF HttpReads
    <3> QED BY <3>1, HttpFinished
  <2>3. CASE ~Over(Drain(http))
    <3>1. http' = Drain(r) /\ UNCHANGED <<sent, answered>> /\ Busy
      BY <1>3, <2>1, <2>3 DEF HttpReads
    <3>2. /\ Drain(r) \in Request /\ Drain(r).status = r.status
          /\ Drain(r).received <= MaxResponse
      BY <2>1, <2>3, DrainFacts
    <3>3. Busy' BY <3>1, <3>2, IdleIsNone DEF Busy
    <3> QED BY <2>1, <3>1, <3>2, <3>3 DEF HttpGood
  <2> QED BY <2>2, <2>3
<1>4. CASE HttpEnds BY <1>4, HttpFinished DEF HttpEnds
<1>5. CASE HttpTimesOut BY <1>5, HttpFinished DEF HttpTimesOut
<1>6. CASE CancelHttp BY <1>6, HttpFinished DEF CancelHttp
<1>7. CASE CloseWindow
  <2>1. CASE Busy BY <1>7, <2>1, HttpFinished DEF CloseWindow
  <2>2. CASE ~Busy BY <1>7, <1>a, <2>2 DEF CloseWindow
  <2> QED BY <2>1, <2>2
<1>8. CASE StartBenchmark \/ StopBenchmark \/ WindowSignal \/ TcpChanges
           \/ DestroyRunner \/ ThreadEnds \/ WorkerAnswers \/ WorkerFills
           \/ WorkerShows \/ WorkerRequestEnds
  BY <1>8, <1>a DEF StartBenchmark, StopBenchmark, WindowSignal, TcpChanges,
        DestroyRunner, ThreadEnds, WorkerAnswers, WorkerFills, WorkerShows,
        WorkerRequestEnds, window
<1>9. CASE UNCHANGED all BY <1>9, <1>a DEF all, window
<1> QED BY <1>1, <1>2, <1>3, <1>4, <1>5, <1>6, <1>7, <1>8, <1>9 DEF WindowNext

----------------------------------------------------------------------------
(* The window *)

\* The worker's steps with its timers and requests.
LEMMA WorkerStepInv ==
    ASSUME BInv, UNCHANGED exit,
           WorkerFill \/ WorkerUpdates \/ \E id \in active : RequestEnds(id)
    PROVE  BInv' /\ UNCHANGED runner
<1>1. ExitKept BY DEF ExitKept, Event
<1>2. PICK s : s = State OBVIOUS
<1>3. s \in WState /\ Good(s) BY <1>2 DEF BInv, WorkerGood
<1>4. CASE WorkerFill
  <2>1. UNCHANGED <<calls, runner>> /\ Becomes(Fill([s EXCEPT !.fills = @ - 1]))
    BY <1>2, <1>4 DEF WorkerFill
  <2>2. PICK u : u = [s EXCEPT !.fills = @ - 1] OBVIOUS
  <2>3. /\ u \in WState /\ u.snapshot = s.snapshot /\ u.stopping = s.stopping
        /\ u.active = s.active /\ u.records = s.records /\ u.signals = s.signals
    BY <1>3, <2>2 DEF WState
  <2>4. Good(u) BY <1>3, <2>3 DEF Good
  <2>5. PICK t : t = Fill(u) OBVIOUS
  <2>6. /\ After(u, t) /\ t.stopping = u.stopping
        /\ t.snapshot.cancelled = u.snapshot.cancelled
    BY <2>3, <2>4, <2>5, FillAfter
  <2>7. After(s, t) BY <1>3, <2>3, <2>6, AfterTrans
  <2>8. Becomes(t) BY <2>1, <2>2, <2>5
  <2>9. After(State, t) /\ t.stopping = stopping /\ t.snapshot.cancelled = snapshot.cancelled
    BY <1>2, <2>3, <2>6, <2>7, StateFields
  <2> QED BY <1>1, <2>1, <2>8, <2>9, MovesInv
<1>5. CASE WorkerUpdates
  BY <1>1, <1>5, UpdatesInv DEF WorkerUpdates
<1>6. ASSUME NEW id \in active, RequestEnds(id) PROVE BInv' /\ UNCHANGED runner
  <2>1. UNCHANGED <<calls, runner>> /\ Becomes(Consume(s, {id}, 0))
    BY <1>2, <1>6 DEF RequestEnds
  <2>2. {id} \in SUBSET s.active BY <1>2, <1>6, StateFields
  <2>3. Cardinality({id}) = 1 BY FS_Singleton
  <2>4. 0 \in 0 .. Cardinality({id}) BY <2>3
  <2>5. s.snapshot.running BY <1>3, <2>2 DEF Good
  <2>6. PICK t : t = Consume(s, {id}, 0) OBVIOUS
  <2>7. /\ After(s, t) /\ t.stopping = s.stopping
        /\ t.snapshot.cancelled = s.snapshot.cancelled + 0
    BY <1>3, <2>2, <2>4, <2>5, <2>6, ConsumeAfter
  <2>8. s.snapshot.cancelled \in Nat BY <1>3 DEF WState, Snapshot
  <2>9. /\ After(State, t) /\ t.stopping = stopping
        /\ t.snapshot.cancelled = snapshot.cancelled
    BY <1>2, <2>7, <2>8, StateFields
  <2>10. Becomes(t) BY <2>1, <2>6
  <2> QED BY <1>1, <2>1, <2>9, <2>10, MovesInv
<1> QED BY <1>4, <1>5, <1>6

LEMMA BenchInv ==
    ASSUME BInv, [WindowNext]_all
    PROVE  BInv'
<1>1. CASE SendHttp \/ HttpGrows \/ HttpReads \/ HttpEnds \/ HttpTimesOut \/ CancelHttp
           \/ TcpChanges
  <2>1. UNCHANGED <<bench, exit>>
    BY <1>1 DEF SendHttp, HttpGrows, HttpReads, HttpEnds, HttpTimesOut, CancelHttp,
                TcpChanges
  <2> QED BY <2>1, BenchUntouched DEF ExitKept, Event
<1>2. CASE StartBenchmark BY <1>2, StartInv DEF StartBenchmark, Click
<1>3. CASE StopBenchmark
  <2>1. /\ running /\ calls' = Append(calls, "stop")
        /\ UNCHANGED <<worker, running, csv, runs>>
        /\ stopAsked' = stopAsked \union {runs} /\ signals' = signals /\ exit' = exit
    BY <1>3 DEF StopBenchmark, Stop, window
  <2> QED BY <2>1, StopCallInv DEF Event
<1>4. CASE WindowSignal BY <1>4, RunnerSignalInv DEF WindowSignal
<1>5. CASE CloseWindow
  <2>1. exit = "up" /\ exit' = "closed" BY <1>5 DEF CloseWindow, Click
  <2>2. CASE running
    <3>1. /\ calls' = Append(calls, "stop")
          /\ UNCHANGED <<worker, running, csv, runs>>
          /\ stopAsked' = stopAsked \union {runs} /\ signals' = signals
      BY <1>5, <2>2 DEF CloseWindow, Stop
    <3> QED BY <2>1, <3>1, StopCallInv DEF Event
  <2>3. CASE ~running
    <3>1. UNCHANGED bench BY <1>5, <2>3 DEF CloseWindow
    <3> QED BY <2>1, <2>3, <3>1, BenchUntouched DEF ExitKept, Event
  <2> QED BY <2>2, <2>3
<1>6. CASE DestroyRunner
  <2>1. /\ exit = "closed" /\ exit' = "blocked" /\ signals' = <<>>
        /\ calls' = Append(calls, "last")
        /\ UNCHANGED <<worker, running, csv, runs, stopAsked>>
    BY <1>6 DEF DestroyRunner, runner
  <2>2. running => runs \in stopAsked BY <2>1 DEF BInv, StopsAsked
  <2> QED BY <2>1, <2>2, StopCallInv DEF Event
<1>7. CASE WorkerAnswers
  <2>1. WorkerCall /\ exit' = IF Head(calls) = "last" THEN "released" ELSE exit
    BY <1>7 DEF WorkerAnswers
  <2>2. calls # <<>> BY <2>1 DEF WorkerCall
  <2>3. ExitKept
    <3>1. CASE Head(calls) # "last" BY <2>1, <3>1 DEF ExitKept, Event
    <3>2. CASE Head(calls) = "last"
      <4>1. /\ calls[1] = "last" /\ Len(calls) \in Nat \ {0}
        <5>1. PICK q \in Seq(Call) : q = calls BY DEF BInv, Protocol
        <5> QED BY <2>2, <3>2, <5>1, FirstRemoved
      <4>2. 1 \in 1 .. Len(calls) BY <4>1
      <4>3. exit # "up" BY <4>1, <4>2 DEF BInv, StopsAsked
      <4> QED BY <2>1, <3>2, <4>3 DEF ExitKept, Event
    <3> QED BY <3>1, <3>2
  <2> QED BY <2>1, <2>3, CallStartInv, CallStopInv
<1>8. CASE ThreadEnds
  <2>1. exit = "released" /\ exit' = "gone" /\ UNCHANGED bench BY <1>8 DEF ThreadEnds
  <2> QED BY <2>1, BenchUntouched DEF ExitKept, Event
<1>9. CASE WorkerFills \/ WorkerShows \/ WorkerRequestEnds
  BY <1>9, WorkerStepInv DEF WorkerFills, WorkerShows, WorkerRequestEnds, window
<1>10. CASE UNCHANGED all
  BY <1>10, BenchUntouched DEF all, window, ExitKept, Event
<1> QED BY <1>1, <1>2, <1>3, <1>4, <1>5, <1>6, <1>7, <1>8, <1>9, <1>10 DEF WindowNext

\* Nothing the buttons depend on has changed, or the window is gone.
LEMMA ButtonsKept ==
    ASSUME Buttons, UNCHANGED ui,
           Event' => Event /\ Busy' = Busy /\ UNCHANGED <<running, runs, csv>>
    PROVE  Buttons'
BY DEF Buttons, ui

LEMMA HttpFinishedButtons ==
    ASSUME Buttons, Event, Busy, NEW results, NEW idle, HttpFinishes(results, idle),
           UNCHANGED <<running, runs, csv>>
    PROVE  Buttons'
<1>1. /\ http' = Idle /\ sendHttp' = TRUE /\ profile' = (~running /\ idle)
      /\ tcpIdle' = idle /\ UNCHANGED <<benchStart, benchExport, shown>>
  BY DEF HttpFinishes
<1>2. ~Busy' BY <1>1 DEF Busy
<1>3. sendHttp' = ~Busy' BY <1>1, <1>2
<1>4. profile' = (~Busy' /\ ~running' /\ tcpIdle') BY <1>1, <1>2
<1>5. benchStart' = ~running' BY <1>1 DEF Buttons
<1>6. benchExport' => ~running' /\ shown'.run = runs' /\ csv' = 1 .. shown'.completed
  BY <1>1 DEF Buttons
<1>7. shown' \in Snapshot /\ Counted(shown') BY <1>1 DEF Buttons
<1> QED BY <1>3, <1>4, <1>5, <1>6, <1>7 DEF Buttons

LEMMA ButtonsInv ==
    ASSUME IInv, [WindowNext]_all
    PROVE  Buttons'
<1>0. Buttons /\ BInv /\ HttpGood /\ running \in BOOLEAN /\ runs \in Nat
  BY DEF IInv, BInv, Protocol
<1>a. UNCHANGED bench => UNCHANGED <<running, runs, csv>>
  BY DEF bench, runner
<1>b. UNCHANGED runner => UNCHANGED <<running, runs, csv>>
  BY DEF runner
<1>c. UNCHANGED window => UNCHANGED ui /\ Busy' = Busy /\ UNCHANGED exit
  BY DEF window, client, Busy
<1>1. CASE SendHttp
  <2>1. /\ http' = NewRequest /\ sendHttp' = FALSE /\ profile' = FALSE
        /\ UNCHANGED bench /\ UNCHANGED <<benchStart, benchExport, shown, tcpIdle, exit>>
        /\ Event
    BY <1>1 DEF SendHttp, Click, Event
  <2>2. Busy' = TRUE BY <2>1, IdleIsNone DEF Busy
  <2>3. sendHttp' = ~Busy' /\ profile' = (~Busy' /\ ~running' /\ tcpIdle')
    BY <2>1, <2>2
  <2> QED BY <1>0, <1>a, <2>1, <2>3 DEF Buttons
<1>2. CASE HttpGrows
  <2>1. Busy /\ UNCHANGED bench /\ UNCHANGED <<ui, exit>> BY <1>2 DEF HttpGrows
  <2>2. Busy'
    <3>1. HttpGood' BY <1>0, HttpInv
    <3>2. sent' = sent /\ answered' = answered BY <1>2 DEF HttpGrows
    <3>3. sent = answered + 1 /\ answered \in Nat BY <1>0, <2>1 DEF HttpGood
    <3>4. sent' = answered' + (IF Busy' THEN 1 ELSE 0) BY <3>1 DEF HttpGood
    <3> QED BY <3>2, <3>3, <3>4
  <2>3. Busy' = Busy BY <2>1, <2>2 DEF Busy
  <2>4. Event' = Event BY <2>1 DEF Event
  <2> QED BY <1>0, <1>a, <2>1, <2>3, <2>4, ButtonsKept
<1>3. CASE HttpReads
  <2>1. Busy /\ Event /\ UNCHANGED bench /\ exit' = exit BY <1>3 DEF HttpReads
  <2>2. CASE Over(Drain(http))
    <3>1. HttpFinishes(AbortResults(Drain(http), "tooLarge"), tcpIdle)
      BY <1>3, <2>2 DEF HttpReads
    <3> QED BY <1>0, <1>a, <2>1, <3>1, HttpFinishedButtons
  <2>3. CASE ~Over(Drain(http))
    <3>1. UNCHANGED ui /\ sent' = sent /\ answered' = answered
      BY <1>3, <2>3 DEF HttpReads
    <3>2. Busy'
      <4>1. HttpGood' BY <1>0, HttpInv
      <4>3. sent = answered + 1 /\ answered \in Nat BY <1>0, <2>1 DEF HttpGood
      <4>4. sent' = answered' + (IF Busy' THEN 1 ELSE 0) BY <4>1 DEF HttpGood
      <4> QED BY <3>1, <4>3, <4>4
    <3>3. Busy' = Busy BY <2>1, <3>2 DEF Busy
    <3>4. Event' = Event BY <2>1 DEF Event
    <3> QED BY <1>0, <1>a, <2>1, <3>1, <3>3, <3>4, ButtonsKept
  <2> QED BY <2>2, <2>3
<1>4. CASE HttpEnds BY <1>0, <1>4, <1>a, HttpFinishedButtons DEF HttpEnds
<1>5. CASE HttpTimesOut BY <1>0, <1>5, <1>a, HttpFinishedButtons DEF HttpTimesOut
<1>6. CASE CancelHttp BY <1>0, <1>6, <1>a, HttpFinishedButtons DEF CancelHttp, Click, Event
<1>7. CASE StartBenchmark
  <2>1. PICK p : p = [NoSnapshot EXCEPT !.run = runs', !.running = TRUE] OBVIOUS
  <2>2. /\ runs' \in Nat /\ running' = TRUE
        /\ shown' = p /\ benchStart' = ~p.running
        /\ profile' = (~p.running /\ ~Busy /\ tcpIdle)
        /\ benchExport' = FALSE
        /\ UNCHANGED client /\ UNCHANGED <<sendHttp, tcpIdle, exit>> /\ Event
    BY <1>0, <1>7, <2>1 DEF StartBenchmark, Start, Show, Click, Event
  <2>3. /\ p \in Snapshot /\ p.running = TRUE
        /\ p.started = 0 /\ p.completed = 0 /\ p.cancelled = 0
    <3>1. p = [run |-> runs', running |-> TRUE, started |-> 0, completed |-> 0,
               cancelled |-> 0]
      BY <2>1 DEF NoSnapshot
    <3> QED BY <2>2, <3>1 DEF Snapshot
  <2>4. Counted(shown') /\ shown' \in Snapshot BY <2>2, <2>3 DEF Counted
  <2>5. Busy' = Busy BY <2>2 DEF client, Busy
  <2>6. benchStart' = ~running' /\ profile' = (~Busy' /\ ~running' /\ tcpIdle')
    BY <2>2, <2>3
  <2>7. sendHttp' = ~Busy' BY <1>0, <2>2, <2>5 DEF Buttons
  <2> QED BY <2>2, <2>4, <2>6, <2>7 DEF Buttons
<1>8. CASE StopBenchmark
  <2>1. UNCHANGED window /\ UNCHANGED <<running, runs, csv>>
    BY <1>8 DEF StopBenchmark, Stop
  <2>2. Event' = Event BY <1>c, <2>1 DEF Event
  <2> QED BY <1>0, <1>c, <2>1, <2>2, ButtonsKept
<1>9. CASE WindowSignal
  <2>1. /\ Event /\ signals # <<>> /\ runs' = runs
        /\ IF Head(signals).kind = "finished"
           THEN running' = FALSE /\ csv' = Head(signals).csv
           ELSE UNCHANGED <<running, csv>>
        /\ UNCHANGED client /\ UNCHANGED <<sendHttp, tcpIdle, exit>>
    BY <1>9 DEF WindowSignal, RunnerSignal
  <2>2. PICK e : e = Head(signals) OBVIOUS
  <2>3. /\ shown' = e.snapshot /\ benchStart' = ~e.snapshot.running
        /\ profile' = (~e.snapshot.running /\ ~Busy /\ tcpIdle)
        /\ benchExport' = (benchExport \/ e.kind = "finished")
    BY <1>9, <2>2 DEF WindowSignal, Show
  <2>4. /\ e \in SignalSet /\ Counted(e.snapshot)
        /\ running /\ e.snapshot.run = runs
        /\ e.snapshot.running = (e.kind # "finished")
        /\ e.kind = "finished" => e.csv = 1 .. e.snapshot.completed
    BY <1>0, <2>1, <2>2, SignalFacts
  <2>5. ~benchExport BY <1>0, <2>1, <2>4 DEF Buttons
  <2>6. Busy' = Busy BY <2>1 DEF client, Busy
  <2>7. sendHttp' = ~Busy' BY <1>0, <2>1, <2>6 DEF Buttons
  <2>8. shown' \in Snapshot /\ Counted(shown') BY <2>3, <2>4 DEF SignalSet
  <2>9. CASE e.kind = "finished"
    <3>1. running' = FALSE /\ csv' = e.csv /\ e.snapshot.running = FALSE
      BY <2>1, <2>2, <2>4, <2>9
    <3>2. benchStart' = ~running' /\ profile' = (~Busy' /\ ~running' /\ tcpIdle')
      BY <2>1, <2>3, <2>6, <3>1
    <3>3. ~running' /\ shown'.run = runs' /\ csv' = 1 .. shown'.completed
      BY <2>1, <2>3, <2>4, <2>9, <3>1
    <3> QED BY <2>7, <2>8, <3>2, <3>3 DEF Buttons
  <2>10. CASE e.kind # "finished"
    <3>1. running' = TRUE /\ e.snapshot.running = TRUE /\ ~benchExport'
      BY <1>0, <2>1, <2>2, <2>3, <2>4, <2>5, <2>10
    <3>2. benchStart' = ~running' /\ profile' = (~Busy' /\ ~running' /\ tcpIdle')
      BY <2>3, <3>1
    <3> QED BY <2>7, <2>8, <3>1, <3>2 DEF Buttons
  <2> QED BY <2>9, <2>10
<1>10. CASE TcpChanges
  <2>1. /\ Event /\ profile' = (tcpIdle' /\ ~Busy /\ ~running)
        /\ UNCHANGED bench /\ UNCHANGED client
        /\ UNCHANGED <<sendHttp, benchStart, benchExport, shown, exit>>
    BY <1>10 DEF TcpChanges
  <2>2. Busy' = Busy BY <2>1 DEF client, Busy
  <2>3. profile' = (~Busy' /\ ~running' /\ tcpIdle') BY <1>a, <2>1, <2>2
  <2> QED BY <1>0, <1>a, <2>1, <2>2, <2>3 DEF Buttons
<1>11. CASE CloseWindow
  <2>1. Event /\ UNCHANGED <<running, runs, csv>>
    <3>1. CASE running BY <1>11, <3>1 DEF CloseWindow, Click, Event, Stop
    <3>2. CASE ~running BY <1>11, <1>a, <3>2 DEF CloseWindow, Click, Event
    <3> QED BY <3>1, <3>2
  <2>2. CASE Busy
    <3>1. PICK idle \in {tcpIdle, TRUE} : HttpFinishes(AbortResults(http, "cancelled"), idle)
      BY <1>11, <2>2 DEF CloseWindow
    <3> QED BY <1>0, <2>1, <2>2, <3>1, HttpFinishedButtons
  <2>3. CASE ~Busy
    <3>1. PICK idle \in {tcpIdle, TRUE} :
            /\ tcpIdle' = idle
            /\ profile' = IF idle = tcpIdle THEN profile ELSE ~running
            /\ UNCHANGED client /\ UNCHANGED <<sendHttp, benchStart, benchExport, shown>>
      BY <1>11, <2>3 DEF CloseWindow
    <3>2. Busy' = Busy BY <3>1 DEF client, Busy
    <3>3. profile' = (~Busy' /\ ~running' /\ tcpIdle')
      <4>1. profile = (~Busy /\ ~running /\ tcpIdle)
        BY <1>0, <2>1 DEF Buttons
      <4>2. CASE idle = tcpIdle
        <5>1. profile' = profile /\ tcpIdle' = tcpIdle BY <3>1, <4>2
        <5>2. running' = running BY <2>1
        <5> QED BY <3>2, <4>1, <5>1, <5>2
      <4>3. CASE idle # tcpIdle
        <5>1. profile' = ~running /\ tcpIdle' = TRUE BY <3>1, <4>3
        <5>2. running' = running BY <2>1
        <5> QED BY <2>3, <3>2, <5>1, <5>2
      <4> QED BY <4>2, <4>3
    <3> QED BY <1>0, <2>1, <3>1, <3>2, <3>3 DEF Buttons
  <2> QED BY <2>2, <2>3
<1>12. CASE DestroyRunner \/ ThreadEnds
  <2>1. UNCHANGED ui /\ ~Event' BY <1>12 DEF DestroyRunner, ThreadEnds, Event
  <2> QED BY <1>0, <2>1, ButtonsKept
<1>13. CASE WorkerAnswers
  <2>1. /\ UNCHANGED runner /\ UNCHANGED client /\ UNCHANGED ui
        /\ exit' = IF Head(calls) = "last" THEN "released" ELSE exit
    BY <1>13 DEF WorkerAnswers, WorkerCall
  <2>2. Event' => Event BY <2>1 DEF Event
  <2>3. Busy' = Busy BY <2>1 DEF client, Busy
  <2> QED BY <1>0, <1>b, <2>1, <2>2, <2>3, ButtonsKept
<1>14. CASE WorkerFills \/ WorkerShows \/ WorkerRequestEnds
  <2>1. UNCHANGED window /\ UNCHANGED runner
    BY <1>14 DEF WorkerFills, WorkerShows, WorkerRequestEnds, WorkerFill, WorkerUpdates,
                 RequestEnds
  <2>2. Event' = Event BY <1>c, <2>1 DEF Event
  <2> QED BY <1>0, <1>b, <1>c, <2>1, <2>2, ButtonsKept
<1>15. CASE UNCHANGED all
  <2>1. UNCHANGED window /\ UNCHANGED bench BY <1>15 DEF all
  <2>2. Event' = Event BY <1>c, <2>1 DEF Event
  <2> QED BY <1>0, <1>a, <1>c, <2>1, <2>2, ButtonsKept
<1> QED BY <1>1, <1>2, <1>3, <1>4, <1>5, <1>6, <1>7, <1>8, <1>9, <1>10, <1>11, <1>12,
           <1>13, <1>14, <1>15 DEF WindowNext

LEMMA InitInv == WindowInit => IInv
<1> SUFFICES ASSUME WindowInit PROVE IInv
  OBVIOUS
<1>1. /\ snapshot = NoSnapshot /\ stopping = FALSE /\ active = {} /\ records = {}
      /\ fills = 0 /\ calls = <<>> /\ signals = <<>>
      /\ running = FALSE /\ csv = {} /\ runs = 0 /\ stopAsked = {}
  BY DEF WindowInit, BenchInit
<1>2. NoSnapshot \in Snapshot /\ Counted(NoSnapshot)
  BY DEF NoSnapshot, Snapshot, Counted
<1>3. Len(<<>>) = 0 /\ <<>> \in Seq(SignalSet) /\ <<>> \in Seq(Call)
  BY EmptySeq
<1>4. WorkerGood
  <2>1. State \in WState
    <3>1. State = [snapshot |-> NoSnapshot, stopping |-> FALSE, active |-> {},
                   records |-> {}, fills |-> 0, signals |-> <<>>]
      BY <1>1 DEF State
    <3>2. {} \in SUBSET Nat /\ 0 \in Int /\ FALSE \in BOOLEAN OBVIOUS
    <3>3. <<>> \in Seq(SignalSet) BY <1>3
    <3> HIDE DEF NoSnapshot
    <3> QED BY <1>2, <3>1, <3>2, <3>3, Zenon DEF WState
  <2>2. Cardinality({}) = 0 /\ 1 .. 0 = {} BY FS_EmptySet
  <2>3. Good(State) BY <1>1, <2>2, Limits, StateFields DEF Good, NoSnapshot
  <2> QED BY <1>1, <1>3, <2>1, <2>3 DEF WorkerGood
<1>5. Protocol
  <2>1. 1 .. Len(calls) = {} /\ 1 .. Len(signals) = {} BY <1>1, <1>3
  <2>2. ~StartQueued BY <2>1, Zenon DEF StartQueued
  <2>3. snapshot.run = 0 /\ snapshot.running = FALSE BY <1>1 DEF NoSnapshot
  <2>4. <<>> \in Seq(Call) BY <1>3
  <2>5. calls \in Seq(Call) BY <1>1, <2>4
  <2>6. running \in BOOLEAN /\ runs \in Nat BY <1>1
  <2>7. \A j, k \in 1 .. Len(calls) : calls[j] = "start" /\ calls[k] = "start" => j = k
    BY <2>1, Zenon
  <2>8. runs = snapshot.run /\ (snapshot.running => running) BY <1>1, <2>3
  <2> QED BY <2>2, <2>5, <2>6, <2>7, <2>8, Zenon DEF Protocol
<1>6. StopsAsked BY <1>1, <1>3 DEF StopsAsked, NoSnapshot, WindowInit
<1>7. Heard BY <1>1, <1>3 DEF Heard
<1>8. HttpGood BY DEF WindowInit, HttpGood, Busy
<1>9. Buttons
  <2>1. shown \in Snapshot /\ Counted(shown) BY <1>2 DEF WindowInit
  <2>2. /\ sendHttp = TRUE /\ profile = TRUE /\ benchStart = TRUE /\ benchExport = FALSE
        /\ tcpIdle = TRUE /\ ~Busy
    BY DEF WindowInit, Busy
  <2> QED BY <1>1, <2>1, <2>2 DEF Buttons
<1> QED BY <1>4, <1>5, <1>6, <1>7, <1>8, <1>9 DEF IInv, BInv

LEMMA StepInv == IInv /\ [WindowNext]_all => IInv'
BY BenchInv, HttpInv, ButtonsInv DEF IInv

LEMMA Inductive == WindowSpec => []IInv
BY InitInv, StepInv, PTL DEF WindowSpec

----------------------------------------------------------------------------
\* Whatever ends a request, its result says what became of it, and http_ answers
\* every request it took, for any statuses a server sends and any limit
\* (httpclient.cpp:30-40 and 76-180).
THEOREM HonestCorrect == WindowSpec => []ResultsHonest
<1>1. IInv => ResultsHonest BY HonestNow DEF IInv
<1> QED BY <1>1, Inductive, PTL

\* At every moment of every run its requests are the completed ones and those in
\* flight, never more than the limit, and a finished run has all it started on
\* record, for any number of requests, limit and runs (benchmark.cpp:56-169).
THEOREM CountsCorrect == WindowSpec => []CountsAddUp
<1>1. IInv => CountsAddUp
  <2> SUFFICES ASSUME IInv PROVE CountsAddUp
    OBVIOUS
  <2>1. /\ Good(State) /\ State \in WState
        /\ \A k \in 1 .. Len(signals) : signals[k].kind = "finished"
              => Complete(signals[k].snapshot, signals[k].csv)
    BY DEF IInv, BInv, WorkerGood
  <2>2. signals \in Seq(SignalSet) BY <2>1, StateFields DEF WState
  <2>3. DOMAIN signals = 1 .. Len(signals) BY <2>2
  <2> QED BY <2>1, <2>3, StateFields DEF Good, Complete, CountsAddUp
<1> QED BY <1>1, Inductive, PTL

\* A stop() never reaches a run it was not asked of, however calls and signals
\* cross between the threads (benchmark.cpp:79-90 and 246-303).
THEOREM StopsCorrect == WindowSpec => []StopsItsOwnRun
<1>1. IInv => StopsItsOwnRun
  BY DEF IInv, BInv, Protocol, StopsAsked, StopsItsOwnRun
<1> QED BY <1>1, Inductive, PTL

\* Between two events of the window its buttons agree with its clients
\* (mainwindow.cpp:858-874, 889-898 and 1223-1263).
THEOREM WindowCorrect == WindowSpec => []WindowConsistent
<1>1. IInv => WindowConsistent
  BY DEF IInv, Buttons, Counted, WindowConsistent
<1> QED BY <1>1, Inductive, PTL
=============================================================================
