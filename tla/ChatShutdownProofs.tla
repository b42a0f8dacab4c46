------------------------- MODULE ChatShutdownProofs -------------------------
(***************************************************************************)
(* Proofs about ChatShutdown for any number of sub loops and connections:  *)
(* what becomes of the connections when the server ends.                   *)
(***************************************************************************)
EXTENDS ChatShutdown, TLAPS, SequenceTheorems

Task == {Adopt(c) : c \in Conns} \union {Notice, Other}

\* What a sub thread has still to run, in order.
Queue(i) == locals[i] \o pending[i]

Has(s, e) == \E m \in 1 .. Len(s) : s[m] = e
HasBefore(s, d, e) == \E m \in 1 .. Len(s), n \in 1 .. Len(s) : m < n /\ s[m] = d /\ s[n] = e

\* What happens to or in the thread of a sub loop.
LoopActs(k) == OnIdleTick(k) \/ SubThread(k) \/ EventCloses(k) \/ EventSays(k)

Queues == locals \in [Loops -> Seq(Task)] /\ pending \in [Loops -> Seq(Task)]

\* The main thread tells no loop to quit before it has left its own, and joins
\* and cleans up the loops in order.
Stages ==
    /\ mpc = "serving" => next = 0
    /\ mpc \in {"serving", "notify", "closing"} => \A i \in Loops : running[i]
    /\ mpc = "join" => \A i \in Loops : i < next => tpc[i] = "gone"
    /\ mpc \in {"clean", "done"} => \A i \in Loops : tpc[i] = "gone"
    /\ mpc = "clean" => \A i \in Loops : i < next => conns[i] = {}
    /\ mpc = "done" => \A i \in Loops : conns[i] = {}

\* A sub thread takes the last batch after it was told to quit, when nothing is
\* accepted any more, and ends when it has run all of it.
Threads ==
    \A i \in Loops :
        /\ tpc[i] \notin {"tasks", "finaltasks"} => locals[i] = <<>>
        /\ tpc[i] \in {"final", "finaltasks", "gone"} => ~running[i]
        /\ tpc[i] \in {"finaltasks", "gone"} => pending[i] = <<>>

\* An accepted connection is queued for its loop, open there, or closed.
Located ==
    \A c \in 1 .. accepts :
        c \in closed \union conns[Owner(c)] \/ Has(Queue(Owner(c)), Adopt(c))

\* The notice of loop i has been posted.
Posted(i) == mpc # "serving" /\ (mpc = "notify" => i < next)

\* What is promised of a connection once the notice has been posted to its loop.
Promised(c) ==
    \/ c \in closed \union noticed
    \/ c \in conns[Owner(c)] /\ Has(Queue(Owner(c)), Notice)
    \/ HasBefore(Queue(Owner(c)), Adopt(c), Notice)

\* The notice is ahead of the connections accepted before the shutdown.
NoticeAhead ==
    /\ early \subseteq 1 .. accepts
    /\ \A c \in early : Posted(Owner(c)) => Promised(c)

\* The inductive invariant.
IInv == TypeOK /\ Queues /\ Stages /\ Threads /\ Located /\ NoticeAhead

----------------------------------------------------------------------------
(* Sequences of tasks *)

\* Behind the last element of the second of two sequences.
LEMMA AppendToSecond ==
    ASSUME NEW S, NEW a \in Seq(S), NEW b \in Seq(S), NEW e \in S
    PROVE  a \o Append(b, e) = Append(a \o b, e)
<1>1. a \o b \in Seq(S) BY ConcatProperties
<1>2. <<e>> \in Seq(S) OBVIOUS
<1>3. Append(b, e) = b \o <<e>> BY AppendIsConcat
<1>4. Append(a \o b, e) = (a \o b) \o <<e>> BY <1>1, AppendIsConcat
<1> QED BY <1>2, <1>3, <1>4, ConcatAssociative

\* The first element of two sequences is that of the first one.
LEMMA FirstOfTwo ==
    ASSUME NEW S, NEW a \in Seq(S), NEW b \in Seq(S), a # <<>>
    PROVE  /\ a \o b \in Seq(S) /\ a \o b # <<>>
           /\ Head(a \o b) = Head(a)
           /\ Tail(a \o b) = Tail(a) \o b
<1>1. a \o b \in Seq(S) /\ Len(a \o b) = Len(a) + Len(b)
  BY ConcatProperties
<1>2. Len(a) \in Nat \ {0} /\ Len(b) \in Nat
  BY LenProperties, EmptySeq
<1>3. a \o b # <<>> BY <1>1, <1>2
<1>4. Head(a \o b) = Head(a) BY <1>1, <1>2, <1>3, ConcatProperties
<1>5. Tail(a) \in Seq(S) /\ Len(Tail(a)) = Len(a) - 1
  BY HeadTailProperties
<1>6. /\ Tail(a \o b) \in Seq(S) /\ Len(Tail(a \o b)) = Len(a) + Len(b) - 1
      /\ \A m \in 1 .. Len(a) + Len(b) - 1 : Tail(a \o b)[m] = (a \o b)[m + 1]
  BY <1>1, <1>3, HeadTailProperties
<1>7. /\ Tail(a) \o b \in Seq(S) /\ Len(Tail(a) \o b) = Len(a) - 1 + Len(b)
      /\ \A m \in 1 .. Len(a) + Len(b) - 1 :
            (Tail(a) \o b)[m] = IF m <= Len(a) - 1 THEN Tail(a)[m]
                                ELSE b[m - (Len(a) - 1)]
  BY <1>2, <1>5, ConcatProperties
<1>8. \A m \in 1 .. Len(a) + Len(b) - 1 : Tail(a \o b)[m] = (Tail(a) \o b)[m]
  <2> TAKE m \in 1 .. Len(a) + Len(b) - 1
  <2>1. (a \o b)[m + 1] = IF m + 1 <= Len(a) THEN a[m + 1] ELSE b[m + 1 - Len(a)]
    BY <1>2, ConcatProperties
  <2>2. m <= Len(a) - 1 => Tail(a)[m] = a[m + 1]
    BY <1>2, <1>5, HeadTailProperties
  <2> QED BY <1>2, <1>6, <1>7, <2>1, <2>2
<1>9. Tail(a \o b) = Tail(a) \o b
  BY <1>2, <1>6, <1>7, <1>8, SeqEqual
<1> QED BY <1>1, <1>3, <1>4, <1>9

\* What a sequence has it still has, and in the same order, with one more element.
LEMMA HasAppend ==
    ASSUME NEW S, NEW s \in Seq(S), NEW e \in S
    PROVE  /\ Has(Append(s, e), e)
           /\ \A d : Has(s, d) => Has(Append(s, e), d) /\ HasBefore(Append(s, e), d, e)
           /\ \A d, f : HasBefore(s, d, f) => HasBefore(Append(s, e), d, f)
<1>1. /\ Len(s) \in Nat /\ Len(Append(s, e)) = Len(s) + 1
      /\ Append(s, e)[Len(s) + 1] = e
      /\ \A m \in 1 .. Len(s) : Append(s, e)[m] = s[m]
  BY AppendProperties, LenProperties
<1>2. Has(Append(s, e), e) BY <1>1 DEF Has
<1>3. ASSUME NEW d, Has(s, d)
      PROVE  Has(Append(s, e), d) /\ HasBefore(Append(s, e), d, e)
  <2>1. PICK m \in 1 .. Len(s) : s[m] = d BY <1>3 DEF Has
  <2>2. Append(s, e)[m] = d /\ m < Len(s) + 1 BY <1>1, <2>1
  <2> QED BY <1>1, <2>2 DEF Has, HasBefore
<1>4. ASSUME NEW d, NEW f, HasBefore(s, d, f)
      PROVE  HasBefore(Append(s, e), d, f)
  <2>1. PICK m \in 1 .. Len(s), n \in 1 .. Len(s) : m < n /\ s[m] = d /\ s[n] = f
    BY <1>4 DEF HasBefore
  <2>2. Append(s, e)[m] = d /\ Append(s, e)[n] = f BY <1>1, <2>1
  <2> QED BY <1>1, <2>1, <2>2 DEF HasBefore
<1> QED BY <1>2, <1>3, <1>4

\* What a sequence has is its first element or behind it.
LEMMA HasTail ==
    ASSUME NEW S, NEW s \in Seq(S), s # <<>>
    PROVE  /\ \A d : Has(s, d) => Head(s) = d \/ Has(Tail(s), d)
           /\ \A d, f : HasBefore(s, d, f)
                 => \/ Head(s) = d /\ Has(Tail(s), f)
                    \/ HasBefore(Tail(s), d, f)
<1>1. /\ Len(s) \in Nat /\ Len(Tail(s)) = Len(s) - 1
      /\ \A m \in 2 .. Len(s) : m - 1 \in 1 .. Len(s) - 1 /\ Tail(s)[m - 1] = s[m]
      /\ Head(s) = s[1]
  BY LenProperties, HeadTailProperties
<1>2. ASSUME NEW d, Has(s, d) PROVE Head(s) = d \/ Has(Tail(s), d)
  <2>1. PICK m \in 1 .. Len(s) : s[m] = d BY <1>2 DEF Has
  <2>2. m = 1 \/ m \in 2 .. Len(s) BY <1>1
  <2> QED BY <1>1, <2>1, <2>2 DEF Has
<1>3. ASSUME NEW d, NEW f, HasBefore(s, d, f)
      PROVE  \/ Head(s) = d /\ Has(Tail(s), f)
             \/ HasBefore(Tail(s), d, f)
  <2>1. PICK m \in 1 .. Len(s), n \in 1 .. Len(s) : m < n /\ s[m] = d /\ s[n] = f
    BY <1>3 DEF HasBefore
  <2>2. n \in 2 .. Len(s) /\ (m = 1 \/ m \in 2 .. Len(s)) BY <1>1, <2>1
  <2>3. CASE m = 1 BY <1>1, <2>1, <2>2, <2>3 DEF Has
  <2>4. CASE m \in 2 .. Len(s)
    <3>1. m - 1 < n - 1 BY <1>1, <2>1
    <3> QED BY <1>1, <2>1, <2>2, <2>4, <3>1 DEF HasBefore
  <2> QED BY <2>2, <2>3, <2>4
<1> QED BY <1>2, <1>3
----------------------------------------------------------------------------
(* The steps *)

LEMMA Owners ==
    /\ NLoops \in Nat \ {0} /\ MaxConns \in Nat
    /\ 0 \in Loops
    /\ \A c \in Conns : Owner(c) \in Loops
<1>1. NLoops \in Nat \ {0} /\ MaxConns \in Nat BY LoopsAssumption
<1>2. ASSUME NEW c \in Conns PROVE Owner(c) \in Loops
  <2>1. c - 1 \in Nat BY <1>1 DEF Conns
  <2> QED BY <1>1, <2>1 DEF Owner, Loops
<1> QED BY <1>1, <1>2 DEF Loops

\* The next of the loops, or after the last one the first.
LEMMA NextLoop ==
    ASSUME next \in Loops, next' = (next + 1) % NLoops
    PROVE  /\ next' \in Loops
           /\ next = NLoops - 1 => next' = 0
           /\ next # NLoops - 1 => next' = next + 1
<1>1. NLoops \in Nat \ {0} BY Owners
<1>2. next \in Nat /\ next <= NLoops - 1 BY <1>1 DEF Loops
<1>3. CASE next = NLoops - 1
  <2>1. next + 1 = NLoops BY <1>1, <1>3
  <2>2. NLoops % NLoops = 0 BY <1>1
  <2> QED BY <1>1, <1>3, <2>1, <2>2 DEF Loops
<1>4. CASE next # NLoops - 1
  <2>1. next + 1 \in 0 .. NLoops - 1 BY <1>1, <1>2, <1>4
  <2>2. (next + 1) % NLoops = next + 1 BY <1>1, <2>1
  <2> QED BY <1>4, <2>1, <2>2 DEF Loops
<1> QED BY <1>3, <1>4

\* The kinds of the tasks tell them apart.
LEMMA TaskKinds ==
    /\ Notice \in Task /\ Other \in Task
    /\ Notice.kind = "notice" /\ Other.kind = "other"
    /\ \A c : Adopt(c).kind = "adopt" /\ Adopt(c).conn = c
    /\ \A c \in Conns : Adopt(c) \in Task
    /\ \A t \in Task : t.kind = "adopt" => t.conn \in Conns
BY DEF Task, Notice, Other, Adopt

\* A task posted to a loop that accepts tasks is the last of its queue.
LEMMA PostedLast ==
    ASSUME Queues, NEW k, NEW t \in Task, RunInSub(k, t), UNCHANGED locals
    PROVE  /\ Queues'
           /\ \A i \in Loops : ~running[i] => pending'[i] = pending[i]
           /\ \A i \in Loops : IF i = k /\ running[i]
                               THEN Queue(i)' = Append(Queue(i), t)
                               ELSE Queue(i)' = Queue(i)
<1>1. ASSUME NEW i \in Loops
      PROVE  pending'[i] = IF i = k /\ running[i] THEN Append(pending[i], t)
                           ELSE pending[i]
  BY DEF RunInSub, Queues
<1>2. Queues'
  <2>1. CASE running[k] /\ k \in Loops
    <3>1. Append(pending[k], t) \in Seq(Task) BY <2>1 DEF Queues
    <3>2. pending' = [pending EXCEPT ![k] = Append(@, t)] BY <2>1 DEF RunInSub
    <3> QED BY <3>1, <3>2 DEF Queues
  <2>2. CASE ~running[k] BY <2>2 DEF RunInSub, Queues
  <2>3. CASE k \notin Loops
    <3>1. [pending EXCEPT ![k] = Append(@, t)] = pending BY <2>3 DEF Queues
    <3> QED BY <3>1 DEF RunInSub, Queues
  <2> QED BY <2>1, <2>2, <2>3
<1>3. ASSUME NEW i \in Loops
      PROVE  IF i = k /\ running[i] THEN Queue(i)' = Append(Queue(i), t)
             ELSE Queue(i)' = Queue(i)
  <2>1. locals[i] \in Seq(Task) /\ pending[i] \in Seq(Task) BY DEF Queues
  <2>2. \A a \in Seq(Task), b \in Seq(Task) : a \o Append(b, t) = Append(a \o b, t)
    BY AppendToSecond
  <2>3. locals[i] \o Append(pending[i], t) = Append(locals[i] \o pending[i], t)
    BY <2>1, <2>2
  <2> QED BY <1>1, <2>3 DEF Queue
<1> QED BY <1>1, <1>2, <1>3

\* What any step does to the queue and the connections of loop i: a connection
\* that leaves it is closed, and a task taken from it has its effect.
LoopStep(i) ==
    /\ closed \subseteq closed' /\ noticed \subseteq noticed'
    /\ conns[i] \subseteq closed' \union conns'[i]
    /\ \/ Queue(i)' = Queue(i)
       \/ \E t \in Task : Queue(i)' = Append(Queue(i), t)
       \/ /\ Queue(i) # <<>> /\ Queue(i)' = Tail(Queue(i))
          /\ \A c : Head(Queue(i)) = Adopt(c) => c \in conns'[i]
          /\ Head(Queue(i)) = Notice => conns[i] \subseteq closed' \union noticed'

LEMMA QueueOfSwap ==
    ASSUME Queues, Threads, NEW k \in Loops, Swap(k)
    PROVE  Queues' /\ \A i \in Loops : Queue(i)' = Queue(i)
<1>1. locals[k] = <<>> BY DEF Threads, Swap
<1>2. /\ locals' = [locals EXCEPT ![k] = pending[k]]
      /\ pending' = [pending EXCEPT ![k] = <<>>]
  BY DEF Swap
<1>3. <<>> \in Seq(Task) OBVIOUS
<1>4. Queues' BY <1>2, <1>3 DEF Queues
<1>5. ASSUME NEW i \in Loops PROVE Queue(i)' = Queue(i)
  <2>1. CASE i = k
    <3>1. pending[k] \in Seq(Task) BY DEF Queues
    <3>2. locals'[k] = pending[k] /\ pending'[k] = <<>> BY <1>2 DEF Queues
    <3>3. pending[k] \o <<>> = pending[k] /\ <<>> \o pending[k] = pending[k]
      BY <3>1, ConcatEmptySeq
    <3> QED BY <1>1, <2>1, <3>2, <3>3 DEF Queue
  <2>2. CASE i # k
    BY <1>2, <2>2 DEF Queue, Queues
  <2> QED BY <2>1, <2>2
<1> QED BY <1>4, <1>5

LEMMA QueueOfRunOne ==
    ASSUME Queues, NEW k \in Loops, RunOne(k)
    PROVE  /\ Queues'
           /\ Head(locals[k]) \in Task
           /\ Queue(k) # <<>> /\ Queue(k)' = Tail(Queue(k))
           /\ Head(Queue(k)) = Head(locals[k])
           /\ \A i \in Loops : i # k => Queue(i)' = Queue(i)
<1>1. locals[k] # <<>> /\ locals' = [locals EXCEPT ![k] = Tail(@)] /\ pending' = pending
  BY DEF RunOne
<1>2. locals[k] \in Seq(Task) /\ pending[k] \in Seq(Task) BY DEF Queues
<1>3. Head(locals[k]) \in Task /\ Tail(locals[k]) \in Seq(Task)
  BY <1>1, <1>2, HeadTailProperties
<1>4. Queues' BY <1>1, <1>3 DEF Queues
<1>5. locals'[k] = Tail(locals[k]) BY <1>1 DEF Queues
<1>6. Queue(k) # <<>> /\ Queue(k)' = Tail(Queue(k)) /\ Head(Queue(k)) = Head(locals[k])
  <2>1. \A a \in Seq(Task), b \in Seq(Task) :
           a # <<>> => /\ a \o b # <<>> /\ Head(a \o b) = Head(a)
                       /\ Tail(a \o b) = Tail(a) \o b
    BY FirstOfTwo
  <2>2. PICK a \in Seq(Task), b \in Seq(Task) : a = locals[k] /\ b = pending[k]
    BY <1>1 DEF Queues
  <2>3. /\ a \o b # <<>> /\ Head(a \o b) = Head(a)
        /\ Tail(a \o b) = Tail(a) \o b
    BY <1>1, <2>1, <2>2
  <2>4. Queue(k) = a \o b BY <2>2 DEF Queue
  <2>5. Queue(k)' = Tail(a) \o b BY <1>1, <1>5, <2>2 DEF Queue
  <2> QED BY <2>2, <2>3, <2>4, <2>5
<1>7. ASSUME NEW i \in Loops, i # k PROVE Queue(i)' = Queue(i)
  BY <1>1, <1>7 DEF Queue, Queues
<1> QED BY <1>3, <1>4, <1>6, <1>7

LEMMA LoopSteps ==
    ASSUME TypeOK, Queues, Threads, [Next]_vars
    PROVE  Queues' /\ \A i \in Loops : LoopStep(i)
<1>a. ASSUME UNCHANGED <<locals, pending, conns, closed, noticed>>
      PROVE  Queues' /\ \A i \in Loops : LoopStep(i)
  BY <1>a DEF Queues, LoopStep, Queue
<1>b. ASSUME Queues', \A i \in Loops : \/ Queue(i)' = Queue(i)
                                       \/ \E t \in Task : Queue(i)' = Append(Queue(i), t),
             UNCHANGED <<conns, closed, noticed>>
      PROVE  Queues' /\ \A i \in Loops : LoopStep(i)
  BY <1>b DEF LoopStep
<1>c. ASSUME UNCHANGED <<locals, pending>>, UNCHANGED noticed,
             NEW k \in Loops, NEW S \in SUBSET conns[k],
             conns' = [conns EXCEPT ![k] = @ \ S], closed' = closed \union S
      PROVE  Queues' /\ \A i \in Loops : LoopStep(i)
  <2>1. Queues' BY <1>c DEF Queues
  <2>2. \A i \in Loops : conns'[i] = IF i = k THEN conns[i] \ S ELSE conns[i]
    BY <1>c DEF TypeOK
  <2>3. \A i \in Loops : conns[i] \subseteq closed' \union conns'[i]
    BY <1>c, <2>2
  <2>4. \A i \in Loops : Queue(i)' = Queue(i) BY <1>c DEF Queue
  <2> QED BY <1>c, <2>1, <2>3, <2>4 DEF LoopStep
<1>1. CASE OnSigint \/ OnWakeup \/ LoopReturns \/ QuitSub \/ WakeSub \/ JoinSub
  BY <1>a, <1>1 DEF OnSigint, OnWakeup, LoopReturns, QuitSub, WakeSub, JoinSub,
                    connVars, loopVars
<1>2. CASE OnAccept
  <2>1. accepts + 1 \in Conns BY <1>2, Owners DEF OnAccept, TypeOK, Conns
  <2>2. Adopt(accepts + 1) \in Task BY <2>1, TaskKinds
  <2> QED BY <1>2, <1>b, <2>2, PostedLast DEF OnAccept, loopVars, connVars
<1>3. CASE Notify
  BY <1>3, <1>b, TaskKinds, PostedLast DEF Notify, loopVars, connVars
<1>4. CASE CleanUp
  <2>1. next \in Loops BY DEF TypeOK
  <2>2. conns' = [conns EXCEPT ![next] = @ \ conns[next]]
    BY <1>4 DEF CleanUp, TypeOK
  <2>3. PICK k \in Loops : k = next BY <2>1
  <2>4. PICK S : S = conns[k] OBVIOUS
  <2> QED BY <1>4, <1>c, <2>2, <2>3, <2>4 DEF CleanUp, loopVars
<1>5. ASSUME NEW k \in Loops, LoopActs(k)
      PROVE  Queues' /\ \A i \in Loops : LoopStep(i)
  <2>1. CASE Poll(k) \/ SafePoint(k) \/ CheckRunning(k) \/ Return(k) \/ EventSays(k)
    BY <1>a, <2>1 DEF Poll, SafePoint, CheckRunning, Return, EventSays, connVars, loopVars
  <2>2. CASE Swap(k)
    BY <1>b, <2>2, QueueOfSwap DEF Swap, connVars
  <2>3. CASE OnIdleTick(k)
    BY <1>b, <2>3, TaskKinds, PostedLast DEF OnIdleTick, loopVars, connVars
  <2>6. CASE PostOne(k)
    <3>1. CASE Head(posts[k]) = k
      <4>1. PICK S \in SUBSET conns[k] : CloseConns(k, S)
        BY <2>6, <3>1 DEF PostOne
      <4> QED BY <1>c, <2>6, <3>1, <4>1 DEF PostOne, CloseConns, loopVars
    <3>2. CASE Head(posts[k]) # k
      BY <1>b, <2>6, <3>2, TaskKinds, PostedLast DEF PostOne, loopVars, connVars
    <3> QED BY <3>1, <3>2
  <2>4. CASE EventCloses(k)
    <3>1. PICK c \in conns[k] : CloseConns(k, {c}) BY <2>4 DEF EventCloses
    <3>2. {c} \in SUBSET conns[k] BY <3>1
    <3> QED BY <1>c, <2>4, <3>1, <3>2 DEF EventCloses, CloseConns, loopVars
  <2>5. CASE RunOne(k)
    <3> DEFINE t == Head(locals[k])
    <3>1. /\ Queues' /\ t \in Task
          /\ Queue(k) # <<>> /\ Queue(k)' = Tail(Queue(k)) /\ Head(Queue(k)) = t
          /\ \A i \in Loops : i # k => Queue(i)' = Queue(i)
      BY <2>5, QueueOfRunOne
    <3>2. CASE t.kind = "adopt"
      <4>1. /\ conns' = [conns EXCEPT ![k] = @ \union {t.conn}]
            /\ UNCHANGED <<closed, noticed>>
        BY <2>5, <3>2 DEF RunOne
      <4>2. \A i \in Loops : conns'[i] = IF i = k THEN conns[i] \union {t.conn}
                                         ELSE conns[i]
        BY <4>1 DEF TypeOK
      <4>3. \A i \in Loops : conns[i] \subseteq conns'[i] BY <4>2
      <4>4. \A c : t = Adopt(c) => c \in conns'[k]
        <5> SUFFICES ASSUME NEW c, t = Adopt(c) PROVE c \in conns'[k]
          OBVIOUS
        <5>1. t.conn = c BY TaskKinds
        <5> QED BY <4>2, <5>1
      <4>5. t # Notice BY <3>2, TaskKinds
      <4>6. LoopStep(k) BY <3>1, <4>1, <4>3, <4>4, <4>5 DEF LoopStep
      <4>7. \A i \in Loops : i # k => LoopStep(i)
        BY <3>1, <4>1, <4>3 DEF LoopStep
      <4> QED BY <3>1, <4>6, <4>7
    <3>3. CASE t.kind # "adopt"
      <4>1. PICK S \in SUBSET conns[k] :
              /\ CloseConns(k, S)
              /\ noticed' = IF t.kind = "notice"
                            THEN noticed \union (conns[k] \ S) ELSE noticed
        BY <2>5, <3>3 DEF RunOne
      <4>2. closed' = closed \union S /\ conns' = [conns EXCEPT ![k] = @ \ S]
        BY <4>1 DEF CloseConns
      <4>3. \A i \in Loops : conns'[i] = IF i = k THEN conns[i] \ S ELSE conns[i]
        BY <4>2 DEF TypeOK
      <4>4. \A i \in Loops : conns[i] \subseteq closed' \union conns'[i]
        BY <4>2, <4>3
      <4>5. closed \subseteq closed' /\ noticed \subseteq noticed'
        BY <4>1, <4>2
      <4>6. \A c : t # Adopt(c) BY <3>3, TaskKinds
      <4>7. t = Notice => conns[k] \subseteq closed' \union noticed'
        BY <4>1, <4>2, TaskKinds
      <4>8. LoopStep(k) BY <3>1, <4>4, <4>5, <4>6, <4>7 DEF LoopStep
      <4>9. \A i \in Loops : i # k => LoopStep(i)
        BY <3>1, <4>4, <4>5 DEF LoopStep
      <4> QED BY <3>1, <4>8, <4>9
    <3> QED BY <3>2, <3>3
  <2> QED BY <1>5, <2>1, <2>2, <2>3, <2>4, <2>5, <2>6 DEF LoopActs, SubThread
<1>6. CASE UNCHANGED vars
  BY <1>a, <1>6 DEF vars, connVars, loopVars
<1> QED BY <1>1, <1>2, <1>3, <1>4, <1>5, <1>6 DEF Next, MainThread, LoopActs
----------------------------------------------------------------------------
(* The invariant *)

LEMMA InitInv == Init => IInv
<1> SUFFICES ASSUME Init PROVE IInv
  OBVIOUS
<1>1. TypeOK BY Owners DEF Init, TypeOK
<1>2. Queues
  <2>1. <<>> \in Seq(Task) OBVIOUS
  <2> QED BY <2>1 DEF Init, Queues
<1>3. Stages /\ Threads BY DEF Init, Stages, Threads
<1>4. Located /\ NoticeAhead BY DEF Init, Located, NoticeAhead
<1> QED BY <1>1, <1>2, <1>3, <1>4 DEF IInv

\* The stage of the main thread changes in its own steps only.
LEMMA MainKeeps ==
    ASSUME [Next]_vars, ~MainThread
    PROVE  UNCHANGED <<mpc, next>>
<1>1. ASSUME NEW k \in Loops, LoopActs(k)
      PROVE  UNCHANGED <<mpc, next>>
  BY <1>1 DEF LoopActs, SubThread, Poll, Swap, RunOne, SafePoint, PostOne, CheckRunning,
              Return, EventCloses, EventSays, OnIdleTick, mainVars
<1>2. CASE OnSigint \/ OnAccept
  BY <1>2 DEF OnSigint, OnAccept, mainVars
<1>3. CASE UNCHANGED vars BY <1>3 DEF vars, mainVars
<1> QED BY <1>1, <1>2, <1>3 DEF Next, LoopActs

LEMMA TypeInv == ASSUME IInv, [Next]_vars PROVE TypeOK'
<1> USE DEF IInv
<1>1. CASE OnSigint BY <1>1 DEF OnSigint, TypeOK, acceptVars, loopVars, connVars
<1>2. CASE OnAccept
  <2>1. accepts + 1 \in Conns /\ accepts + 1 \in 0 .. MaxConns
    BY <1>2, Owners DEF OnAccept, TypeOK, Conns
  <2> QED BY <1>2, <2>1 DEF OnAccept, TypeOK, mainVars, loopVars, connVars
<1>3. CASE OnWakeup BY <1>3 DEF OnWakeup, TypeOK, acceptVars, loopVars, connVars
<1>4. CASE LoopReturns BY <1>4 DEF LoopReturns, TypeOK, acceptVars, loopVars, connVars
<1>5. CASE Notify
  <2>1. next' \in Loops BY <1>5, NextLoop DEF Notify, ThroughLoops, TypeOK
  <2> QED BY <1>5, <2>1 DEF Notify, ThroughLoops, TypeOK, acceptVars, loopVars, connVars
<1>6. CASE QuitSub BY <1>6 DEF QuitSub, TypeOK, acceptVars, loopVars, connVars
<1>11. CASE WakeSub
  <2>1. next' \in Loops BY <1>11, NextLoop DEF WakeSub, ThroughLoops, TypeOK
  <2> QED BY <1>11, <2>1 DEF WakeSub, ThroughLoops, TypeOK, acceptVars, loopVars, connVars
<1>7. CASE JoinSub
  <2>1. next' \in Loops BY <1>7, NextLoop DEF JoinSub, ThroughLoops, TypeOK
  <2> QED BY <1>7, <2>1 DEF JoinSub, ThroughLoops, TypeOK, acceptVars, loopVars, connVars
<1>8. CASE CleanUp
  <2>1. next' \in Loops BY <1>8, NextLoop DEF CleanUp, ThroughLoops, TypeOK
  <2>2. closed' \subseteq Conns
    <3>1. conns[next] \subseteq Conns BY DEF TypeOK
    <3> QED BY <1>8, <3>1 DEF CleanUp, TypeOK
  <2>3. conns' \in [Loops -> SUBSET Conns] BY <1>8 DEF CleanUp, TypeOK
  <2> QED BY <1>8, <2>1, <2>2, <2>3 DEF CleanUp, ThroughLoops, TypeOK, acceptVars, loopVars
<1>9. ASSUME NEW k \in Loops, LoopActs(k)
      PROVE  TypeOK'
  <2>a. ASSUME NEW S \in SUBSET conns[k], CloseConns(k, S)
        PROVE  /\ conns' \in [Loops -> SUBSET Conns]
               /\ dirty' \in [Loops -> BOOLEAN]
               /\ closed' \subseteq Conns
    <3>1. S \subseteq Conns BY DEF TypeOK
    <3>2. conns' \in [Loops -> SUBSET Conns] BY <2>a DEF CloseConns, TypeOK
    <3>3. closed' \subseteq Conns BY <2>a, <3>1 DEF CloseConns, TypeOK
    <3>4. PICK b \in BOOLEAN : dirty' = [dirty EXCEPT ![k] = @ \/ (b /\ S # {})]
      BY <2>a DEF CloseConns
    <3>5. dirty' \in [Loops -> BOOLEAN] BY <3>4 DEF TypeOK
    <3> QED BY <3>2, <3>3, <3>5
  <2>1. CASE Poll(k) BY <2>1 DEF Poll, TypeOK, mainVars, acceptVars, connVars
  <2>2. CASE Swap(k) BY <2>2 DEF Swap, TypeOK, mainVars, acceptVars, connVars
  <2>3. CASE SafePoint(k) BY <2>3 DEF SafePoint, TypeOK, mainVars, acceptVars
  <2>4. CASE PostOne(k)
    <3>1. CASE Head(posts[k]) = k
      <4>1. PICK S \in SUBSET conns[k] : CloseConns(k, S)
        BY <2>4, <3>1 DEF PostOne
      <4> QED BY <2>a, <2>4, <4>1 DEF PostOne, TypeOK, mainVars, acceptVars, loopVars
    <3>2. CASE Head(posts[k]) # k
      BY <2>4, <3>2 DEF PostOne, TypeOK, mainVars, acceptVars, loopVars, connVars
    <3> QED BY <3>1, <3>2
  <2>9. CASE OnIdleTick(k)
    BY <2>9 DEF OnIdleTick, TypeOK, mainVars, acceptVars, loopVars, connVars
  <2>10. CASE EventSays(k)
    BY <2>10 DEF EventSays, TypeOK, mainVars, acceptVars, loopVars, connVars
  <2>5. CASE CheckRunning(k) BY <2>5 DEF CheckRunning, TypeOK, mainVars, acceptVars, connVars
  <2>6. CASE Return(k) BY <2>6 DEF Return, TypeOK, mainVars, acceptVars, connVars
  <2>7. CASE EventCloses(k)
    <3>1. PICK c \in conns[k] : CloseConns(k, {c}) BY <2>7 DEF EventCloses
    <3>2. {c} \in SUBSET conns[k] BY <3>1
    <3> QED BY <2>a, <2>7, <3>1, <3>2 DEF EventCloses, TypeOK, mainVars, acceptVars, loopVars
  <2>8. CASE RunOne(k)
    <3> DEFINE t == Head(locals[k])
    <3>1. t \in Task BY <2>8, QueueOfRunOne
    <3>2. CASE t.kind = "adopt"
      <4>1. t.conn \in Conns BY <3>1, <3>2, TaskKinds
      <4>2. /\ conns' = [conns EXCEPT ![k] = @ \union {t.conn}]
            /\ UNCHANGED <<dirty, closed, noticed>>
        BY <2>8, <3>2 DEF RunOne
      <4>3. conns' \in [Loops -> SUBSET Conns] BY <4>1, <4>2 DEF TypeOK
      <4> QED BY <2>8, <4>2, <4>3 DEF RunOne, TypeOK, mainVars, acceptVars
    <3>3. CASE t.kind # "adopt"
      <4>1. PICK S \in SUBSET conns[k] :
              /\ CloseConns(k, S)
              /\ noticed' = IF t.kind = "notice"
                            THEN noticed \union (conns[k] \ S) ELSE noticed
        BY <2>8, <3>3 DEF RunOne
      <4>2. conns[k] \subseteq Conns BY DEF TypeOK
      <4>3. noticed' \subseteq Conns BY <4>1, <4>2 DEF TypeOK
      <4> QED BY <2>a, <2>8, <4>1, <4>3 DEF RunOne, TypeOK, mainVars, acceptVars
    <3> QED BY <3>2, <3>3
  <2> QED BY <1>9, <2>1, <2>2, <2>3, <2>4, <2>5, <2>6, <2>7, <2>8, <2>9, <2>10
          DEF LoopActs, SubThread
<1>10. CASE UNCHANGED vars
  BY <1>10 DEF vars, mainVars, acceptVars, loopVars, connVars, TypeOK
<1> QED BY <1>1, <1>2, <1>3, <1>4, <1>5, <1>6, <1>7, <1>8, <1>9, <1>10, <1>11
        DEF Next, MainThread, LoopActs
\* Sub threads that are gone stay so, and have no connections to gain.
LEMMA GoneStays ==
    ASSUME IInv, [Next]_vars, NEW i \in Loops, tpc[i] = "gone"
    PROVE  tpc'[i] = "gone" /\ (conns[i] = {} => conns'[i] = {})
<1> USE DEF IInv
<1>1. ASSUME NEW k \in Loops, LoopActs(k)
      PROVE  tpc'[i] = "gone" /\ (conns[i] = {} => conns'[i] = {})
  <2>1. CASE Poll(k) \/ Swap(k) \/ SafePoint(k) \/ CheckRunning(k) \/ Return(k)
    BY <2>1 DEF Poll, Swap, SafePoint, CheckRunning, Return, TypeOK, connVars
  <2>2. CASE OnIdleTick(k) \/ EventSays(k)
    BY <2>2 DEF OnIdleTick, EventSays, loopVars, connVars
  <2>5. CASE PostOne(k)
    <3>1. CASE Head(posts[k]) = k
      BY <2>5, <3>1 DEF PostOne, CloseConns, TypeOK, loopVars
    <3>2. CASE Head(posts[k]) # k
      BY <2>5, <3>2 DEF PostOne, loopVars, connVars
    <3> QED BY <3>1, <3>2
  <2>3. CASE RunOne(k)
    <3>1. i # k /\ tpc' = tpc BY <2>3 DEF RunOne
    <3>2. CASE Head(locals[k]).kind = "adopt"
      BY <2>3, <3>1, <3>2 DEF RunOne, TypeOK
    <3>3. CASE Head(locals[k]).kind # "adopt"
      BY <2>3, <3>1, <3>3 DEF RunOne, CloseConns, TypeOK
    <3> QED BY <3>2, <3>3
  <2>4. CASE EventCloses(k) BY <2>4 DEF EventCloses, CloseConns, TypeOK, loopVars
  <2> QED BY <1>1, <2>1, <2>2, <2>3, <2>4, <2>5 DEF LoopActs, SubThread
<1>2. CASE CleanUp BY <1>2 DEF CleanUp, TypeOK, loopVars
<1>3. CASE OnSigint \/ OnAccept \/ OnWakeup \/ Notify \/ LoopReturns \/ QuitSub \/ WakeSub \/ JoinSub
  BY <1>3 DEF OnSigint, OnAccept, OnWakeup, Notify, LoopReturns, QuitSub, WakeSub, JoinSub,
              loopVars, connVars
<1>4. CASE UNCHANGED vars BY <1>4 DEF vars, loopVars, connVars
<1> QED BY <1>1, <1>2, <1>3, <1>4 DEF Next, MainThread, LoopActs

\* Only the main thread, in its stage "quit", tells a loop to quit.
LEMMA RunningKept ==
    ASSUME [Next]_vars, ~QuitSub
    PROVE  UNCHANGED running
<1>1. ASSUME NEW k \in Loops, LoopActs(k)
      PROVE  UNCHANGED running
  BY <1>1 DEF LoopActs, SubThread, Poll, Swap, RunOne, SafePoint, PostOne, CheckRunning,
              Return, EventCloses, EventSays, OnIdleTick
<1>2. CASE OnSigint \/ OnAccept \/ OnWakeup \/ Notify \/ LoopReturns \/ WakeSub
        \/ JoinSub \/ CleanUp
  BY <1>2 DEF OnSigint, OnAccept, OnWakeup, Notify, LoopReturns, WakeSub, JoinSub,
              CleanUp
<1>3. CASE UNCHANGED vars BY <1>3 DEF vars
<1> QED BY <1>1, <1>2, <1>3 DEF Next, MainThread, LoopActs

LEMMA StagesInv == ASSUME IInv, [Next]_vars PROVE Stages'
<1>1. \A i \in Loops : tpc[i] = "gone" =>
          tpc'[i] = "gone" /\ (conns[i] = {} => conns'[i] = {})
  BY GoneStays
<1>2. TypeOK /\ Stages BY DEF IInv
<1>3. next \in Loops /\ NLoops \in Nat \ {0} BY <1>2, Owners DEF TypeOK
<1>4. CASE ~MainThread
  <2>1. UNCHANGED <<mpc, next>> BY <1>4, MainKeeps
  <2>2. UNCHANGED running BY <1>4, RunningKept DEF MainThread
  <2> QED BY <1>1, <1>2, <2>1, <2>2 DEF Stages
<1>5. CASE OnWakeup \/ LoopReturns
  BY <1>2, <1>5 DEF OnWakeup, LoopReturns, Stages
<1>6. CASE Notify
  BY <1>2, <1>6 DEF Notify, ThroughLoops, Stages
<1>7. CASE QuitSub
  <2>1. mpc' = "wake" BY <1>7 DEF QuitSub
  <2> QED BY <2>1 DEF Stages
<1>10. CASE WakeSub
  <2>1. mpc' \in {"quit", "join"} /\ (mpc' = "join" => next' = 0)
    BY <1>3, <1>10, NextLoop DEF WakeSub, ThroughLoops
  <2> QED BY <2>1 DEF Stages, Loops
<1>8. CASE JoinSub
  <2>1. /\ mpc = "join" /\ tpc' = tpc /\ tpc[next] = "gone"
        /\ IF next = NLoops - 1 THEN mpc' = "clean" /\ next' = 0
           ELSE mpc' = "join" /\ next' = next + 1
    BY <1>3, <1>8, NextLoop DEF JoinSub, ThroughLoops, loopVars
  <2>2. \A i \in Loops : i < next' => (next # NLoops - 1 => i < next \/ i = next)
    BY <1>3, <2>1 DEF Loops
  <2>3. \A i \in Loops : next = NLoops - 1 => i < next \/ i = next
    BY <1>3 DEF Loops
  <2>4. \A i \in Loops : i < next => tpc[i] = "gone" BY <1>2, <2>1 DEF Stages
  <2>5. mpc' = "clean" => \A i \in Loops : ~(i < next')
    BY <1>3, <2>1 DEF Loops
  <2> QED BY <2>1, <2>2, <2>3, <2>4, <2>5 DEF Stages
<1>9. CASE CleanUp
  <2>1. /\ mpc = "clean" /\ tpc' = tpc
        /\ conns' = [conns EXCEPT ![next] = {}]
        /\ IF next = NLoops - 1 THEN mpc' = "done" /\ next' = 0
           ELSE mpc' = "clean" /\ next' = next + 1
    BY <1>3, <1>9, NextLoop DEF CleanUp, ThroughLoops, loopVars
  <2>2. \A i \in Loops : i < next' => (next # NLoops - 1 => i < next \/ i = next)
    BY <1>3, <2>1 DEF Loops
  <2>3. \A i \in Loops : next = NLoops - 1 => i < next \/ i = next
    BY <1>3 DEF Loops
  <2>4. \A i \in Loops : i < next => conns[i] = {} BY <1>2, <2>1 DEF Stages
  <2>5. \A i \in Loops : i < next \/ i = next => conns'[i] = {}
    BY <1>2, <2>1, <2>4 DEF TypeOK
  <2>6. \A i \in Loops : tpc'[i] = "gone" BY <1>2, <2>1 DEF Stages
  <2> QED BY <2>1, <2>2, <2>3, <2>5, <2>6 DEF Stages
<1> QED BY <1>4, <1>5, <1>6, <1>7, <1>8, <1>9, <1>10 DEF MainThread

LEMMA ThreadsInv == ASSUME IInv, [Next]_vars PROVE Threads'
<1> USE DEF IInv
<1>1. CASE OnSigint \/ OnWakeup \/ LoopReturns \/ WakeSub \/ JoinSub \/ CleanUp
  BY <1>1 DEF OnSigint, OnWakeup, LoopReturns, WakeSub, JoinSub, CleanUp, Threads,
              loopVars
<1>2. CASE QuitSub
  BY <1>2 DEF QuitSub, Threads, TypeOK, loopVars
<1>a. ASSUME NEW k, NEW t \in Task, RunInSub(k, t), UNCHANGED <<running, loopVars>>
      PROVE  Threads'
  <2>1. \A i \in Loops : ~running[i] => pending'[i] = pending[i]
    BY <1>a, PostedLast DEF loopVars
  <2> QED BY <1>a, <2>1 DEF Threads, loopVars
<1>3. CASE OnAccept
  <2>1. accepts + 1 \in Conns BY <1>3, Owners DEF OnAccept, TypeOK, Conns
  <2> QED BY <1>3, <1>a, <2>1, TaskKinds DEF OnAccept
<1>4. CASE Notify BY <1>4, <1>a, TaskKinds DEF Notify
<1>5. ASSUME NEW k \in Loops, LoopActs(k) PROVE Threads'
  <2>1. CASE Poll(k) BY <2>1 DEF Poll, Threads, TypeOK
  <2>2. CASE Swap(k) BY <2>2 DEF Swap, Threads, TypeOK, Queues
  <2>3. CASE RunOne(k)
    <3>1. /\ locals' = [locals EXCEPT ![k] = Tail(@)]
          /\ UNCHANGED <<tpc, running, pending>> /\ tpc[k] \in {"tasks", "finaltasks"}
      BY <2>3 DEF RunOne
    <3> QED BY <3>1 DEF Threads, TypeOK, Queues
  <2>4. CASE SafePoint(k) BY <2>4 DEF SafePoint, Threads, TypeOK
  <2>5. CASE PostOne(k)
    <3>1. CASE Head(posts[k]) = k
      BY <2>5, <3>1 DEF PostOne, Threads, loopVars
    <3>2. CASE Head(posts[k]) # k
      BY <2>5, <3>2, <1>a, TaskKinds DEF PostOne
    <3> QED BY <3>1, <3>2
  <2>9. CASE OnIdleTick(k) BY <2>9, <1>a, TaskKinds DEF OnIdleTick
  <2>10. CASE EventSays(k) BY <2>10 DEF EventSays, Threads, loopVars
  <2>6. CASE CheckRunning(k) BY <2>6 DEF CheckRunning, Threads, TypeOK
  <2>7. CASE Return(k) BY <2>7 DEF Return, Threads, TypeOK
  <2>8. CASE EventCloses(k) BY <2>8 DEF EventCloses, Threads, loopVars
  <2> QED BY <1>5, <2>1, <2>2, <2>3, <2>4, <2>5, <2>6, <2>7, <2>8, <2>9, <2>10
          DEF LoopActs, SubThread
<1>6. CASE UNCHANGED vars BY <1>6 DEF vars, loopVars, Threads
<1> QED BY <1>1, <1>2, <1>3, <1>4, <1>5, <1>6 DEF Next, MainThread, LoopActs

\* accept() is the only step that adds a connection to those accepted, before
\* the main thread leaves its loop; what is accepted while the server serves is
\* early.
LEMMA AcceptedKept ==
    ASSUME [Next]_vars, ~OnAccept
    PROVE  UNCHANGED <<accepts, early>>
<1>1. ASSUME NEW k \in Loops, LoopActs(k)
      PROVE  UNCHANGED <<accepts, early>>
  BY <1>1 DEF LoopActs, SubThread, Poll, Swap, RunOne, SafePoint, PostOne, CheckRunning,
              Return, EventCloses, EventSays, OnIdleTick, acceptVars
<1>2. CASE OnSigint \/ MainThread
  BY <1>2 DEF MainThread, OnSigint, OnWakeup, Notify, LoopReturns, QuitSub, WakeSub, JoinSub,
              CleanUp, acceptVars
<1>3. CASE UNCHANGED vars BY <1>3 DEF vars, acceptVars
<1> QED BY <1>1, <1>2, <1>3 DEF Next, LoopActs

LEMMA LocatedInv == ASSUME IInv, [Next]_vars PROVE Located'
<1>1. TypeOK /\ Queues /\ Stages /\ Threads /\ Located BY DEF IInv
<1>2. 1 .. accepts \subseteq Conns BY <1>1, Owners DEF TypeOK, Conns
<1>3. ASSUME NEW c \in 1 .. accepts
      PROVE  c \in closed' \union conns'[Owner(c)] \/ Has(Queue(Owner(c))', Adopt(c))
  <2>1. PICK i \in Loops : i = Owner(c) BY <1>2, <1>3, Owners
  <2>2. LoopStep(i) BY <1>1, LoopSteps
  <2>3. CASE c \in closed \union conns[i]
    BY <2>1, <2>2, <2>3 DEF LoopStep
  <2>4. CASE Has(Queue(i), Adopt(c))
    <3>1. Queue(i) \in Seq(Task) BY <1>1, ConcatProperties DEF Queue, Queues
    <3>2. PICK q \in Seq(Task) : q = Queue(i) BY <3>1
    <3>3. PICK r : r = Queue(i)' OBVIOUS
    <3>4. Has(q, Adopt(c)) BY <2>4, <3>2
    <3>5. CASE r = q BY <2>1, <3>3, <3>4, <3>5
    <3>6. CASE \E t \in Task : r = Append(q, t)
      <4>1. PICK t \in Task : r = Append(q, t) BY <3>6
      <4>2. Has(r, Adopt(c)) BY <3>4, <4>1, HasAppend
      <4> QED BY <2>1, <3>3, <4>2
    <3>7. CASE q # <<>> /\ r = Tail(q) /\ \A d : Head(q) = Adopt(d) => d \in conns'[i]
      <4>1. Head(q) = Adopt(c) \/ Has(Tail(q), Adopt(c)) BY <3>4, <3>7, HasTail
      <4> QED BY <2>1, <3>3, <3>7, <4>1
    <3> QED BY <2>2, <3>2, <3>3, <3>5, <3>6, <3>7 DEF LoopStep
  <2> QED BY <1>1, <2>1, <2>3, <2>4 DEF Located
<1>4. CASE ~OnAccept
  <2>1. accepts' = accepts BY <1>4, AcceptedKept
  <2> QED BY <1>3, <2>1 DEF Located
<1>5. CASE OnAccept
  <2>1. accepts' = accepts + 1 /\ accepts + 1 \in Conns /\ accepts \in Nat
    BY <1>1, <1>5, Owners DEF OnAccept, TypeOK, Conns
  <2>2. PICK c \in Conns : c = accepts + 1 BY <2>1
  <2>3. PICK i \in Loops : i = Owner(c) BY <2>2, Owners
  <2>4. RunInSub(i, Adopt(c)) /\ locals' = locals /\ running[i]
    BY <1>1, <1>5, <2>2, <2>3 DEF OnAccept, Stages, loopVars
  <2>5. Adopt(c) \in Task BY TaskKinds
  <2>6. Queue(i)' = Append(Queue(i), Adopt(c)) BY <1>1, <2>4, <2>5, PostedLast
  <2>7. Queue(i) \in Seq(Task) BY <1>1, ConcatProperties DEF Queue, Queues
  <2>8. PICK q \in Seq(Task) : q = Queue(i) BY <2>7
  <2>9. Has(Append(q, Adopt(c)), Adopt(c)) BY <2>5, HasAppend
  <2>10. Has(Queue(Owner(c))', Adopt(c)) BY <2>3, <2>6, <2>8, <2>9
  <2>11. \A d \in 1 .. accepts' : d \in 1 .. accepts \/ d = c BY <2>1, <2>2
  <2> QED BY <1>3, <2>10, <2>11 DEF Located
<1> QED BY <1>4, <1>5
\* The notice of a loop is posted in one step of the main thread.
LEMMA PostedStep ==
    ASSUME IInv, [Next]_vars, NEW i \in Loops, Posted(i)'
    PROVE  Posted(i) \/ (Notify /\ i = next)
<1>1. TypeOK /\ Stages BY DEF IInv
<1>2. next \in Loops /\ NLoops \in Nat \ {0} BY <1>1, Owners DEF TypeOK
<1>3. CASE ~MainThread BY <1>3, MainKeeps DEF Posted
<1>4. CASE OnWakeup
  <2>1. mpc' = "notify" /\ next' = 0 BY <1>1, <1>4 DEF OnWakeup, Stages
  <2> QED BY <1>2, <2>1 DEF Posted, Loops
<1>5. CASE Notify
  <2>1. mpc = "notify" /\ IF next = NLoops - 1 THEN mpc' = "closing"
                          ELSE mpc' = "notify" /\ next' = next + 1
    BY <1>2, <1>5, NextLoop DEF Notify, ThroughLoops
  <2>2. i < next \/ i = next BY <1>2, <2>1 DEF Posted, Loops
  <2> QED BY <1>5, <2>1, <2>2 DEF Posted
<1>6. CASE LoopReturns \/ QuitSub \/ WakeSub \/ JoinSub \/ CleanUp
  BY <1>6 DEF LoopReturns, QuitSub, WakeSub, JoinSub, CleanUp, ThroughLoops, Posted
<1> QED BY <1>3, <1>4, <1>5, <1>6 DEF MainThread

\* No step of a loop breaks the promise.
LEMMA PromiseKept ==
    ASSUME TypeOK, Queues, Threads, [Next]_vars, NEW c \in Conns, Promised(c)
    PROVE  Promised(c)'
<1>1. PICK i \in Loops : i = Owner(c) BY Owners
<1>2. LoopStep(i) BY LoopSteps
<1>3. Queue(i) \in Seq(Task) BY ConcatProperties DEF Queue, Queues
<1>4. PICK q \in Seq(Task) : q = Queue(i) BY <1>3
<1>5. PICK r : r = Queue(i)' OBVIOUS
<1>6. SUFFICES \/ c \in closed' \union noticed'
               \/ c \in conns'[i] /\ Has(r, Notice)
               \/ HasBefore(r, Adopt(c), Notice)
  BY <1>1, <1>5 DEF Promised
<1>7. CASE c \in closed \union noticed BY <1>2, <1>7 DEF LoopStep
<1>8. CASE c \in conns[i] /\ Has(q, Notice)
  <2>1. c \in closed' \union conns'[i] BY <1>2, <1>8 DEF LoopStep
  <2>2. CASE r = q BY <1>8, <2>1, <2>2
  <2>3. CASE \E t \in Task : r = Append(q, t)
    <3>1. PICK t \in Task : r = Append(q, t) BY <2>3
    <3>2. Has(r, Notice) BY <1>8, <3>1, HasAppend
    <3> QED BY <2>1, <3>2
  <2>4. CASE /\ q # <<>> /\ r = Tail(q)
             /\ Head(q) = Notice => conns[i] \subseteq closed' \union noticed'
    <3>1. Head(q) = Notice \/ Has(Tail(q), Notice) BY <1>8, <2>4, HasTail
    <3> QED BY <1>8, <2>1, <2>4, <3>1
  <2> QED BY <1>2, <1>4, <1>5, <2>2, <2>3, <2>4 DEF LoopStep
<1>9. CASE HasBefore(q, Adopt(c), Notice)
  <2>2. CASE r = q BY <1>9, <2>2
  <2>3. CASE \E t \in Task : r = Append(q, t)
    <3>1. PICK t \in Task : r = Append(q, t) BY <2>3
    <3>2. HasBefore(r, Adopt(c), Notice) BY <1>9, <3>1, HasAppend
    <3> QED BY <3>2
  <2>4. CASE /\ q # <<>> /\ r = Tail(q)
             /\ \A d : Head(q) = Adopt(d) => d \in conns'[i]
    <3>1. (Head(q) = Adopt(c) /\ Has(Tail(q), Notice)) \/ HasBefore(Tail(q), Adopt(c), Notice)
      BY <1>9, <2>4, HasTail
    <3> QED BY <2>4, <3>1
  <2> QED BY <1>2, <1>4, <1>5, <2>2, <2>3, <2>4 DEF LoopStep
<1> QED BY <1>1, <1>4, <1>7, <1>8, <1>9 DEF Promised

LEMMA NoticeAheadInv == ASSUME IInv, [Next]_vars PROVE NoticeAhead'
<1>1. TypeOK /\ Queues /\ Stages /\ Threads /\ Located /\ NoticeAhead BY DEF IInv
<1>2. 1 .. accepts \subseteq Conns /\ accepts \in Nat /\ early \subseteq 1 .. accepts
  BY <1>1, Owners DEF TypeOK, Conns, NoticeAhead
<1>3. CASE OnAccept
  <2>1. /\ accepts' = accepts + 1
        /\ early' = IF mpc = "serving" THEN early \union {accepts + 1} ELSE early
        /\ UNCHANGED <<mpc, next>>
    BY <1>3 DEF OnAccept, mainVars
  <2>2. early' \subseteq 1 .. accepts' BY <1>2, <2>1
  <2>3. ASSUME NEW c \in early', Posted(Owner(c))' PROVE Promised(c)'
    <3>1. mpc # "serving" /\ Posted(Owner(c)) BY <2>1, <2>3 DEF Posted
    <3>2. c \in early /\ c \in Conns BY <1>2, <2>1, <2>3, <3>1
    <3>3. Promised(c) BY <1>1, <3>1, <3>2 DEF NoticeAhead
    <3> QED BY <1>1, <3>2, <3>3, PromiseKept
  <2> QED BY <2>2, <2>3 DEF NoticeAhead
<1>4. CASE ~OnAccept
  <2>1. accepts' = accepts /\ early' = early BY <1>4, AcceptedKept
  <2>2. ASSUME NEW c \in early, Posted(Owner(c))' PROVE Promised(c)'
    <3>1. c \in Conns /\ c \in 1 .. accepts BY <1>2, <2>2
    <3>2. PICK i \in Loops : i = Owner(c) BY <3>1, Owners
    <3>3. CASE Posted(i)
      <4>1. Promised(c) BY <1>1, <2>2, <3>2, <3>3 DEF NoticeAhead
      <4> QED BY <1>1, <3>1, <4>1, PromiseKept
    <3>4. CASE Notify /\ i = next
      <4>1. /\ RunInSub(i, Notice) /\ locals' = locals /\ running[i]
            /\ UNCHANGED <<conns, closed, noticed>>
        BY <1>1, <3>4 DEF Notify, ThroughLoops, Stages, loopVars, connVars
      <4>2. Queue(i)' = Append(Queue(i), Notice)
        BY <1>1, <4>1, TaskKinds, PostedLast
      <4>3. Queue(i) \in Seq(Task) BY <1>1, ConcatProperties DEF Queue, Queues
      <4>4. PICK q \in Seq(Task) : q = Queue(i) BY <4>3
      <4>5. /\ Has(Append(q, Notice), Notice)
            /\ Has(q, Adopt(c)) => HasBefore(Append(q, Notice), Adopt(c), Notice)
        BY TaskKinds, HasAppend
      <4>6. c \in closed \union conns[i] \/ Has(q, Adopt(c))
        BY <1>1, <3>1, <3>2, <4>4 DEF Located
      <4> QED BY <3>2, <4>1, <4>2, <4>4, <4>5, <4>6 DEF Promised
    <3>5. Posted(i)' BY <2>2, <3>2
    <3> QED BY <3>3, <3>4, <3>5, PostedStep
  <2> QED BY <1>2, <2>1, <2>2 DEF NoticeAhead
<1> QED BY <1>3, <1>4

LEMMA StepInv == IInv /\ [Next]_vars => IInv'
<1> SUFFICES ASSUME IInv, [Next]_vars PROVE IInv'
  OBVIOUS
<1>1. Queues' BY LoopSteps DEF IInv
<1> QED
  BY <1>1, TypeInv, StagesInv, ThreadsInv, LocatedInv, NoticeAheadInv DEF IInv

LEMMA Inductive == Spec => []IInv
BY InitInv, StepInv, PTL DEF Spec

----------------------------------------------------------------------------
\* When a sub thread is gone every connection of its that was accepted before
\* the shutdown was sent the notice or had been closed: the notice is queued
\* behind the adoption and before the quit, and the last batch is run after it
\* (chat_server.cpp:1173-1183 and 524, EventLoop.hpp:82-83).
THEOREM NoticeCorrect == Spec => []NoticeDelivered
<1>1. IInv => NoticeDelivered
  <2> SUFFICES ASSUME IInv, NEW c \in early, tpc[Owner(c)] = "gone"
               PROVE  c \in noticed \union closed
    BY DEF NoticeDelivered
  <2>1. c \in Conns BY Owners DEF IInv, TypeOK
  <2>2. PICK i \in Loops : i = Owner(c) BY <2>1, Owners
  <2>3. Queue(i) = <<>>
    <3>1. locals[i] = <<>> /\ pending[i] = <<>> BY <2>2 DEF IInv, Threads
    <3> QED BY <3>1 DEF Queue
  <2>4. ~running[i] BY <2>2 DEF IInv, Threads
  <2>5. Posted(i) BY <2>4 DEF IInv, Stages, Posted
  <2>6. Promised(c) BY <2>2, <2>5 DEF IInv, NoticeAhead
  <2>7. ~Has(<<>>, Notice) /\ ~HasBefore(<<>>, Adopt(c), Notice)
    BY DEF Has, HasBefore
  <2> QED BY <2>2, <2>3, <2>6, <2>7 DEF Promised
<1> QED BY <1>1, Inductive, PTL

\* When run() returns every accepted connection has been closed, those whose
\* adoption was still queued when the loops were told to quit included
\* (chat_server.cpp:519-536).
THEOREM ClosedCorrect == Spec => []NothingLeftOpen
<1>1. IInv => NothingLeftOpen
  <2> SUFFICES ASSUME IInv, mpc = "done", NEW c \in 1 .. accepts
               PROVE  c \in closed
    BY DEF NothingLeftOpen
  <2>1. c \in Conns BY Owners DEF IInv, TypeOK, Conns
  <2>2. PICK i \in Loops : i = Owner(c) BY <2>1, Owners
  <2>3. tpc[i] = "gone" /\ conns[i] = {} BY DEF IInv, Stages
  <2>4. Queue(i) = <<>>
    <3>1. locals[i] = <<>> /\ pending[i] = <<>> BY <2>3 DEF IInv, Threads
    <3> QED BY <3>1 DEF Queue
  <2>5. ~Has(<<>>, Adopt(c)) BY DEF Has
  <2>6. c \in closed \union conns[i] \/ Has(Queue(i), Adopt(c))
    BY <2>2 DEF IInv, Located
  <2> QED BY <2>3, <2>4, <2>5, <2>6
<1> QED BY <1>1, Inductive, PTL
=============================================================================
