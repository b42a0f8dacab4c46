-------------------------- MODULE EventLoopProofs --------------------------
(***************************************************************************)
(* Proofs about EventLoop for any sets of threads and Channels and any     *)
(* number of calls: its safety invariants, and that it implements          *)
(* TaskExecutor.                                                           *)
(***************************************************************************)
EXTENDS EventLoop, TLAPS, SequenceTheorems

\* mutex_ is held by a poster exactly while it is between the lock and the
\* push (EventLoop.hpp:99-104).
LockHeld ==
    \A p \in Posters : (mutex = p) <=> (ppc[p] \in {"check", "push"})

\* What a poster between its locking and its return still has to count.
InCall ==
    \A p \in Posters : ppc[p] # "idle" => posted[p] < MaxPosts

\* After the last critical section of doPendingFunctors() the loop has been
\* told to quit, pending_ is empty and no poster that saw running_ true is
\* still before its push.
Drained ==
    /\ lpc \in {"final", "finalrun", "exited"} => ~running
    /\ lpc \in {"finalrun", "exited"} =>
          pending = <<>> /\ \A p \in Posters : ppc[p] # "push"
    /\ lpc \notin {"run", "finalrun"} => locals = <<>>

\* Work in pending_ is announced: from the moment the batch is taken until the
\* wake-up Channel is next read, a non-empty pending_ has its eventfd set or a
\* poster about to set it; a loop blocked in poll after quit() likewise.
Announced ==
    /\ lpc \notin {"dispatch", "swap", "final"} /\ pending # <<>> =>
          eventfd \/ \E p \in Posters : ppc[p] = "wake"
    /\ lpc = "poll" /\ ~running =>
          eventfd \/ \E q \in Quitters : qpc[q] = "wake"

\* The batch lives only while it is dispatched, and its objects live longer.
BatchAlive ==
    /\ lpc # "dispatch" => ready = {}
    /\ NoUseAfterFree

\* The inductive invariant.
IInv ==
    /\ TypeOK
    /\ LockHeld
    /\ InCall
    /\ Drained
    /\ AcceptedInOrder
    /\ Announced
    /\ BatchAlive

----------------------------------------------------------------------------
\* A call in progress names a task of Task.
LEMMA NextTaskInTask ==
    ASSUME TypeOK, InCall, NEW p \in Posters, ppc[p] # "idle"
    PROVE  /\ posted[p] + 1 \in 0 .. MaxPosts
           /\ NextTask(p) \in Task
<1>1. posted[p] \in 0 .. MaxPosts /\ posted[p] < MaxPosts
  BY DEF TypeOK, InCall
<1>2. posted[p] + 1 \in 1 .. MaxPosts
  BY <1>1, ConstantsAssumption
<1> QED BY <1>2 DEF NextTask, Task

\* Appending to the second part of a concatenation appends to the whole.
LEMMA AppendToLast ==
    ASSUME NEW S, NEW a \in Seq(S), NEW b \in Seq(S), NEW e \in S
    PROVE  Append(a \o b, e) = a \o Append(b, e)
<1>1. a \o b \in Seq(S) BY ConcatProperties
<1>2. <<e>> \in Seq(S) OBVIOUS
<1>3. Append(a \o b, e) = (a \o b) \o <<e>> BY <1>1, AppendIsConcat
<1>4. (a \o b) \o <<e>> = a \o (b \o <<e>>) BY <1>2, ConcatAssociative
<1> QED BY <1>3, <1>4, AppendIsConcat

\* Moving the head of the second part to the end of the first leaves the
\* concatenation unchanged.
LEMMA MoveHead ==
    ASSUME NEW S, NEW a \in Seq(S), NEW b \in Seq(S), b # <<>>
    PROVE  /\ Append(a, Head(b)) \in Seq(S)
           /\ Tail(b) \in Seq(S)
           /\ Append(a, Head(b)) \o Tail(b) = a \o b
<1>1. /\ Head(b) \in S
      /\ Tail(b) \in Seq(S)
      /\ Len(Tail(b)) = Len(b) - 1
      /\ \A i \in 1 .. Len(Tail(b)) : Tail(b)[i] = b[i + 1]
  BY HeadTailProperties
<1>2. Len(b) \in Nat \ {0} BY EmptySeq
<1>3. /\ <<Head(b)>> \in Seq(S)
      /\ Len(<<Head(b)>>) = 1
      /\ <<Head(b)>>[1] = Head(b)
  BY <1>1
<1>4. <<Head(b)>> \o Tail(b) = b
  <2>1. /\ <<Head(b)>> \o Tail(b) \in Seq(S)
        /\ Len(<<Head(b)>> \o Tail(b)) = Len(b)
        /\ \A i \in 1 .. Len(b) : (<<Head(b)>> \o Tail(b))[i] =
              IF i <= 1 THEN <<Head(b)>>[i] ELSE Tail(b)[i - 1]
    BY <1>1, <1>2, <1>3, ConcatProperties
  <2>2. \A i \in 1 .. Len(b) : (<<Head(b)>> \o Tail(b))[i] = b[i]
    BY <1>1, <1>2, <1>3, <2>1
  <2> QED BY <2>1, <2>2, SeqEqual
<1>5. Append(a, Head(b)) = a \o <<Head(b)>> BY <1>1, AppendIsConcat
<1>6. (a \o <<Head(b)>>) \o Tail(b) = a \o (<<Head(b)>> \o Tail(b))
  BY <1>1, <1>3, ConcatAssociative
<1>7. Append(a, Head(b)) \in Seq(S) BY <1>1, AppendProperties
<1> QED BY <1>1, <1>4, <1>5, <1>6, <1>7

\* The head and tail of a concatenation whose first part is not empty.
LEMMA HeadTailConcat ==
    ASSUME NEW S, NEW a \in Seq(S), NEW b \in Seq(S), a # <<>>
    PROVE  /\ a \o b # <<>>
           /\ Head(a \o b) = Head(a)
           /\ Tail(a \o b) = Tail(a) \o b
<1>1. /\ Tail(a) \in Seq(S)
      /\ Len(Tail(a)) = Len(a) - 1
      /\ \A i \in 1 .. Len(Tail(a)) : Tail(a)[i] = a[i + 1]
  BY HeadTailProperties
<1>2. Len(a) \in Nat \ {0} /\ Len(b) \in Nat BY EmptySeq, LenProperties
<1>3. /\ a \o b \in Seq(S)
      /\ Len(a \o b) = Len(a) + Len(b)
      /\ \A i \in 1 .. Len(a) + Len(b) :
            (a \o b)[i] = IF i <= Len(a) THEN a[i] ELSE b[i - Len(a)]
  BY ConcatProperties
<1>4. a \o b # <<>> BY <1>2, <1>3, EmptySeq
<1>5. Head(a) = a[1] /\ Head(a \o b) = (a \o b)[1]
  OBVIOUS
<1>6. (a \o b)[1] = a[1] BY <1>2, <1>3
<1>7. /\ Tail(a \o b) \in Seq(S)
      /\ Len(Tail(a \o b)) = Len(a) + Len(b) - 1
      /\ \A i \in 1 .. Len(Tail(a \o b)) : Tail(a \o b)[i] = (a \o b)[i + 1]
  BY <1>3, <1>4, HeadTailProperties
<1>8. /\ Tail(a) \o b \in Seq(S)
      /\ Len(Tail(a) \o b) = Len(a) - 1 + Len(b)
      /\ \A i \in 1 .. Len(a) - 1 + Len(b) : (Tail(a) \o b)[i] =
            IF i <= Len(a) - 1 THEN Tail(a)[i] ELSE b[i - (Len(a) - 1)]
  BY <1>1, ConcatProperties
<1>9. ASSUME NEW i \in 1 .. Len(Tail(a \o b))
      PROVE  Tail(a \o b)[i] = (Tail(a) \o b)[i]
  <2>1. /\ i \in 1 .. Len(a) - 1 + Len(b)
        /\ i + 1 \in 1 .. Len(a) + Len(b)
    BY <1>2, <1>7
  <2>2. Tail(a \o b)[i] = IF i + 1 <= Len(a) THEN a[i + 1] ELSE b[i + 1 - Len(a)]
    BY <1>3, <1>7, <2>1
  <2>3. CASE i + 1 <= Len(a)
    BY <1>1, <1>2, <1>8, <2>1, <2>2, <2>3
  <2>4. CASE ~(i + 1 <= Len(a))
    <3>1. i + 1 - Len(a) = i - (Len(a) - 1) BY <1>2
    <3> QED BY <1>2, <1>8, <2>1, <2>2, <2>4, <3>1
  <2> QED BY <2>3, <2>4
<1>10. Tail(a \o b) = Tail(a) \o b
  <2>1. Len(Tail(a \o b)) = Len(Tail(a) \o b) BY <1>2, <1>7, <1>8
  <2> QED BY <1>7, <1>8, <1>9, <2>1, SeqEqual
<1> QED BY <1>4, <1>5, <1>6, <1>10

----------------------------------------------------------------------------
(* The invariant is inductive *)

LEMMA InitInv == Init => IInv
<1> SUFFICES ASSUME Init PROVE IInv
  OBVIOUS
<1> USE DEF Init
<1>1. TypeOK
  <2>1. <<>> \in Seq(Task) OBVIOUS
  <2>2. 0 \in 0 .. MaxPosts BY ConstantsAssumption
  <2>3. posted \in [Posters -> 0 .. MaxPosts] BY <2>2
  <2> QED BY <2>1, <2>3 DEF TypeOK
<1>2. LockHeld BY ConstantsAssumption DEF LockHeld
<1>3. InCall BY DEF InCall
<1>4. Drained BY DEF Drained
<1>5. AcceptedInOrder
  <2>1. <<>> \in Seq(Task) OBVIOUS
  <2>2. <<>> \o <<>> \o <<>> = <<>> BY <2>1, ConcatEmptySeq
  <2> QED BY <2>2 DEF AcceptedInOrder
<1>6. Announced BY DEF Announced
<1>7. BatchAlive BY DEF BatchAlive, NoUseAfterFree
<1> QED BY <1>1, <1>2, <1>3, <1>4, <1>5, <1>6, <1>7 DEF IInv

\* TypeOK is preserved by every step.
LEMMA TypeStep == IInv /\ [Next]_vars => TypeOK'
<1> SUFFICES ASSUME IInv, [Next]_vars PROVE TypeOK'
  OBVIOUS
<1> USE ConstantsAssumption DEF IInv, TypeOK, loopVars, chanVars, posterVars
<1>1. ASSUME NEW p \in Posters, PostLock(p) PROVE TypeOK'
  BY <1>1 DEF PostLock
<1>2. ASSUME NEW p \in Posters, PostAccept(p) PROVE TypeOK'
  BY <1>2 DEF PostAccept
<1>3. ASSUME NEW p \in Posters, PostRefuse(p) PROVE TypeOK'
  <2>1. NextTask(p) \in Task BY <1>3, NextTaskInTask DEF PostRefuse
  <2>2. posted[p] + 1 \in 0 .. MaxPosts BY <1>3, NextTaskInTask DEF PostRefuse
  <2> QED BY <1>3, <2>1, <2>2 DEF PostRefuse
<1>4. ASSUME NEW p \in Posters, PostPush(p) PROVE TypeOK'
  <2>1. NextTask(p) \in Task BY <1>4, NextTaskInTask DEF PostPush
  <2>2. pending' \in Seq(Task) /\ accepted' \in Seq(Task)
    BY <1>4, <2>1, AppendProperties DEF PostPush
  <2> QED BY <1>4, <2>2 DEF PostPush
<1>5. ASSUME NEW p \in Posters, PostWake(p) PROVE TypeOK'
  <2>1. posted[p] + 1 \in 0 .. MaxPosts BY <1>5, NextTaskInTask DEF PostWake
  <2> QED BY <1>5, <2>1 DEF PostWake
<1>6. ASSUME NEW q \in Quitters, QuitStore(q) PROVE TypeOK'
  BY <1>6 DEF QuitStore
<1>7. ASSUME NEW q \in Quitters, QuitWake(q) PROVE TypeOK'
  BY <1>7 DEF QuitWake
<1>8. CASE Enter BY <1>8 DEF Enter
<1>9. CASE CheckRunning BY <1>9 DEF CheckRunning
<1>10. CASE Poll BY <1>10 DEF Poll, Reported
<1>11. CASE PollInterrupted BY <1>11 DEF PollInterrupted
<1>12. ASSUME NEW c \in Channels, Handle(c) PROVE TypeOK'
  BY <1>12 DEF Handle, Retire, MayQuit
<1>13. CASE HandleWakeup BY <1>13 DEF HandleWakeup
<1>14. CASE Dispatched BY <1>14 DEF Dispatched
<1>15. CASE Swap BY <1>15 DEF Swap
<1>16. CASE RunTask
  <2>1. executed' \in Seq(Task) /\ locals' \in Seq(Task)
    BY <1>16, MoveHead DEF RunTask
  <2> QED BY <1>16, <2>1 DEF RunTask, Retire, MayQuit
<1>17. CASE BatchDone BY <1>17 DEF BatchDone
<1>18. CASE PostDispatch BY <1>18 DEF PostDispatch
<1>19. ASSUME NEW c \in Channels, Arrive(c) PROVE TypeOK'
  BY <1>19 DEF Arrive
<1>20. CASE UNCHANGED vars BY <1>20 DEF vars
<1> QED
  BY <1>1, <1>2, <1>3, <1>4, <1>5, <1>6, <1>7, <1>8, <1>9, <1>10, <1>11,
     <1>12, <1>13, <1>14, <1>15, <1>16, <1>17, <1>18, <1>19, <1>20
     DEF Next, Post, Quit, LoopThread

\* The lock is held exactly by a poster inside its critical section.
LEMMA LockStep == IInv /\ [Next]_vars => LockHeld'
<1> SUFFICES ASSUME IInv, [Next]_vars PROVE LockHeld'
  OBVIOUS
<1> USE ConstantsAssumption DEF IInv, TypeOK, LockHeld
<1>1. ASSUME NEW p \in Posters, PostLock(p) PROVE LockHeld'
  BY <1>1 DEF PostLock
<1>2. ASSUME NEW p \in Posters, PostAccept(p) PROVE LockHeld'
  BY <1>2 DEF PostAccept
<1>3. ASSUME NEW p \in Posters, PostRefuse(p) PROVE LockHeld'
  BY <1>3 DEF PostRefuse
<1>4. ASSUME NEW p \in Posters, PostPush(p) PROVE LockHeld'
  BY <1>4 DEF PostPush
<1>5. ASSUME NEW p \in Posters, PostWake(p) PROVE LockHeld'
  BY <1>5 DEF PostWake
<1>6. ASSUME NEW q \in Quitters, Quit(q) PROVE LockHeld'
  BY <1>6 DEF Quit, QuitStore, QuitWake, posterVars
<1>7. ASSUME LoopThread PROVE LockHeld'
  <2>1. UNCHANGED <<mutex, ppc>>
    BY <1>7 DEF LoopThread, Enter, CheckRunning, Poll, Handle, HandleWakeup,
       Dispatched, Swap, RunTask, BatchDone, PostDispatch, posterVars
  <2> QED BY <2>1
<1>8. CASE PollInterrupted BY <1>8 DEF PollInterrupted, posterVars
<1>9. ASSUME NEW c \in Channels, Arrive(c) PROVE LockHeld'
  BY <1>9 DEF Arrive, posterVars
<1>10. CASE UNCHANGED vars BY <1>10 DEF vars, posterVars
<1> QED
  BY <1>1, <1>2, <1>3, <1>4, <1>5, <1>6, <1>7, <1>8, <1>9, <1>10
     DEF Next, Post

\* A poster counts a call when it returns, never beyond MaxPosts.
LEMMA InCallStep == IInv /\ [Next]_vars => InCall'
<1> SUFFICES ASSUME IInv, [Next]_vars PROVE InCall'
  OBVIOUS
<1> USE ConstantsAssumption DEF IInv, TypeOK, InCall
<1>1. ASSUME NEW p \in Posters, PostLock(p) PROVE InCall'
  BY <1>1 DEF PostLock
<1>2. ASSUME NEW p \in Posters, PostAccept(p) PROVE InCall'
  BY <1>2 DEF PostAccept
<1>3. ASSUME NEW p \in Posters, PostRefuse(p) PROVE InCall'
  BY <1>3 DEF PostRefuse
<1>4. ASSUME NEW p \in Posters, PostPush(p) PROVE InCall'
  BY <1>4 DEF PostPush
<1>5. ASSUME NEW p \in Posters, PostWake(p) PROVE InCall'
  BY <1>5 DEF PostWake
<1>6. ASSUME NEW q \in Quitters, Quit(q) PROVE InCall'
  BY <1>6 DEF Quit, QuitStore, QuitWake, posterVars
<1>7. ASSUME LoopThread PROVE InCall'
  <2>1. UNCHANGED posterVars
    BY <1>7 DEF LoopThread, Enter, CheckRunning, Poll, Handle, HandleWakeup,
       Dispatched, Swap, RunTask, BatchDone, PostDispatch
  <2> QED BY <2>1 DEF posterVars
<1>8. CASE PollInterrupted BY <1>8 DEF PollInterrupted, posterVars
<1>9. ASSUME NEW c \in Channels, Arrive(c) PROVE InCall'
  BY <1>9 DEF Arrive, posterVars
<1>10. CASE UNCHANGED vars BY <1>10 DEF vars, posterVars
<1> QED
  BY <1>1, <1>2, <1>3, <1>4, <1>5, <1>6, <1>7, <1>8, <1>9, <1>10
     DEF Next, Post

\* The key step is Swap at the end of loop(): it holds the lock, so no poster
\* is between its test of running_ and its push; and every later test of
\* running_ fails.
LEMMA DrainedStep == IInv /\ [Next]_vars => Drained'
<1> SUFFICES ASSUME IInv, [Next]_vars PROVE Drained'
  OBVIOUS
<1> USE ConstantsAssumption DEF IInv, TypeOK, Drained, loopVars, posterVars
<1>1. ASSUME NEW p \in Posters, PostLock(p) PROVE Drained'
  BY <1>1 DEF PostLock
<1>2. ASSUME NEW p \in Posters, PostAccept(p) PROVE Drained'
  BY <1>2 DEF PostAccept
<1>3. ASSUME NEW p \in Posters, PostRefuse(p) PROVE Drained'
  BY <1>3 DEF PostRefuse
<1>4. ASSUME NEW p \in Posters, PostPush(p) PROVE Drained'
  BY <1>4 DEF PostPush
<1>5. ASSUME NEW p \in Posters, PostWake(p) PROVE Drained'
  BY <1>5 DEF PostWake
<1>6. ASSUME NEW q \in Quitters, Quit(q) PROVE Drained'
  BY <1>6 DEF Quit, QuitStore, QuitWake
<1>7. CASE Enter BY <1>7 DEF Enter
<1>8. CASE CheckRunning BY <1>8 DEF CheckRunning
<1>9. CASE Poll \/ PollInterrupted BY <1>9 DEF Poll, PollInterrupted
<1>10. ASSUME NEW c \in Channels, Handle(c) PROVE Drained'
  BY <1>10 DEF Handle, MayQuit
<1>11. CASE HandleWakeup BY <1>11 DEF HandleWakeup
<1>12. CASE Dispatched BY <1>12 DEF Dispatched
<1>13. CASE Swap
  <2>1. \A p \in Posters : ppc[p] # "push"
    BY <1>13 DEF Swap, LockHeld
  <2> QED BY <1>13, <2>1 DEF Swap
<1>14. CASE RunTask BY <1>14 DEF RunTask, MayQuit
<1>15. CASE BatchDone BY <1>15 DEF BatchDone
<1>16. CASE PostDispatch BY <1>16 DEF PostDispatch
<1>17. ASSUME NEW c \in Channels, Arrive(c) PROVE Drained'
  BY <1>17 DEF Arrive
<1>18. CASE UNCHANGED vars BY <1>18 DEF vars
<1> QED
  BY <1>1, <1>2, <1>3, <1>4, <1>5, <1>6, <1>7, <1>8, <1>9, <1>10, <1>11,
     <1>12, <1>13, <1>14, <1>15, <1>16, <1>17, <1>18
     DEF Next, Post, LoopThread

\* Only a push, the swap and a run move tasks, and each keeps the order.
LEMMA OrderStep == IInv /\ [Next]_vars => AcceptedInOrder'
<1> SUFFICES ASSUME IInv, [Next]_vars PROVE AcceptedInOrder'
  OBVIOUS
<1> USE DEF IInv, AcceptedInOrder
<1> DEFINE Frame == UNCHANGED <<accepted, executed, locals, pending>>
<1>1. Frame => AcceptedInOrder'
  OBVIOUS
<1>2. ASSUME NEW p \in Posters, PostPush(p) PROVE AcceptedInOrder'
  <2>1. NextTask(p) \in Task BY <1>2, NextTaskInTask DEF PostPush
  <2>2. executed \in Seq(Task)
    BY DEF TypeOK
  <2>3. locals \in Seq(Task)
    BY DEF TypeOK
  <2>4. pending \in Seq(Task)
    BY DEF TypeOK
  <2>5. executed \o locals \in Seq(Task) /\ <<NextTask(p)>> \in Seq(Task)
    BY <2>1, <2>2, <2>3, ConcatProperties
  <2>6. (executed \o locals \o pending) \o <<NextTask(p)>> =
        executed \o locals \o (pending \o <<NextTask(p)>>)
    BY <2>4, <2>5, ConcatAssociative
  <2>7. executed \o locals \o pending \in Seq(Task)
    BY <2>4, <2>5, ConcatProperties
  <2>8. /\ Append(executed \o locals \o pending, NextTask(p)) =
             (executed \o locals \o pending) \o <<NextTask(p)>>
        /\ Append(pending, NextTask(p)) = pending \o <<NextTask(p)>>
    BY <2>1, <2>4, <2>7, AppendIsConcat
  <2> QED BY <1>2, <2>6, <2>8 DEF PostPush, loopVars
<1>3. CASE Swap
  <2>1. locals = <<>> BY <1>3 DEF Swap, Drained
  <2>2. executed \o <<>> \o pending = executed \o pending
    BY ConcatEmptySeq DEF TypeOK
  <2>3. executed \o pending \in Seq(Task) BY ConcatProperties DEF TypeOK
  <2>4. executed \o pending \o <<>> = executed \o pending
    BY <2>3, ConcatEmptySeq
  <2> QED BY <1>3, <2>1, <2>2, <2>4 DEF Swap
<1>4. CASE RunTask
  <2>1. Append(executed, Head(locals)) \o Tail(locals) = executed \o locals
    BY <1>4, MoveHead DEF RunTask, TypeOK
  <2> QED BY <1>4, <2>1 DEF RunTask
<1>5. ASSUME NEW p \in Posters,
             PostLock(p) \/ PostAccept(p) \/ PostRefuse(p) \/ PostWake(p)
      PROVE  Frame
  BY <1>5 DEF PostLock, PostAccept, PostRefuse, PostWake, loopVars
<1>6. ASSUME NEW q \in Quitters, Quit(q) PROVE Frame
  BY <1>6 DEF Quit, QuitStore, QuitWake, loopVars
<1>7. CASE Enter \/ CheckRunning \/ Poll \/ PollInterrupted \/ HandleWakeup \/
           Dispatched \/ BatchDone \/ PostDispatch
  <2>1. Frame BY <1>7 DEF Enter, CheckRunning, Poll, PollInterrupted,
           HandleWakeup, Dispatched, BatchDone, PostDispatch
  <2> QED BY <1>1, <2>1
<1>8. ASSUME NEW c \in Channels, Handle(c) \/ Arrive(c) PROVE Frame
  BY <1>8 DEF Handle, Arrive, loopVars
<1>9. CASE UNCHANGED vars BY <1>1, <1>9 DEF vars, loopVars
<1> QED
  BY <1>1, <1>2, <1>3, <1>4, <1>5, <1>6, <1>7, <1>8, <1>9
     DEF Next, Post, LoopThread

\* No step leaves work unannounced: the eventfd is cleared only in dispatch,
\* and the swap that follows empties pending_.
LEMMA AnnouncedStep == IInv /\ [Next]_vars => Announced'
<1> SUFFICES ASSUME IInv, [Next]_vars PROVE Announced'
  OBVIOUS
<1> USE DEF IInv, TypeOK, Announced, loopVars, posterVars
<1>1. ASSUME NEW p \in Posters, PostLock(p) PROVE Announced'
  BY <1>1 DEF PostLock
<1>2. ASSUME NEW p \in Posters, PostAccept(p) PROVE Announced'
  BY <1>2 DEF PostAccept
<1>3. ASSUME NEW p \in Posters, PostRefuse(p) PROVE Announced'
  BY <1>3 DEF PostRefuse
<1>4. ASSUME NEW p \in Posters, PostPush(p) PROVE Announced'
  BY <1>4 DEF PostPush
<1>5. ASSUME NEW p \in Posters, PostWake(p) PROVE Announced'
  BY <1>5 DEF PostWake
<1>6. ASSUME NEW q \in Quitters, QuitStore(q) PROVE Announced'
  BY <1>6 DEF QuitStore
<1>7. ASSUME NEW q \in Quitters, QuitWake(q) PROVE Announced'
  BY <1>7 DEF QuitWake
<1>8. CASE Enter BY <1>8 DEF Enter
<1>9. CASE CheckRunning BY <1>9 DEF CheckRunning
<1>10. CASE Poll \/ PollInterrupted BY <1>10 DEF Poll, PollInterrupted
<1>11. ASSUME NEW c \in Channels, Handle(c) PROVE Announced'
  BY <1>11 DEF Handle, MayQuit
<1>12. CASE HandleWakeup BY <1>12 DEF HandleWakeup
<1>13. CASE Dispatched BY <1>13 DEF Dispatched
<1>14. CASE Swap BY <1>14 DEF Swap
<1>15. CASE RunTask BY <1>15 DEF RunTask, MayQuit
<1>16. CASE BatchDone BY <1>16 DEF BatchDone
<1>17. CASE PostDispatch BY <1>17 DEF PostDispatch
<1>18. ASSUME NEW c \in Channels, Arrive(c) PROVE Announced'
  BY <1>18 DEF Arrive
<1>19. CASE UNCHANGED vars BY <1>19 DEF vars
<1> QED
  BY <1>1, <1>2, <1>3, <1>4, <1>5, <1>6, <1>7, <1>8, <1>9, <1>10, <1>11,
     <1>12, <1>13, <1>14, <1>15, <1>16, <1>17, <1>18, <1>19
     DEF Next, Post, Quit, LoopThread

\* Callbacks only retire objects; they are destroyed when the batch is over.
LEMMA BatchStep == IInv /\ [Next]_vars => BatchAlive'
<1> SUFFICES ASSUME IInv, [Next]_vars PROVE BatchAlive'
  OBVIOUS
<1> USE ConstantsAssumption
    DEF IInv, TypeOK, BatchAlive, NoUseAfterFree, loopVars, chanVars
<1>1. ASSUME NEW p \in Posters, Post(p) PROVE BatchAlive'
  BY <1>1 DEF Post, PostLock, PostAccept, PostRefuse, PostPush, PostWake
<1>2. ASSUME NEW q \in Quitters, Quit(q) PROVE BatchAlive'
  BY <1>2 DEF Quit, QuitStore, QuitWake
<1>3. CASE Enter \/ CheckRunning \/ HandleWakeup \/ Dispatched \/ Swap \/ BatchDone
  BY <1>3 DEF Enter, CheckRunning, HandleWakeup, Dispatched, Swap, BatchDone
<1>4. CASE Poll \/ PollInterrupted
  BY <1>4 DEF Poll, PollInterrupted, Reported
<1>5. ASSUME NEW c \in Channels, Handle(c) PROVE BatchAlive'
  BY <1>5 DEF Handle, Retire
<1>6. CASE RunTask BY <1>6 DEF RunTask, Retire
<1>7. CASE PostDispatch BY <1>7 DEF PostDispatch
<1>8. ASSUME NEW c \in Channels, Arrive(c) PROVE BatchAlive'
  BY <1>8 DEF Arrive
<1>9. CASE UNCHANGED vars BY <1>9 DEF vars
<1> QED
  BY <1>1, <1>2, <1>3, <1>4, <1>5, <1>6, <1>7, <1>8, <1>9
     DEF Next, LoopThread

LEMMA Inductive == Spec => []IInv
<1>1. IInv /\ [Next]_vars => IInv'
  BY TypeStep, LockStep, InCallStep, DrainedStep, OrderStep, AnnouncedStep,
     BatchStep DEF IInv
<1> QED BY <1>1, InitInv, PTL DEF Spec

----------------------------------------------------------------------------
(* The theorems *)

\* Every variable of the loop keeps its type (EventLoop.hpp:131-138).
THEOREM TypeCorrect == Spec => []TypeOK
BY Inductive, PTL DEF IInv

\* No accepted task is lost, doubled or reordered, for any number of posting
\* and quitting threads (EventLoop.hpp:93-107 and 122-130).
THEOREM OrderCorrect == Spec => []AcceptedInOrder
BY Inductive, PTL DEF IInv

\* When loop() has returned, every task for which runInLoop() answered true
\* has run (EventLoop.hpp:63-84).
THEOREM DrainCorrect == Spec => []DrainedAtExit
<1>1. IInv => DrainedAtExit
  <2> SUFFICES ASSUME IInv, lpc = "exited" PROVE executed = accepted
    BY DEF DrainedAtExit
  <2>1. locals = <<>> /\ pending = <<>> BY DEF IInv, Drained
  <2>2. executed \in Seq(Task) BY DEF IInv, TypeOK
  <2>3. executed \o <<>> \o <<>> = executed BY <2>2, ConcatEmptySeq
  <2> QED BY <2>1, <2>3 DEF IInv, AcceptedInOrder
<1> QED BY <1>1, Inductive, PTL

\* A loop blocked in epoll_wait never has work nobody will wake it for
\* (EventLoop.hpp:112-121).
THEOREM WakeupCorrect == Spec => []NoLostWakeup
<1>1. IInv => NoLostWakeup
  BY DEF IInv, Announced, NoLostWakeup
<1> QED BY <1>1, Inductive, PTL

\* The batch under dispatch holds no destroyed object (EventLoop.hpp:51-57).
THEOREM BatchCorrect == Spec => []NoUseAfterFree
<1>1. IInv => NoUseAfterFree
  BY DEF IInv, BatchAlive
<1> QED BY <1>1, Inductive, PTL

----------------------------------------------------------------------------
(* The loop implements TaskExecutor: each step is an abstract step or leaves *)
(* the abstract variables alone.                                             *)

LEMMA ExecutorInit == Init => Executor!Init
<1> SUFFICES ASSUME Init PROVE Executor!Init
  OBVIOUS
<1>1. <<>> \in Seq(Task) OBVIOUS
<1>2. <<>> \o <<>> = <<>> BY <1>1, ConcatEmptySeq
<1> QED BY <1>2 DEF Init, Executor!Init

LEMMA ExecutorStep == IInv /\ [Next]_vars => [Executor!Next]_(Executor!execVars)
<1> SUFFICES ASSUME IInv, [Next]_vars
             PROVE  Executor!Next \/ UNCHANGED Executor!execVars
  OBVIOUS
<1> DEFINE phase == IF lpc = "exited" THEN "stopped"
                    ELSE IF running THEN "open" ELSE "closing"
           queue == locals \o pending
<1> DEFINE Stutter == UNCHANGED <<phase, queue, executed, refused>>
<1>a. Stutter => UNCHANGED Executor!execVars
  BY DEF Executor!execVars
<1> USE DEF IInv, loopVars, chanVars, posterVars
<1>1. ASSUME NEW p \in Posters, PostLock(p) \/ PostAccept(p) \/ PostWake(p)
      PROVE  Stutter
  BY <1>1 DEF PostLock, PostAccept, PostWake
<1>2. ASSUME NEW p \in Posters, PostRefuse(p) PROVE Executor!Refuse(NextTask(p))
  <2>1. phase # "open" BY <1>2 DEF PostRefuse
  <2>2. UNCHANGED <<phase, queue, executed>> BY <1>2 DEF PostRefuse
  <2> QED BY <1>2, <2>1, <2>2 DEF PostRefuse, Executor!Refuse
<1>3. ASSUME NEW p \in Posters, PostPush(p) PROVE Executor!Accept(NextTask(p))
  <2>1. NextTask(p) \in Task BY <1>3, NextTaskInTask DEF PostPush
  <2>2. phase # "stopped" BY <1>3 DEF PostPush, Drained
  <2>3. locals \in Seq(Task) /\ pending \in Seq(Task) BY DEF TypeOK
  <2>4. locals \o Append(pending, NextTask(p)) = Append(locals \o pending, NextTask(p))
    BY <2>1, <2>3, AppendToLast
  <2> QED BY <1>3, <2>2, <2>4 DEF PostPush, Executor!Accept
<1>4. ASSUME NEW q \in Quitters, QuitStore(q) PROVE Executor!Close \/ Stutter
  BY <1>4 DEF QuitStore, Executor!Close, TypeOK
<1>5. ASSUME NEW q \in Quitters, QuitWake(q) PROVE Stutter
  BY <1>5 DEF QuitWake
<1>6. CASE Enter \/ CheckRunning \/ Poll \/ PollInterrupted \/ HandleWakeup \/
           Dispatched \/ PostDispatch
  <2>1. lpc # "exited" /\ lpc' # "exited"
    BY <1>6 DEF Enter, CheckRunning, Poll, PollInterrupted, HandleWakeup,
       Dispatched, PostDispatch
  <2>2. UNCHANGED <<running, locals, pending, executed, refused>>
    BY <1>6 DEF Enter, CheckRunning, Poll, PollInterrupted, HandleWakeup,
       Dispatched, PostDispatch
  <2>3. Stutter BY <2>1, <2>2
  <2> QED BY <2>3, <1>a
<1>7. ASSUME NEW c \in Channels, Handle(c) PROVE Executor!Close \/ Stutter
  BY <1>7 DEF Handle, MayQuit, Executor!Close, TypeOK
<1>8. CASE Swap
  <2>1. locals = <<>> BY <1>8 DEF Swap, Drained
  <2>2. locals \o pending = pending /\ pending \o <<>> = pending
    BY <2>1, ConcatEmptySeq DEF TypeOK
  <2>3. UNCHANGED queue BY <1>8, <2>2 DEF Swap
  <2>4. UNCHANGED <<phase, executed, refused>> BY <1>8 DEF Swap
  <2> QED BY <2>3, <2>4, <1>a
<1>9. CASE RunTask
  <2>1. /\ locals # <<>>
        /\ locals \in Seq(Task)
        /\ pending \in Seq(Task)
    BY <1>9 DEF RunTask, TypeOK
  <2>2. /\ queue # <<>>
        /\ Head(queue) = Head(locals)
        /\ Tail(queue) = Tail(locals) \o pending
    BY <2>1, HeadTailConcat
  <2>3. lpc # "exited" /\ lpc' = lpc BY <1>9 DEF RunTask
  <2>4. executed' = Append(executed, Head(queue)) /\ queue' = Tail(queue)
    BY <1>9, <2>2 DEF RunTask
  <2>5. UNCHANGED refused BY <1>9 DEF RunTask
  <2>6. UNCHANGED phase \/ (phase = "open" /\ phase' = "closing")
    BY <1>9, <2>3 DEF RunTask, MayQuit, TypeOK
  <2>7. Executor!Execute \/ Executor!ExecuteAndClose
    BY <2>2, <2>4, <2>5, <2>6 DEF Executor!Execute, Executor!ExecuteAndClose
  <2> QED BY <2>7 DEF Executor!Next
<1>10. CASE BatchDone
  <2>1. CASE lpc = "run" BY <1>10, <2>1, <1>a DEF BatchDone
  <2>2. CASE lpc = "finalrun"
    <3>1. phase = "closing" /\ phase' = "stopped"
      BY <1>10, <2>2 DEF BatchDone, Drained
    <3>2. locals = <<>> /\ pending = <<>>
      BY <1>10, <2>2 DEF BatchDone, Drained
    <3>3. queue = <<>> BY <3>2, ConcatEmptySeq DEF TypeOK
    <3>4. UNCHANGED <<queue, executed, refused>> BY <1>10 DEF BatchDone
    <3> QED BY <3>1, <3>3, <3>4 DEF Executor!Stop, Executor!Next
  <2> QED BY <1>10, <2>1, <2>2 DEF BatchDone
<1>11. ASSUME NEW c \in Channels, Arrive(c) PROVE Stutter
  BY <1>11 DEF Arrive
<1>12. CASE UNCHANGED vars BY <1>12, <1>a DEF vars
<1> QED
  <2>1. \A p \in Posters : Post(p) => Executor!Next \/ UNCHANGED Executor!execVars
    BY <1>a, <1>1, <1>2, <1>3, NextTaskInTask DEF Post, PostRefuse, PostPush, Executor!Next
  <2>2. \A q \in Quitters : Quit(q) => Executor!Next \/ UNCHANGED Executor!execVars
    BY <1>a, <1>4, <1>5 DEF Quit, Executor!Next
  <2>3. \A c \in Channels : Handle(c) \/ Arrive(c) =>
            Executor!Next \/ UNCHANGED Executor!execVars
    BY <1>a, <1>7, <1>11 DEF Executor!Next
  <2> QED
    BY <2>1, <2>2, <2>3, <1>6, <1>8, <1>9, <1>10, <1>12, <1>a
       DEF Next, LoopThread

\* EventLoop implements TaskExecutor: callers of runInLoop() and quit() may
\* rely on the contract alone (EventLoop.hpp:89-107).
THEOREM Refinement == Spec => ImplementsExecutor
<1>1. IInv /\ [Next]_vars => [Executor!Next]_(Executor!execVars)
  BY ExecutorStep
<1> QED
  BY <1>1, ExecutorInit, Inductive, PTL DEF Spec, ImplementsExecutor, Executor!Spec
============================================================================
