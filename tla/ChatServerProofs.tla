-------------------------- MODULE ChatServerProofs --------------------------
(***************************************************************************)
(* Proofs about ChatServer for any number of loops, connections, nicknames *)
(* and messages: the nickname index, the batches, the order in which one   *)
(* sender's messages arrive; and what holds with one sub Reactor only.     *)
(***************************************************************************)
EXTENDS ChatServer, TLAPS, SequenceTheorems, FiniteSetTheorems

Msg == [from : Conns, n : Nat, to : Nicks \union {Everyone}]

Task ==
    [kind : {"adopt"}, conn : Conns]
    \union [kind : {"users"}, list : SUBSET Nicks]
    \union [kind : {"chat"}, msg : Msg]
    \union [kind : {"private"}, fd : Fds \union {NoFd}, msg : Msg]
    \union [kind : {"idle"}]

Post == [to : Loops, task : Task]

\* The connections and the index.
ConnsOK ==
    /\ accepted \in 0 .. MaxConns
    /\ cstate \in [Conns -> {"new", "accepted", "live", "closed", "freed"}]
    /\ fdOf \in [Conns -> Fds \union {NoFd}]
    /\ nick \in [Conns -> Nicks \union {NoNick}]
    /\ index \subseteq [nick : Nicks, loop : Loops, fd : Fds \union {NoFd}]
    /\ \A c \in Conns : accepted < c => cstate[c] = "new"
    /\ \A c, d \in Conns : nick[c] = nick[d] /\ nick[c] # NoNick => c = d
    /\ NamesMatch

\* A task adopts a connection that has been accepted.
AdoptsAccepted(t) == t.kind = "adopt" => t.conn <= accepted

Queued(j) ==
    {pending[j][k] : k \in DOMAIN pending[j]} \union {locals[j][k] : k \in DOMAIN locals[j]}
Posted(i) == {posts[i][k] : k \in DOMAIN posts[i]}

\* The queues of the loops.
QueuesOK ==
    /\ said \in Nat
    /\ pending \in [Loops -> Seq(Task)]
    /\ locals \in [Loops -> Seq(Task)]
    /\ posts \in [Loops -> Seq(Post)]
    /\ \A j \in Loops : \A t \in Queued(j) : AdoptsAccepted(t)
    /\ \A i \in Loops : \A p \in Posted(i) : p.task.kind # "adopt"

\* The batches: of the loop's own connections, and empty outside of phase
\* "events", so that the safe point frees none that a batch holds.
BatchesOK ==
    /\ phase \in [Loops -> {"poll", "events", "tasks", "bcast"}]
    /\ ready \in [Loops -> Seq(Conns)]
    /\ \A i \in Loops : \A k \in DOMAIN ready[i] :
          Owner(ready[i][k]) = i /\ cstate[ready[i][k]] # "freed"
    /\ \A i \in Loops : phase[i] # "events" => ready[i] = <<>>

IInv == ConnsOK /\ QueuesOK /\ BatchesOK

----------------------------------------------------------------------------
(* Sequences *)

LEMMA Appended ==
    ASSUME NEW T, NEW s \in Seq(T), NEW x \in T
    PROVE  /\ Append(s, x) \in Seq(T)
           /\ DOMAIN Append(s, x) = DOMAIN s \union {Len(s) + 1}
           /\ \A k \in DOMAIN s : Append(s, x)[k] = s[k] /\ k < Len(s) + 1 /\ k \in Nat
           /\ Append(s, x)[Len(s) + 1] = x
           /\ Len(s) + 1 \in Nat
OBVIOUS

LEMMA Beheaded ==
    ASSUME NEW T, NEW s \in Seq(T), s # <<>>
    PROVE  /\ Tail(s) \in Seq(T)
           /\ 1 \in DOMAIN s /\ Head(s) = s[1] /\ Head(s) \in T
           /\ \A k \in DOMAIN Tail(s) : /\ k + 1 \in DOMAIN s
                                        /\ Tail(s)[k] = s[k + 1]
                                        /\ k \in Nat /\ k # 0 /\ k + 1 # 1
OBVIOUS

LEMMA Owners ==
    /\ NLoops \in Nat \ {0} /\ MaxConns \in Nat
    /\ Conns \subseteq Nat
    /\ \A c \in Conns : Owner(c) \in Loops
<1>1. NLoops \in Nat \ {0} /\ MaxConns \in Nat BY LoopsAssumption
<1>2. ASSUME NEW c \in Conns PROVE Owner(c) \in Loops
  <2>1. c - 1 \in Nat BY <1>1 DEF Conns
  <2> QED BY <1>1, <2>1 DEF Owner, Loops
<1> QED BY <1>1, <1>2 DEF Conns

----------------------------------------------------------------------------
(* The connections *)

\* closeConn: the entry of a closed connection goes with it, and no other.
LEMMA CloseKeeps ==
    ASSUME ConnsOK, NEW i \in Loops, NEW S, S \subseteq {c \in Conns : cstate[c] = "live"},
           CloseAll(i, S), accepted' = accepted
    PROVE  /\ ConnsOK'
           /\ \A c \in Conns : cstate'[c] = "freed" => cstate[c] = "freed"
<1>1. /\ cstate' = [c \in Conns |-> IF c \in S THEN "closed" ELSE cstate[c]]
      /\ fdOf' = [c \in Conns |-> IF c \in S THEN NoFd ELSE fdOf[c]]
      /\ nick' = [c \in Conns |-> IF c \in S THEN NoNick ELSE nick[c]]
      /\ index' = {e \in index : \A c \in S : e.nick # nick[c]}
  BY DEF CloseAll
<1>2. /\ cstate' \in [Conns -> {"new", "accepted", "live", "closed", "freed"}]
      /\ fdOf' \in [Conns -> Fds \union {NoFd}]
      /\ nick' \in [Conns -> Nicks \union {NoNick}]
      /\ index' \subseteq index
  BY <1>1 DEF ConnsOK
<1>3. \A c \in Conns : accepted < c => cstate'[c] = "new" BY <1>1 DEF ConnsOK
<1>4. \A c, d \in Conns : nick'[c] = nick'[d] /\ nick'[c] # NoNick => c = d
  BY <1>1 DEF ConnsOK
<1>5. ASSUME NEW c \in Conns, nick'[c] # NoNick
      PROVE  /\ cstate'[c] = "live"
             /\ [nick |-> nick'[c], loop |-> Owner(c), fd |-> fdOf'[c]] \in index'
  <2>1. c \notin S /\ nick'[c] = nick[c] /\ fdOf'[c] = fdOf[c] /\ cstate'[c] = cstate[c]
    BY <1>1, <1>5
  <2>2. /\ cstate[c] = "live"
        /\ [nick |-> nick[c], loop |-> Owner(c), fd |-> fdOf[c]] \in index
    BY <1>5, <2>1 DEF ConnsOK, NamesMatch
  <2>3. \A d \in S : nick[c] # nick[d] BY <1>5, <2>1 DEF ConnsOK
  <2> QED BY <1>1, <2>1, <2>2, <2>3
<1>6. ASSUME NEW e \in index'
      PROVE  \E c \in Conns : /\ cstate'[c] = "live"
                              /\ nick'[c] = e.nick /\ Owner(c) = e.loop /\ fdOf'[c] = e.fd
  <2>1. PICK c \in Conns : /\ cstate[c] = "live"
                           /\ nick[c] = e.nick /\ Owner(c) = e.loop /\ fdOf[c] = e.fd
    BY <1>2 DEF ConnsOK, NamesMatch
  <2>2. c \notin S BY <1>1, <2>1
  <2> QED BY <1>1, <2>1, <2>2
<1>7. NamesMatch' BY <1>2, <1>5, <1>6 DEF ConnsOK, NamesMatch, Owner
<1> QED BY <1>1, <1>2, <1>3, <1>4, <1>7 DEF ConnsOK

\* A task run by its loop.
LEMMA TaskKeeps ==
    ASSUME ConnsOK, NEW i \in Loops, NEW t \in Task, AdoptsAccepted(t),
           RunTask(i, t), accepted' = accepted
    PROVE  /\ ConnsOK'
           /\ \A c \in Conns : cstate'[c] = "freed" => cstate[c] = "freed"
<1> DEFINE Live == {c \in Conns : cstate[c] = "live"}
<1>0. /\ LiveOn(i) \subseteq Live
      /\ LoggedConnsOf(i) \subseteq Live
      /\ \A S : S \subseteq Live => FailedOf(S) \subseteq Live
  BY DEF LiveOn, LoggedConnsOf, FailedOf
<1>1. CASE RunAdopt(i, t)
  <2>1. /\ t.conn \in Conns /\ t.conn <= accepted
        /\ cstate' = [cstate EXCEPT ![t.conn] = "live"]
        /\ UNCHANGED <<fdOf, nick, index>>
    BY <1>1 DEF RunAdopt, AdoptsAccepted, Task
  <2>2. \A c \in Conns : accepted < c => cstate'[c] = "new"
    <3>1. \A c \in Conns : accepted < c => c # t.conn
      BY <2>1, Owners DEF ConnsOK
    <3> QED BY <2>1, <3>1 DEF ConnsOK
  <2>3. \A c \in Conns : cstate'[c] = cstate[c] \/ cstate'[c] = "live"
    BY <2>1 DEF ConnsOK
  <2>4. NamesMatch' BY <2>1, <2>3 DEF ConnsOK, NamesMatch, Owner
  <2> QED BY <2>1, <2>2, <2>3, <2>4 DEF ConnsOK
<1>2. CASE RunUsers(i, t)
  <2>1. CloseAll(i, FailedOf(LoggedConnsOf(i))) BY <1>2 DEF RunUsers
  <2> QED BY <1>0, <2>1, CloseKeeps
<1>3. CASE RunChat(i, t)
  <2>1. CloseAll(i, FailedOf(LoggedConnsOf(i) \ {t.msg.from})) BY <1>3 DEF RunChat
  <2> QED BY <1>0, <2>1, CloseKeeps
<1>4. CASE RunPrivate(i, t)
  <2>1. CloseAll(i, FailedOf({c \in LiveOn(i) : fdOf[c] = t.fd})) BY <1>4 DEF RunPrivate
  <2>2. {c \in LiveOn(i) : fdOf[c] = t.fd} \subseteq Live BY <1>0
  <2> QED BY <1>0, <2>1, <2>2, CloseKeeps
<1>5. CASE RunIdle(i, t)
  <2>1. PICK S \in SUBSET LiveOn(i) : CloseAll(i, S) BY <1>5 DEF RunIdle
  <2> QED BY <1>0, <2>1, CloseKeeps
<1> QED BY <1>1, <1>2, <1>3, <1>4, <1>5 DEF RunTask

----------------------------------------------------------------------------
(* What a step leaves alone *)

LEMMA ConnsStay ==
    ConnsOK /\ UNCHANGED <<accepted, cstate, fdOf, nick, index>> => ConnsOK'
BY DEF ConnsOK, NamesMatch, Owner

LEMMA QueuesStay ==
    QueuesOK /\ UNCHANGED <<accepted, said, pending, locals, posts>> => QueuesOK'
BY DEF QueuesOK, Queued, Posted, AdoptsAccepted

LEMMA BatchesStay ==
    ASSUME BatchesOK, UNCHANGED <<phase, ready>>,
           \A c \in Conns : cstate'[c] = "freed" => cstate[c] = "freed"
    PROVE  BatchesOK'
<1>1. \A i \in Loops : \A k \in DOMAIN ready[i] : ready[i][k] \in Conns
  BY DEF BatchesOK
<1> QED BY <1>1 DEF BatchesOK, Owner

\* A task more in a queue.
LEMMA QueuesGrow ==
    ASSUME QueuesOK, NEW j \in Loops, NEW t \in Task,
           pending' = [pending EXCEPT ![j] = Append(@, t)], locals' = locals,
           accepted' \in Nat, accepted \in Nat, accepted <= accepted', MaxConns \in Nat,
           t.kind = "adopt" => t.conn <= accepted'
    PROVE  /\ pending' \in [Loops -> Seq(Task)]
           /\ Queued(j)' = Queued(j) \union {t}
           /\ \A k \in Loops \ {j} : Queued(k)' = Queued(k)
           /\ \A k \in Loops : \A u \in Queued(k)' : AdoptsAccepted(u)'
<1>1. /\ Append(pending[j], t) \in Seq(Task)
      /\ DOMAIN Append(pending[j], t) = DOMAIN pending[j] \union {Len(pending[j]) + 1}
      /\ \A k \in DOMAIN pending[j] : Append(pending[j], t)[k] = pending[j][k]
      /\ Append(pending[j], t)[Len(pending[j]) + 1] = t
  BY Appended DEF QueuesOK
<1>2. /\ pending' \in [Loops -> Seq(Task)]
      /\ pending'[j] = Append(pending[j], t)
      /\ \A k \in Loops \ {j} : pending'[k] = pending[k]
  BY <1>1 DEF QueuesOK
<1>3. Queued(j)' = Queued(j) \union {t} BY <1>1, <1>2 DEF Queued
<1>4. \A k \in Loops \ {j} : Queued(k)' = Queued(k) BY <1>2 DEF Queued
<1>5. ASSUME NEW k \in Loops, NEW u \in Queued(k), u.kind = "adopt"
      PROVE  u.conn <= accepted'
  <2>1. u.conn <= accepted BY <1>5 DEF QueuesOK, AdoptsAccepted
  <2>2. u \in Task
    <3>1. pending[k] \in Seq(Task) /\ locals[k] \in Seq(Task) BY DEF QueuesOK
    <3> QED BY <3>1 DEF Queued
  <2>3. u.conn \in Nat BY <1>5, <2>2, Owners DEF Task
  <2> QED BY <2>1, <2>3
<1>6. \A k \in Loops : \A u \in Queued(k)' : AdoptsAccepted(u)'
  BY <1>3, <1>4, <1>5 DEF AdoptsAccepted
<1> QED BY <1>2, <1>3, <1>4, <1>6

LEMMA QueuedTasks ==
    ASSUME QueuesOK, NEW j \in Loops
    PROVE  Queued(j) \subseteq Task /\ Posted(j) \subseteq Post
<1>1. pending[j] \in Seq(Task) /\ locals[j] \in Seq(Task) /\ posts[j] \in Seq(Post)
  BY DEF QueuesOK
<1> QED BY <1>1 DEF Queued, Posted

\* The message of every loop, and the message of one.
LEMMA ForEachPosts ==
    ASSUME NEW t \in Task
    PROVE  /\ ForEachSub(t) \in Seq(Post)
           /\ \A a, b \in DOMAIN ForEachSub(t) :
                 ForEachSub(t)[a].to = ForEachSub(t)[b].to => a = b
           /\ \A a \in DOMAIN ForEachSub(t) : ForEachSub(t)[a].task = t
<1>1. NLoops \in Nat BY Owners
<1>2. \A k \in 1 .. NLoops : k - 1 \in Loops BY <1>1 DEF Loops
<1>3. \A k \in 1 .. NLoops : [to |-> k - 1, task |-> t] \in Post BY <1>2 DEF Post
<1>4. ForEachSub(t) \in [1 .. NLoops -> Post] BY <1>3 DEF ForEachSub
<1>5. ForEachSub(t) \in Seq(Post) BY <1>1, <1>4
<1> QED BY <1>1, <1>5 DEF ForEachSub

LEMMA NewPosts ==
    ASSUME QueuesOK, NEW i \in Loops, NEW s \in Seq(Post),
           posts' = [posts EXCEPT ![i] = s],
           \A k \in DOMAIN s : s[k].task.kind # "adopt",
           said' \in Nat, UNCHANGED <<accepted, pending, locals>>
    PROVE  QueuesOK'
<1>1. /\ posts' \in [Loops -> Seq(Post)]
      /\ posts'[i] = s
      /\ \A j \in Loops \ {i} : posts'[j] = posts[j]
  BY DEF QueuesOK
<1> QED BY <1>1 DEF QueuesOK, Queued, Posted, AdoptsAccepted

----------------------------------------------------------------------------
(* The steps of the main thread and of the peers *)

LEMMA InitInv == Init => IInv
<1> SUFFICES ASSUME Init PROVE IInv OBVIOUS
<1>1. ConnsOK BY Owners DEF Init, ConnsOK, NamesMatch
<1>2. QueuesOK BY EmptySeq DEF Init, QueuesOK, Queued, Posted
<1>3. BatchesOK BY EmptySeq DEF Init, BatchesOK
<1> QED BY <1>1, <1>2, <1>3 DEF IInv

LEMMA AcceptInv == IInv /\ OnAccept => IInv'
<1> SUFFICES ASSUME IInv, OnAccept PROVE IInv' OBVIOUS
<1> DEFINE c == accepted + 1
<1>1. PICK fd \in Fds :
        /\ accepted < MaxConns
        /\ accepted' = c
        /\ cstate' = [cstate EXCEPT ![c] = "accepted"]
        /\ fdOf' = [fdOf EXCEPT ![c] = fd]
        /\ pending' = [pending EXCEPT ![Owner(c)] = Append(@, Adopt(c))]
        /\ UNCHANGED <<nick, index, said, locals, posts, phase, ready>>
  BY DEF OnAccept, loopVars
<1>2. /\ c \in Conns /\ c \in Nat /\ accepted \in Nat
      /\ accepted' \in 0 .. MaxConns
      /\ cstate[c] = "new"
  <2>1. accepted \in 0 .. MaxConns /\ MaxConns \in Nat BY Owners DEF IInv, ConnsOK
  <2>2. c \in Conns BY <1>1, <2>1 DEF Conns
  <2> QED BY <1>1, <2>1, <2>2 DEF IInv, ConnsOK
<1>3. ConnsOK'
  <2>1. nick[c] = NoNick /\ \A e \in index : \E d \in Conns \ {c} :
             /\ cstate[d] = "live"
             /\ nick[d] = e.nick /\ Owner(d) = e.loop /\ fdOf[d] = e.fd
    BY <1>2 DEF IInv, ConnsOK, NamesMatch
  <2>2. /\ cstate' \in [Conns -> {"new", "accepted", "live", "closed", "freed"}]
        /\ fdOf' \in [Conns -> Fds \union {NoFd}]
        /\ \A d \in Conns \ {c} : cstate'[d] = cstate[d] /\ fdOf'[d] = fdOf[d]
    BY <1>1, <1>2 DEF IInv, ConnsOK
  <2>3. NamesMatch'
    BY <1>1, <2>1, <2>2 DEF IInv, ConnsOK, NamesMatch, Owner
  <2>4. \A d \in Conns : accepted' < d => cstate'[d] = "new"
    <3>1. \A d \in Conns : accepted' < d => d # c /\ accepted < d
      BY <1>1, <1>2, Owners
    <3> QED BY <2>2, <3>1 DEF IInv, ConnsOK
  <2> QED BY <1>1, <1>2, <2>2, <2>3, <2>4 DEF IInv, ConnsOK
<1>4. QueuesOK'
  <2>1. Adopt(c) \in Task /\ Adopt(c).kind = "adopt" /\ Adopt(c).conn = c
    BY <1>2 DEF Adopt, Task
  <2>2. Owner(c) \in Loops BY <1>2, Owners
  <2>3. /\ pending' \in [Loops -> Seq(Task)]
        /\ \A k \in Loops : \A u \in Queued(k)' : AdoptsAccepted(u)'
    <3>1. accepted' \in Nat /\ accepted <= accepted' /\ c <= accepted'
      BY <1>1, <1>2
    <3> HIDE DEF c
    <3> QED BY <1>1, <1>2, <2>1, <2>2, <3>1, QueuesGrow, Owners DEF IInv
  <2> QED BY <1>1, <2>3 DEF IInv, QueuesOK, Posted
<1>5. BatchesOK'
  <2>1. \A d \in Conns : cstate'[d] = "freed" => cstate[d] = "freed"
    BY <1>1, <1>2 DEF IInv, ConnsOK
  <2> QED BY <1>1, <2>1, BatchesStay DEF IInv
<1> QED BY <1>3, <1>4, <1>5 DEF IInv

LEMMA TickInv == ASSUME IInv, NEW i \in Loops, OnIdleTick(i) PROVE IInv'
<1>1. /\ pending' = [pending EXCEPT ![i] = Append(@, IdleScan)]
      /\ UNCHANGED <<accepted, said, posts, cstate, fdOf, nick, index, locals, phase, ready>>
  BY DEF OnIdleTick, connVars, loopVars
<1>2. IdleScan \in Task /\ IdleScan.kind = "idle" BY DEF IdleScan, Task
<1>3. accepted \in Nat BY Owners DEF IInv, ConnsOK
<1>4. /\ pending' \in [Loops -> Seq(Task)]
      /\ \A k \in Loops : \A u \in Queued(k)' : AdoptsAccepted(u)'
  <2>1. accepted' \in Nat /\ accepted <= accepted' BY <1>1, <1>3
  <2> QED BY <1>1, <1>2, <1>3, <2>1, QueuesGrow, Owners DEF IInv
<1>5. QueuesOK' BY <1>1, <1>4 DEF IInv, QueuesOK, Posted
<1> QED BY <1>1, <1>5, ConnsStay, BatchesStay DEF IInv

LEMMA ResetInv == ASSUME IInv, NEW c \in Conns, PeerResets(c) PROVE IInv'
<1>1. UNCHANGED <<accepted, said, pending, locals, posts, cstate, fdOf, nick, index, phase, ready>>
  BY DEF PeerResets, connVars, loopVars
<1> QED BY <1>1, ConnsStay, QueuesStay, BatchesStay DEF IInv

----------------------------------------------------------------------------
(* The steps of a sub Reactor: a batch of events *)

LEMMA PollInv == ASSUME IInv, NEW i \in Loops, Poll(i) PROVE IInv'
<1>1. /\ phase[i] = "poll"
      /\ phase' = [phase EXCEPT ![i] = "events"]
      /\ UNCHANGED <<accepted, said, pending, posts, cstate, fdOf, nick, index, locals>>
  BY DEF Poll, connVars
<1>2. PICK S \in SUBSET LiveOn(i) :
         \E batch \in SetToSeqs(S) : ready' = [ready EXCEPT ![i] = batch]
  BY DEF Poll
<1>3. PICK batch \in SetToSeqs(S) : ready' = [ready EXCEPT ![i] = batch]
  BY <1>2
<1>4. \A c \in S : c \in Conns /\ cstate[c] = "live" /\ Owner(c) = i
  BY <1>2 DEF LiveOn
<1>5. Cardinality(S) \in Nat
  <2>1. IsFiniteSet(Conns) BY Owners, FS_Interval DEF Conns
  <2>2. S \subseteq Conns BY <1>4
  <2> QED BY <2>1, <2>2, FS_Subset, FS_CardinalityType
<1>6. batch \in [1 .. Cardinality(S) -> S] BY <1>3 DEF SetToSeqs
<1>7. batch \in Seq(Conns) BY <1>4, <1>5, <1>6
<1>8. \A k \in DOMAIN batch : batch[k] \in S BY <1>6
<1>9. /\ ready' \in [Loops -> Seq(Conns)] /\ ready'[i] = batch
      /\ \A j \in Loops \ {i} : ready'[j] = ready[j]
  BY <1>3, <1>7 DEF IInv, BatchesOK
<1>10. /\ phase' \in [Loops -> {"poll", "events", "tasks", "bcast"}]
       /\ phase'[i] = "events"
       /\ \A j \in Loops \ {i} : phase'[j] = phase[j]
  BY <1>1 DEF IInv, BatchesOK
<1>11. BatchesOK'
  <2>1. ASSUME NEW j \in Loops
        PROVE  /\ \A k \in DOMAIN ready'[j] :
                     Owner(ready'[j][k]) = j /\ cstate'[ready'[j][k]] # "freed"
               /\ phase'[j] # "events" => ready'[j] = <<>>
    <3>1. CASE j = i BY <1>1, <1>4, <1>8, <1>9, <1>10, <3>1
    <3>2. CASE j # i BY <1>1, <1>9, <1>10, <3>2 DEF IInv, BatchesOK
    <3> QED BY <3>1, <3>2
  <2> QED BY <1>9, <1>10, <2>1 DEF BatchesOK, Owner
<1> QED BY <1>1, <1>11, ConnsStay, QueuesStay DEF IInv

\* The connection of the callback that runs.
LEMMA Dispatched ==
    ASSUME BatchesOK, NEW i \in Loops, NEW c \in Conns, Dispatching(i, c)
    PROVE  Owner(c) = i
<1>1. ready[i] \in Seq(Conns) /\ ready[i] # <<>> /\ c = Head(ready[i])
  BY DEF Dispatching, BatchesOK
<1>2. 1 \in DOMAIN ready[i] /\ c = ready[i][1] BY <1>1
<1> QED BY <1>2 DEF BatchesOK

LEMMA EventDoneInv == ASSUME IInv, NEW i \in Loops, EventDone(i) PROVE IInv'
<1>1. /\ phase[i] = "events" /\ ready[i] # <<>>
      /\ ready' = [ready EXCEPT ![i] = Tail(@)]
      /\ UNCHANGED <<accepted, said, pending, posts, cstate, fdOf, nick, index, locals, phase>>
  BY DEF EventDone, Dispatching, LeaveBatch, connVars
<1>2. /\ Tail(ready[i]) \in Seq(Conns)
      /\ \A k \in DOMAIN Tail(ready[i]) :
            k + 1 \in DOMAIN ready[i] /\ Tail(ready[i])[k] = ready[i][k + 1]
  BY <1>1, Beheaded DEF IInv, BatchesOK
<1>3. /\ ready' \in [Loops -> Seq(Conns)] /\ ready'[i] = Tail(ready[i])
      /\ \A j \in Loops \ {i} : ready'[j] = ready[j]
  BY <1>1, <1>2 DEF IInv, BatchesOK
<1>4. BatchesOK' BY <1>1, <1>2, <1>3 DEF IInv, BatchesOK, Owner
<1> QED BY <1>1, <1>4, ConnsStay, QueuesStay DEF IInv

LEMMA EventCloseInv == ASSUME IInv, NEW i \in Loops, EventClose(i) PROVE IInv'
<1>1. PICK c \in Conns : cstate[c] = "live" /\ CloseAll(i, {c})
  BY DEF EventClose
<1>2. UNCHANGED <<accepted, said, pending, posts, locals, phase, ready>>
  BY DEF EventClose, loopVars
<1>3. {c} \subseteq {d \in Conns : cstate[d] = "live"} BY <1>1
<1>4. /\ ConnsOK'
      /\ \A d \in Conns : cstate'[d] = "freed" => cstate[d] = "freed"
  BY <1>1, <1>2, <1>3, CloseKeeps DEF IInv
<1> QED BY <1>2, <1>4, QueuesStay, BatchesStay DEF IInv

LEMMA LoginInv ==
    ASSUME IInv, NEW i \in Loops, NEW c \in Conns, NEW n \in Nicks, HandleLogin(i, c, n)
    PROVE  IInv'
<1> DEFINE entry == [nick |-> n, loop |-> i, fd |-> fdOf[c]]
<1>1. /\ Dispatching(i, c) /\ cstate[c] = "live"
      /\ nick[c] = NoNick /\ n \notin OnlineNicks
      /\ nick' = [nick EXCEPT ![c] = n]
      /\ index' = index \union {entry}
      /\ UNCHANGED <<accepted, said, pending, posts, cstate, fdOf, locals, phase, ready>>
  BY DEF HandleLogin, TakesFrame, loopVars
<1>2. Owner(c) = i BY <1>1, Dispatched DEF IInv
<1>3. /\ nick' \in [Conns -> Nicks \union {NoNick}]
      /\ nick'[c] = n
      /\ \A d \in Conns \ {c} : nick'[d] = nick[d]
  BY <1>1 DEF IInv, ConnsOK
<1>4. index' \subseteq [nick : Nicks, loop : Loops, fd : Fds \union {NoFd}]
  BY <1>1 DEF IInv, ConnsOK
<1>5. /\ \A e \in index : e.nick # n
      /\ n # NoNick
      /\ \A d \in Conns : nick[d] # n
  <2>1. \A e \in index : e.nick # n BY <1>1 DEF OnlineNicks
  <2>2. n # NoNick BY ConstantsAssumption
  <2>3. ASSUME NEW d \in Conns, nick[d] = n PROVE FALSE
    <3>1. [nick |-> nick[d], loop |-> Owner(d), fd |-> fdOf[d]] \in index
      BY <2>2, <2>3 DEF IInv, ConnsOK, NamesMatch
    <3> QED BY <2>1, <2>3, <3>1
  <2> QED BY <2>1, <2>2, <2>3
<1>6. \A d, f \in Conns : nick'[d] = nick'[f] /\ nick'[d] # NoNick => d = f
  BY <1>3, <1>5 DEF IInv, ConnsOK
<1>7. NamesMatch'
  <2>1. \A d \in Conns : nick'[d] # NoNick =>
          /\ cstate'[d] = "live"
          /\ [nick |-> nick'[d], loop |-> Owner(d), fd |-> fdOf'[d]] \in index'
    BY <1>1, <1>2, <1>3 DEF IInv, ConnsOK, NamesMatch
  <2>2. \A e \in index' : \E d \in Conns :
          /\ cstate'[d] = "live"
          /\ nick'[d] = e.nick /\ Owner(d) = e.loop /\ fdOf'[d] = e.fd
    <3> SUFFICES ASSUME NEW e \in index'
                 PROVE  \E d \in Conns :
                          /\ cstate'[d] = "live"
                          /\ nick'[d] = e.nick /\ Owner(d) = e.loop /\ fdOf'[d] = e.fd
      OBVIOUS
    <3>1. CASE e = entry BY <1>1, <1>2, <1>3, <3>1
    <3>2. CASE e \in index
      <4>1. PICK d \in Conns :
               /\ cstate[d] = "live"
               /\ nick[d] = e.nick /\ Owner(d) = e.loop /\ fdOf[d] = e.fd
        BY <3>2 DEF IInv, ConnsOK, NamesMatch
      <4>2. d # c
        <5>1. e.nick \in Nicks BY <3>2 DEF IInv, ConnsOK
        <5> QED BY <1>1, <4>1, <5>1, ConstantsAssumption
      <4> QED BY <1>1, <1>3, <4>1, <4>2
    <3> QED BY <1>1, <3>1, <3>2
  <2>3. \A e, f \in index' : e.nick = f.nick => e = f
    BY <1>1, <1>5 DEF IInv, ConnsOK, NamesMatch
  <2> QED BY <2>1, <2>2, <2>3 DEF NamesMatch, Owner
<1>8. ConnsOK' BY <1>1, <1>3, <1>4, <1>6, <1>7 DEF IInv, ConnsOK
<1> QED BY <1>1, <1>8, QueuesStay, BatchesStay DEF IInv

LEMMA MessageType ==
    ASSUME QueuesOK, NEW c \in Conns, NEW to \in Nicks \union {Everyone}
    PROVE  Message(c, to) \in Msg
BY DEF QueuesOK, Message, Msg

LEMMA SayAllInv ==
    ASSUME IInv, NEW i \in Loops, NEW c \in Conns, HandleSayAll(i, c)
    PROVE  IInv'
<1> DEFINE t == SendChat(Message(c, Everyone))
<1>1. /\ said' = said + 1
      /\ posts' = [posts EXCEPT ![i] = ForEachSub(t)]
      /\ UNCHANGED <<accepted, pending, cstate, fdOf, nick, index, locals, phase, ready>>
  BY DEF HandleSayAll, TakesSay, connVars, loopVars
<1>2. t \in Task /\ t.kind = "chat" BY MessageType DEF IInv, SendChat, Task
<1>3. said' \in Nat BY <1>1 DEF IInv, QueuesOK
<1> HIDE DEF t
<1>4. QueuesOK'
  <2>1. \A k \in DOMAIN ForEachSub(t) : ForEachSub(t)[k].task.kind # "adopt"
    BY <1>2, ForEachPosts
  <2>2. ForEachSub(t) \in Seq(Post) BY <1>2, ForEachPosts
  <2> QED BY <1>1, <1>3, <2>1, <2>2, NewPosts DEF IInv
<1> QED BY <1>1, <1>4, ConnsStay, BatchesStay DEF IInv

LEMMA SayToPosts ==
    ASSUME IInv, NEW i \in Loops, NEW c \in Conns, NEW n \in Nicks, HandleSayTo(i, c, n)
    PROVE  \E p \in Post :
             /\ posts' = [posts EXCEPT ![i] = <<p>>]
             /\ p.task.kind = "private" /\ p.task.msg = Message(c, n)
<1>1. PICK e \in index :
         posts' = [posts EXCEPT ![i] =
             <<[to |-> e.loop, task |-> SendPrivate(e.fd, Message(c, n))]>>]
  BY DEF HandleSayTo
<1>2. Message(c, n) \in Msg BY MessageType DEF IInv
<1>3. e.loop \in Loops /\ e.fd \in Fds \union {NoFd} BY DEF IInv, ConnsOK
<1>4. /\ SendPrivate(e.fd, Message(c, n)) \in Task
      /\ SendPrivate(e.fd, Message(c, n)).kind = "private"
      /\ SendPrivate(e.fd, Message(c, n)).msg = Message(c, n)
  BY <1>2, <1>3 DEF SendPrivate, Task
<1> DEFINE p == [to |-> e.loop, task |-> SendPrivate(e.fd, Message(c, n))]
<1>5. p \in Post BY <1>3, <1>4 DEF Post
<1>6. p.task.kind = "private" /\ p.task.msg = Message(c, n) BY <1>4
<1>7. posts' = [posts EXCEPT ![i] = <<p>>] BY <1>1
<1> QED BY <1>5, <1>6, <1>7

LEMMA SayToInv ==
    ASSUME IInv, NEW i \in Loops, NEW c \in Conns, NEW n \in Nicks, HandleSayTo(i, c, n)
    PROVE  IInv'
<1>1. /\ said' = said + 1
      /\ UNCHANGED <<accepted, pending, cstate, fdOf, nick, index, locals, phase, ready>>
  BY DEF HandleSayTo, TakesSay, connVars, loopVars
<1>2. PICK p \in Post : /\ posts' = [posts EXCEPT ![i] = <<p>>]
                       /\ p.task.kind = "private"
  BY SayToPosts
<1>3. <<p>> \in Seq(Post) /\ \A k \in DOMAIN <<p>> : <<p>>[k] = p OBVIOUS
<1>4. said' \in Nat BY <1>1 DEF IInv, QueuesOK
<1>5. QueuesOK' BY <1>1, <1>2, <1>3, <1>4, NewPosts DEF IInv
<1> QED BY <1>1, <1>5, ConnsStay, BatchesStay DEF IInv

----------------------------------------------------------------------------
(* The steps of a sub Reactor: posts, tasks and the safe point *)

\* The post at the head of what is left of a broadcast.
LEMMA PostTaken ==
    ASSUME QueuesOK, NEW i \in Loops, PostOne(i)
    PROVE  /\ posts[i] # <<>> /\ posts[i][1] \in Post
           /\ 1 \in DOMAIN posts[i] /\ Head(posts[i]) = posts[i][1]
           /\ posts' \in [Loops -> Seq(Post)]
           /\ posts'[i] = Tail(posts[i])
           /\ \A j \in Loops \ {i} : posts'[j] = posts[j]
           /\ \A k \in DOMAIN posts'[i] : /\ k + 1 \in DOMAIN posts[i] /\ k + 1 # 1
                                          /\ k \in Nat
                                          /\ posts'[i][k] = posts[i][k + 1]
<1>1. posts[i] # <<>> /\ posts' = [posts EXCEPT ![i] = Tail(@)] BY DEF PostOne
<1>2. posts[i] \in Seq(Post) BY DEF QueuesOK
<1>3. Tail(posts[i]) \in Seq(Post) BY <1>1, <1>2, Beheaded
<1>4. posts' \in [Loops -> Seq(Post)] /\ posts'[i] = Tail(posts[i])
      /\ \A j \in Loops \ {i} : posts'[j] = posts[j]
  BY <1>1, <1>3 DEF QueuesOK
<1>5. /\ 1 \in DOMAIN posts[i] /\ Head(posts[i]) = posts[i][1] /\ Head(posts[i]) \in Post
      /\ \A k \in DOMAIN Tail(posts[i]) : /\ k + 1 \in DOMAIN posts[i] /\ k + 1 # 1
                                          /\ k \in Nat
                                          /\ Tail(posts[i])[k] = posts[i][k + 1]
  BY <1>1, <1>2, Beheaded
<1> QED BY <1>1, <1>4, <1>5

LEMMA PostOneInv == ASSUME IInv, NEW i \in Loops, PostOne(i) PROVE IInv'
<1> DEFINE p == posts[i][1]
<1>1. QueuesOK /\ ConnsOK BY DEF IInv
<1>2. /\ p \in Post /\ 1 \in DOMAIN posts[i] /\ Head(posts[i]) = p
      /\ posts' \in [Loops -> Seq(Post)]
      /\ \A j \in Loops \ {i} : posts'[j] = posts[j]
      /\ \A k \in DOMAIN posts'[i] : k + 1 \in DOMAIN posts[i] /\ posts'[i][k] = posts[i][k + 1]
  BY <1>1, PostTaken
<1>3. p.task \in Task /\ p.to \in Loops BY <1>2 DEF Post
<1>4. p.task.kind # "adopt"
  <2>1. p \in Posted(i) BY <1>2 DEF Posted
  <2> QED BY <1>1, <2>1 DEF QueuesOK
<1>5. \A j \in Loops : \A q \in Posted(j)' : q.task.kind # "adopt"
  <2>1. Posted(i)' \subseteq Posted(i) BY <1>2 DEF Posted
  <2>2. \A j \in Loops \ {i} : Posted(j)' = Posted(j) BY <1>2 DEF Posted
  <2>3. \A j \in Loops : Posted(j)' \subseteq Posted(j) BY <2>1, <2>2
  <2> HIDE DEF p
  <2> QED BY <1>1, <2>3 DEF QueuesOK
<1>6. UNCHANGED <<accepted, said, locals, phase, ready>>
  BY DEF PostOne, loopVars
<1>7. CASE p.to = i
  <2>1. RunTask(i, p.task) /\ pending' = pending
    BY <1>2, <1>7 DEF PostOne
  <2>2. /\ ConnsOK'
        /\ \A c \in Conns : cstate'[c] = "freed" => cstate[c] = "freed"
    BY <1>1, <1>3, <1>4, <1>6, <2>1, TaskKeeps DEF AdoptsAccepted
  <2>3. QueuesOK' BY <1>1, <1>2, <1>5, <1>6, <2>1 DEF QueuesOK, Queued, AdoptsAccepted
  <2> QED BY <1>6, <2>2, <2>3, BatchesStay DEF IInv
<1>8. CASE p.to # i
  <2>1. /\ pending' = [pending EXCEPT ![p.to] = Append(@, p.task)]
        /\ UNCHANGED <<cstate, fdOf, nick, index>>
    BY <1>2, <1>8 DEF PostOne, connVars
  <2>2. accepted \in Nat /\ accepted' \in Nat /\ accepted <= accepted'
    BY <1>1, <1>6, Owners DEF ConnsOK
  <2> HIDE DEF p
  <2>3. /\ pending' \in [Loops -> Seq(Task)]
        /\ \A k \in Loops : \A u \in Queued(k)' : AdoptsAccepted(u)'
    BY <1>1, <1>3, <1>4, <1>6, <2>1, <2>2, QueuesGrow, Owners
  <2>4. QueuesOK' BY <1>1, <1>2, <1>5, <1>6, <2>3 DEF QueuesOK
  <2> QED BY <1>6, <2>1, <2>4, ConnsStay, BatchesStay DEF IInv
<1> QED BY <1>7, <1>8

LEMMA TakeTasksInv == ASSUME IInv, NEW i \in Loops, TakeTasks(i) PROVE IInv'
<1>1. /\ ready[i] = <<>>
      /\ locals' = [locals EXCEPT ![i] = pending[i]]
      /\ pending' = [pending EXCEPT ![i] = <<>>]
      /\ phase' = [phase EXCEPT ![i] = "tasks"]
      /\ UNCHANGED <<accepted, said, posts, cstate, fdOf, nick, index, ready>>
  BY DEF TakeTasks, connVars
<1>2. /\ locals' \in [Loops -> Seq(Task)] /\ pending' \in [Loops -> Seq(Task)]
      /\ locals'[i] = pending[i] /\ pending'[i] = <<>>
      /\ \A j \in Loops \ {i} : locals'[j] = locals[j] /\ pending'[j] = pending[j]
  BY <1>1, EmptySeq DEF IInv, QueuesOK
<1>3. \A j \in Loops : Queued(j)' \subseteq Queued(j)
  <2>1. Queued(i)' \subseteq Queued(i) BY <1>2 DEF Queued
  <2>2. \A j \in Loops \ {i} : Queued(j)' = Queued(j) BY <1>2 DEF Queued
  <2> QED BY <2>1, <2>2
<1>4. QueuesOK' BY <1>1, <1>2, <1>3 DEF IInv, QueuesOK, AdoptsAccepted, Posted
<1>5. BatchesOK' BY <1>1 DEF IInv, BatchesOK, Owner
<1> QED BY <1>1, <1>4, <1>5, ConnsStay DEF IInv

\* The task at the head of the batch of tasks.
LEMMA TaskTaken ==
    ASSUME QueuesOK, NEW i \in Loops, RunOne(i)
    PROVE  /\ locals[i] # <<>> /\ locals[i][1] \in Task
           /\ 1 \in DOMAIN locals[i] /\ Head(locals[i]) = locals[i][1]
           /\ locals' \in [Loops -> Seq(Task)]
           /\ locals'[i] = Tail(locals[i])
           /\ \A j \in Loops \ {i} : locals'[j] = locals[j]
           /\ \A k \in DOMAIN locals'[i] : /\ k + 1 \in DOMAIN locals[i] /\ k + 1 # 1
                                           /\ k \in Nat
                                           /\ locals'[i][k] = locals[i][k + 1]
<1>1. locals[i] # <<>> /\ locals' = [locals EXCEPT ![i] = Tail(@)] BY DEF RunOne
<1>2. locals[i] \in Seq(Task) BY DEF QueuesOK
<1>3. Tail(locals[i]) \in Seq(Task) BY <1>1, <1>2, Beheaded
<1>4. locals' \in [Loops -> Seq(Task)] /\ locals'[i] = Tail(locals[i])
      /\ \A j \in Loops \ {i} : locals'[j] = locals[j]
  BY <1>1, <1>3 DEF QueuesOK
<1>5. /\ 1 \in DOMAIN locals[i] /\ Head(locals[i]) = locals[i][1] /\ Head(locals[i]) \in Task
      /\ \A k \in DOMAIN Tail(locals[i]) : /\ k + 1 \in DOMAIN locals[i] /\ k + 1 # 1
                                           /\ k \in Nat
                                           /\ Tail(locals[i])[k] = locals[i][k + 1]
  BY <1>1, <1>2, Beheaded
<1> QED BY <1>1, <1>4, <1>5

LEMMA RunOneInv == ASSUME IInv, NEW i \in Loops, RunOne(i) PROVE IInv'
<1> DEFINE t == locals[i][1]
<1>1. /\ t \in Task /\ 1 \in DOMAIN locals[i] /\ Head(locals[i]) = t
      /\ locals' \in [Loops -> Seq(Task)]
      /\ \A j \in Loops \ {i} : locals'[j] = locals[j]
      /\ \A k \in DOMAIN locals'[i] :
            k + 1 \in DOMAIN locals[i] /\ locals'[i][k] = locals[i][k + 1]
  BY TaskTaken DEF IInv
<1>2. RunTask(i, t) /\ UNCHANGED <<accepted, said, pending, posts, phase, ready>>
  BY <1>1 DEF RunOne
<1>3. AdoptsAccepted(t)
  <2>1. t \in Queued(i) BY <1>1 DEF Queued
  <2> QED BY <2>1 DEF IInv, QueuesOK
<1>4. /\ ConnsOK'
      /\ \A c \in Conns : cstate'[c] = "freed" => cstate[c] = "freed"
  BY <1>1, <1>2, <1>3, TaskKeeps DEF IInv
<1>5. \A j \in Loops : Queued(j)' \subseteq Queued(j)
  <2>1. Queued(i)' \subseteq Queued(i)
    <3>1. {locals'[i][k] : k \in DOMAIN locals'[i]} \subseteq {locals[i][k] : k \in DOMAIN locals[i]}
      BY <1>1
    <3>2. pending' = pending BY <1>2
    <3> QED BY <3>1, <3>2 DEF Queued
  <2>2. \A j \in Loops \ {i} : Queued(j)' = Queued(j) BY <1>1, <1>2 DEF Queued
  <2> QED BY <2>1, <2>2
<1>6. QueuesOK' BY <1>1, <1>2, <1>5 DEF IInv, QueuesOK, AdoptsAccepted, Posted
<1> QED BY <1>2, <1>4, <1>6, BatchesStay DEF IInv

\* The connections that are destroyed have this loop for their owner, and its
\* batch is empty by now.
LEMMA SafePointInv == ASSUME IInv, NEW i \in Loops, SafePoint(i) PROVE IInv'
<1>1. /\ phase[i] = "tasks"
      /\ cstate' = [c \in Conns |-> IF c \in Reap(i) THEN "freed" ELSE cstate[c]]
      /\ posts' = [posts EXCEPT ![i] =
                     IF dirty[i] THEN ForEachSub(SendUsers(OnlineNicks)) ELSE <<>>]
      /\ phase' = [phase EXCEPT ![i] = "bcast"]
      /\ UNCHANGED <<accepted, said, pending, fdOf, nick, index, locals, ready>>
  BY DEF SafePoint
<1>2. \A c \in Reap(i) : cstate[c] = "closed" /\ Owner(c) = i BY DEF Reap
<1>3. ConnsOK'
  <2>1. NamesMatch'
    BY <1>1, <1>2 DEF IInv, ConnsOK, NamesMatch, Owner
  <2> QED BY <1>1, <1>2, <2>1 DEF IInv, ConnsOK
<1>4. QueuesOK'
  <2> DEFINE s == IF dirty[i] THEN ForEachSub(SendUsers(OnlineNicks)) ELSE <<>>
  <2>1. OnlineNicks \subseteq Nicks BY DEF IInv, ConnsOK, OnlineNicks
  <2>2. SendUsers(OnlineNicks) \in Task /\ SendUsers(OnlineNicks).kind = "users"
    BY <2>1 DEF SendUsers, Task
  <2>3. s \in Seq(Post) BY <2>2, ForEachPosts, EmptySeq
  <2>4. \A k \in DOMAIN s : s[k].task.kind # "adopt"
    <3>1. CASE dirty[i] BY <2>2, <3>1, ForEachPosts
    <3>2. CASE ~dirty[i] BY <3>2
    <3> QED BY <3>1, <3>2
  <2>5. said' \in Nat /\ posts' = [posts EXCEPT ![i] = s]
    BY <1>1 DEF IInv, QueuesOK
  <2> HIDE DEF s
  <2> QED BY <1>1, <2>3, <2>4, <2>5, NewPosts DEF IInv
<1>5. BatchesOK'
  <2>1. phase' \in [Loops -> {"poll", "events", "tasks", "bcast"}]
    BY <1>1 DEF IInv, BatchesOK
  <2>2. \A j \in Loops : phase'[j] # "events" => ready'[j] = <<>>
    BY <1>1 DEF IInv, BatchesOK
  <2>3. ASSUME NEW j \in Loops, NEW k \in DOMAIN ready[j]
        PROVE  Owner(ready[j][k]) = j /\ cstate'[ready[j][k]] # "freed"
    <3>1. ready[j][k] \in Conns /\ Owner(ready[j][k]) = j /\ cstate[ready[j][k]] # "freed"
      BY DEF IInv, BatchesOK
    <3>2. j # i BY <1>1 DEF IInv, BatchesOK
    <3> QED BY <1>1, <1>2, <3>1, <3>2
  <2>4. ready' = ready /\ ready \in [Loops -> Seq(Conns)] BY <1>1 DEF IInv, BatchesOK
  <2> QED BY <2>1, <2>2, <2>3, <2>4 DEF BatchesOK, Owner
<1> QED BY <1>3, <1>4, <1>5 DEF IInv

LEMMA LoopInv == ASSUME IInv, NEW i \in Loops, Loop(i) PROVE IInv'
<1>1. /\ phase[i] = "bcast"
      /\ phase' = [phase EXCEPT ![i] = "poll"]
      /\ UNCHANGED <<accepted, said, pending, posts, cstate, fdOf, nick, index, locals, ready>>
  BY DEF Loop, connVars
<1>2. /\ phase' \in [Loops -> {"poll", "events", "tasks", "bcast"}]
      /\ phase'[i] = "poll" /\ ready[i] = <<>>
      /\ \A j \in Loops \ {i} : phase'[j] = phase[j]
  BY <1>1 DEF IInv, BatchesOK
<1>3. BatchesOK'
  <2>1. \A j \in Loops : phase'[j] # "events" => ready'[j] = <<>>
    BY <1>1, <1>2 DEF IInv, BatchesOK
  <2>2. \A j \in Loops : \A k \in DOMAIN ready[j] :
          Owner(ready[j][k]) = j /\ cstate[ready[j][k]] # "freed"
    BY DEF IInv, BatchesOK
  <2>3. ready' \in [Loops -> Seq(Conns)] BY <1>1 DEF IInv, BatchesOK
  <2> QED BY <1>1, <1>2, <2>1, <2>2, <2>3 DEF BatchesOK, Owner
<1> QED BY <1>1, <1>3, ConnsStay, QueuesStay DEF IInv

----------------------------------------------------------------------------
(* Every step *)

LEMMA StepInv == IInv /\ [Next]_vars => IInv'
<1> SUFFICES ASSUME IInv, [Next]_vars PROVE IInv' OBVIOUS
<1>1. CASE UNCHANGED vars
  BY <1>1, ConnsStay, QueuesStay, BatchesStay DEF IInv, vars, connVars, loopVars
<1>2. CASE OnAccept BY <1>2, AcceptInv
<1>3. ASSUME NEW i \in Loops, OnIdleTick(i) PROVE IInv' BY <1>3, TickInv
<1>4. ASSUME NEW c \in Conns, PeerResets(c) PROVE IInv' BY <1>4, ResetInv
<1>5. ASSUME NEW i \in Loops, SubReactor(i) PROVE IInv'
  <2>1. CASE HandleFrame(i)
    BY <2>1, SayAllInv, SayToInv, LoginInv DEF HandleFrame
  <2> QED
    BY <1>5, <2>1, PollInv, EventDoneInv, EventCloseInv, PostOneInv, TakeTasksInv,
       RunOneInv, SafePointInv, LoopInv
    DEF SubReactor
<1> QED BY <1>1, <1>2, <1>3, <1>4, <1>5 DEF Next

\* The nickname index and the connections agree across all the loops, at every
\* step of every thread: no ghost user, and no nickname given twice.
THEOREM NamesCorrect == Spec => []NamesMatch
<1>1. Init => IInv BY InitInv
<1>2. IInv /\ [Next]_vars => IInv' BY StepInv
<1>3. IInv => NamesMatch BY DEF IInv, ConnsOK
<1> QED BY <1>1, <1>2, <1>3, PTL DEF Spec

\* No connection of a batch being dispatched is destroyed before the batch is
\* over, whichever callback or broadcast closes it.
THEOREM BatchesCorrect == Spec => []BatchAlive
<1>1. Init => IInv BY InitInv
<1>2. IInv /\ [Next]_vars => IInv' BY StepInv
<1>3. IInv => BatchAlive BY DEF IInv, BatchesOK, BatchAlive, ToSet
<1> QED BY <1>1, <1>2, <1>3, PTL DEF Spec

----------------------------------------------------------------------------
(* The order of one sender's messages *)

Entry == [msg : Msg, as : Nicks \union {NoNick}]

\* A task that carries a message, and two messages of one sender in order.
Carries(t) == t.kind \in {"chat", "private"}
Precedes(m, o) == m.from = o.from => m.n < o.n
Ahead(t, u) == Carries(t) /\ Carries(u) => Precedes(t.msg, u.msg)
InLine(s) == \A a, b \in DOMAIN s : a < b => Ahead(s[a], s[b])

\* The tasks of a loop run in the order of its two queues.
QueuesInLine ==
    \A j \in Loops :
        /\ InLine(locals[j]) /\ InLine(pending[j])
        /\ \A a \in DOMAIN locals[j], b \in DOMAIN pending[j] :
              Ahead(locals[j][a], pending[j][b])

\* A broadcast posts at most one task to a loop.
PostsApart ==
    \A i \in Loops : \A a, b \in DOMAIN posts[i] :
        posts[i][a].to = posts[i][b].to => a = b

\* No message waits in the queue of its sender's own loop.
QueuedFromElsewhere ==
    \A j \in Loops : \A t \in Queued(j) :
        Carries(t) => t.msg.n <= said /\ Owner(t.msg.from) # j

\* What a loop is about to post is the latest of its senders.
PostedLast ==
    \A i \in Loops : \A p \in Posted(i) : Carries(p.task) =>
        /\ p.task.msg.n <= said /\ Owner(p.task.msg.from) = i
        /\ \A t \in Queued(p.to) : Ahead(t, p.task)

\* What a connection has been sent comes before what is still on its way.
ReceivedFirst ==
    \A c \in Conns : \A k \in DOMAIN inbox[c] :
        /\ inbox[c][k].msg.n <= said
        /\ \A t \in Queued(Owner(c)) : Carries(t) => Precedes(inbox[c][k].msg, t.msg)
        /\ \A i \in Loops : \A p \in Posted(i) : p.to = Owner(c) /\ Carries(p.task) =>
              Precedes(inbox[c][k].msg, p.task.msg)

Sets ==
    /\ inbox \in [Conns -> Seq(Entry)]
    /\ QueuedFromElsewhere /\ PostedLast /\ ReceivedFirst
    /\ PerSenderOrder

OInv == QueuesInLine /\ PostsApart /\ Sets

\* What every carrying task in a queue or a broadcast has.
LEMMA CarriedTypes ==
    ASSUME QueuesOK
    PROVE  /\ said \in Nat
           /\ \A j \in Loops : \A t \in Queued(j) : Carries(t) => t.msg \in Msg
           /\ \A i \in Loops : \A p \in Posted(i) :
                 p.to \in Loops /\ (Carries(p.task) => p.task.msg \in Msg)
<1>1. \A t \in Task : Carries(t) => t.msg \in Msg BY DEF Task, Carries
<1> QED BY <1>1, QueuedTasks DEF Post, QueuesOK

LEMMA EntriesTyped ==
    ASSUME inbox \in [Conns -> Seq(Entry)]
    PROVE  \A c \in Conns : \A k \in DOMAIN inbox[c] : inbox[c][k].msg \in Msg
<1> SUFFICES ASSUME NEW c \in Conns, NEW k \in DOMAIN inbox[c]
             PROVE  inbox[c][k].msg \in Msg
  OBVIOUS
<1>1. inbox[c] \in Seq(Entry) OBVIOUS
<1>2. inbox[c][k] \in Entry BY <1>1
<1> QED BY <1>2 DEF Entry

\* Fewer messages on their way, and perhaps an emptied inbox.
LEMMA SetsShrink ==
    ASSUME IInv, IInv', Sets, said' \in Nat, said <= said',
           inbox' \in [Conns -> Seq(Entry)],
           \A c \in Conns : inbox'[c] = inbox[c] \/ inbox'[c] = <<>>,
           \A j \in Loops : \A t \in Queued(j)' : Carries(t) => t \in Queued(j),
           \A i \in Loops : \A p \in Posted(i)' : Carries(p.task) => p \in Posted(i)
    PROVE  Sets'
<1>0. /\ \A c \in Conns : Owner(c) \in Loops
      /\ said \in Nat
      /\ \A j \in Loops : \A t \in Queued(j) : Carries(t) => t.msg.n \in Nat
      /\ \A i \in Loops : \A p \in Posted(i) :
            p.to \in Loops /\ (Carries(p.task) => p.task.msg.n \in Nat)
      /\ \A c \in Conns : \A k \in DOMAIN inbox[c] : inbox[c][k].msg.n \in Nat
  BY Owners, CarriedTypes, EntriesTyped DEF IInv, Sets, Msg
<1>1. QueuedFromElsewhere'
  BY <1>0 DEF Sets, QueuedFromElsewhere, Carries, Owner
<1>2. PostedLast'
  BY <1>0 DEF Sets, PostedLast, Carries, Owner, Ahead, Precedes
<1>3. ReceivedFirst'
  <2> SUFFICES ASSUME NEW c \in Conns, NEW k \in DOMAIN inbox'[c]
               PROVE  /\ inbox'[c][k].msg.n <= said'
                      /\ \A t \in Queued(Owner(c))' :
                            Carries(t) => Precedes(inbox'[c][k].msg, t.msg)
                      /\ \A i \in Loops : \A p \in Posted(i)' :
                            p.to = Owner(c) /\ Carries(p.task) =>
                              Precedes(inbox'[c][k].msg, p.task.msg)
    BY DEF ReceivedFirst, Carries, Precedes, Owner
  <2>1. inbox'[c] = inbox[c] /\ k \in DOMAIN inbox[c] OBVIOUS
  <2>2. inbox[c][k].msg.n <= said BY <2>1 DEF Sets, ReceivedFirst
  <2>3. inbox'[c][k].msg.n <= said' BY <1>0, <2>1, <2>2
  <2>4. \A t \in Queued(Owner(c))' :
            Carries(t) => Precedes(inbox'[c][k].msg, t.msg)
    BY <1>0, <2>1 DEF Sets, ReceivedFirst
  <2>5. \A i \in Loops : \A p \in Posted(i)' :
            p.to = Owner(c) /\ Carries(p.task) => Precedes(inbox'[c][k].msg, p.task.msg)
    BY <2>1 DEF Sets, ReceivedFirst
  <2> QED BY <2>3, <2>4, <2>5
<1>4. PerSenderOrder'
  <2> SUFFICES ASSUME NEW c \in Conns, NEW a \in DOMAIN inbox'[c],
                      NEW b \in DOMAIN inbox'[c], a < b,
                      inbox'[c][a].msg.from = inbox'[c][b].msg.from
               PROVE  inbox'[c][a].msg.n < inbox'[c][b].msg.n
    BY DEF PerSenderOrder
  <2>1. inbox'[c] = inbox[c] OBVIOUS
  <2> QED BY <2>1 DEF Sets, PerSenderOrder
<1> QED BY <1>1, <1>2, <1>3, <1>4 DEF Sets

\* A message delivered by its loop: it is behind all that its receivers have,
\* and ahead of all that is still on its way to them.
LEMMA SetsDeliver ==
    ASSUME IInv, IInv', Sets, NEW i \in Loops, NEW m \in Msg, said' = said, m.n <= said,
           inbox' \in [Conns -> Seq(Entry)],
           \A c \in Conns : \/ inbox'[c] = inbox[c]
                            \/ /\ Owner(c) = i
                               /\ \E e \in Entry : e.msg = m /\ inbox'[c] = Append(inbox[c], e),
           \A j \in Loops : \A t \in Queued(j)' : t \in Queued(j),
           \A j \in Loops : \A p \in Posted(j)' : p \in Posted(j),
           \A c \in Conns : Owner(c) = i =>
              \A k \in DOMAIN inbox[c] : Precedes(inbox[c][k].msg, m),
           \A t \in Queued(i)' : Carries(t) => Precedes(m, t.msg),
           \A j \in Loops : \A p \in Posted(j)' : p.to = i /\ Carries(p.task) =>
              Precedes(m, p.task.msg)
    PROVE  Sets'
<1>0. /\ \A c \in Conns : Owner(c) \in Loops
      /\ \A i1 \in Loops : \A p \in Posted(i1) : p.to \in Loops
  BY Owners, CarriedTypes DEF IInv
<1>1. QueuedFromElsewhere' BY DEF Sets, QueuedFromElsewhere, Carries, Owner
<1>2. PostedLast' BY <1>0 DEF Sets, PostedLast, Carries, Owner, Ahead, Precedes
<1>3. ASSUME NEW c \in Conns
      PROVE  /\ \A k \in DOMAIN inbox'[c] :
                   /\ inbox'[c][k].msg.n <= said'
                   /\ \A t \in Queued(Owner(c))' :
                         Carries(t) => Precedes(inbox'[c][k].msg, t.msg)
                   /\ \A j \in Loops : \A p \in Posted(j)' :
                         p.to = Owner(c) /\ Carries(p.task) =>
                           Precedes(inbox'[c][k].msg, p.task.msg)
             /\ \A a, b \in DOMAIN inbox'[c] :
                   a < b => Precedes(inbox'[c][a].msg, inbox'[c][b].msg)
  <2>1. CASE inbox'[c] = inbox[c]
    <3>1. \A a, b \in DOMAIN inbox'[c] :
             a < b => Precedes(inbox'[c][a].msg, inbox'[c][b].msg)
      BY <2>1 DEF Sets, PerSenderOrder, Precedes
    <3>2. \A k \in DOMAIN inbox[c] :
            /\ inbox[c][k].msg.n <= said
            /\ \A t \in Queued(Owner(c))' :
                  Carries(t) => Precedes(inbox[c][k].msg, t.msg)
            /\ \A j \in Loops : \A p \in Posted(j)' :
                  p.to = Owner(c) /\ Carries(p.task) =>
                    Precedes(inbox[c][k].msg, p.task.msg)
      BY <1>0 DEF Sets, ReceivedFirst
    <3> QED BY <2>1, <3>1, <3>2
  <2>2. CASE inbox'[c] # inbox[c]
    <3>1. PICK e \in Entry : e.msg = m /\ inbox'[c] = Append(inbox[c], e) BY <2>2
    <3>2. Owner(c) = i BY <2>2
    <3>3. inbox[c] \in Seq(Entry) BY DEF Sets
    <3>4. /\ DOMAIN inbox'[c] = DOMAIN inbox[c] \union {Len(inbox[c]) + 1}
          /\ \A k \in DOMAIN inbox[c] :
                inbox'[c][k] = inbox[c][k] /\ k < Len(inbox[c]) + 1 /\ k \in Nat
          /\ inbox'[c][Len(inbox[c]) + 1] = e
          /\ Len(inbox[c]) + 1 \in Nat
      BY <3>1, <3>3, Appended
    <3>5. ASSUME NEW k \in DOMAIN inbox'[c]
          PROVE  /\ inbox'[c][k].msg.n <= said'
                 /\ \A t \in Queued(Owner(c))' :
                       Carries(t) => Precedes(inbox'[c][k].msg, t.msg)
                 /\ \A j \in Loops : \A p \in Posted(j)' :
                       p.to = Owner(c) /\ Carries(p.task) =>
                         Precedes(inbox'[c][k].msg, p.task.msg)
      <4>1. CASE k \in DOMAIN inbox[c]
        BY <1>0, <3>4, <4>1 DEF Sets, ReceivedFirst
      <4>2. CASE k = Len(inbox[c]) + 1
        BY <3>1, <3>2, <3>4, <4>2
      <4> QED BY <3>4, <4>1, <4>2
    <3>6. ASSUME NEW a \in DOMAIN inbox'[c], NEW b \in DOMAIN inbox'[c], a < b
          PROVE  Precedes(inbox'[c][a].msg, inbox'[c][b].msg)
      <4>1. a \in DOMAIN inbox[c] BY <3>4, <3>6
      <4>2. CASE b \in DOMAIN inbox[c]
        BY <3>4, <3>6, <4>1, <4>2 DEF Sets, PerSenderOrder, Precedes
      <4>3. CASE b = Len(inbox[c]) + 1
        BY <3>1, <3>2, <3>4, <4>1, <4>3
      <4> QED BY <3>4, <4>2, <4>3
    <3> QED BY <3>5, <3>6
  <2> QED BY <2>1, <2>2
<1>4. ReceivedFirst' BY <1>3 DEF ReceivedFirst, Carries, Precedes, Owner
<1>5. PerSenderOrder'
  <2> SUFFICES ASSUME NEW c \in Conns, NEW a \in DOMAIN inbox'[c],
                      NEW b \in DOMAIN inbox'[c], a < b,
                      inbox'[c][a].msg.from = inbox'[c][b].msg.from
               PROVE  inbox'[c][a].msg.n < inbox'[c][b].msg.n
    BY DEF PerSenderOrder
  <2>1. Precedes(inbox'[c][a].msg, inbox'[c][b].msg) BY <1>3
  <2> QED BY <2>1 DEF Precedes
<1> QED BY <1>1, <1>2, <1>4, <1>5 DEF Sets

\* What a task puts into the inboxes of its loop's connections.
LEMMA TaskDelivers ==
    ASSUME inbox \in [Conns -> Seq(Entry)], ConnsOK, NEW i \in Loops, NEW t \in Task,
           RunTask(i, t)
    PROVE  /\ inbox' \in [Conns -> Seq(Entry)]
           /\ ~Carries(t) => inbox' = inbox
           /\ Carries(t) => \A c \in Conns :
                 \/ inbox'[c] = inbox[c]
                 \/ /\ Owner(c) = i
                    /\ \E e \in Entry : e.msg = t.msg /\ inbox'[c] = Append(inbox[c], e)
<1>1. ASSUME NEW S, S \subseteq LiveOn(i), Carries(t), DeliverChat(S, t.msg)
      PROVE  /\ inbox' \in [Conns -> Seq(Entry)]
             /\ \A c \in Conns :
                 \/ inbox'[c] = inbox[c]
                 \/ /\ Owner(c) = i
                    /\ \E e \in Entry : e.msg = t.msg /\ inbox'[c] = Append(inbox[c], e)
  <2>1. t.msg \in Msg BY <1>1 DEF Task, Carries
  <2>2. \A c \in Conns : [msg |-> t.msg, as |-> nick[c]] \in Entry
    BY <2>1 DEF ConnsOK, Entry
  <2>3. inbox' = [c \in Conns |->
                    IF c \in SentOf(S)
                    THEN Append(inbox[c], [msg |-> t.msg, as |-> nick[c]])
                    ELSE inbox[c]]
    BY <1>1 DEF DeliverChat
  <2>4. \A c \in SentOf(S) : Owner(c) = i BY <1>1 DEF SentOf, LiveOn
  <2>5. \A c \in Conns : Append(inbox[c], [msg |-> t.msg, as |-> nick[c]]) \in Seq(Entry)
    BY <2>2, Appended
  <2>6. inbox' \in [Conns -> Seq(Entry)] BY <2>3, <2>5
  <2>7. ASSUME NEW c \in Conns, inbox'[c] # inbox[c]
        PROVE  /\ Owner(c) = i
               /\ \E e \in Entry : e.msg = t.msg /\ inbox'[c] = Append(inbox[c], e)
    <3>1. c \in SentOf(S) BY <2>3, <2>7
    <3>2. inbox'[c] = Append(inbox[c], [msg |-> t.msg, as |-> nick[c]]) BY <2>3, <3>1
    <3> QED BY <2>2, <2>4, <3>1, <3>2
  <2> QED BY <2>6, <2>7
<1>2. CASE RunChat(i, t)
  <2>1. Carries(t) /\ DeliverChat(LoggedConnsOf(i) \ {t.msg.from}, t.msg)
    BY <1>2 DEF RunChat, Carries
  <2>2. LoggedConnsOf(i) \ {t.msg.from} \subseteq LiveOn(i) BY DEF LoggedConnsOf
  <2> QED BY <1>1, <2>1, <2>2
<1>3. CASE RunPrivate(i, t)
  <2>1. Carries(t) /\ DeliverChat({c \in LiveOn(i) : fdOf[c] = t.fd}, t.msg)
    BY <1>3 DEF RunPrivate, Carries
  <2>2. {c \in LiveOn(i) : fdOf[c] = t.fd} \subseteq LiveOn(i) OBVIOUS
  <2> QED BY <1>1, <2>1, <2>2
<1>4. CASE RunAdopt(i, t) \/ RunUsers(i, t) \/ RunIdle(i, t)
  BY <1>4 DEF RunAdopt, RunUsers, RunIdle, Carries, sentVars
<1> QED BY <1>2, <1>3, <1>4 DEF RunTask

LEMMA OrderInit == Init => OInv
<1> SUFFICES ASSUME Init PROVE OInv OBVIOUS
<1>1. \A j \in Loops : Queued(j) = {} /\ Posted(j) = {}
  BY DEF Init, Queued, Posted
<1>2. Sets
  BY <1>1, EmptySeq
  DEF Init, Sets, QueuedFromElsewhere, PostedLast, ReceivedFirst, PerSenderOrder
<1> QED BY <1>2 DEF Init, OInv, QueuesInLine, InLine, PostsApart

LEMMA OrderStays ==
    OInv /\ UNCHANGED <<said, inbox, pending, locals, posts>> => OInv'
BY DEF OInv, QueuesInLine, InLine, Ahead, Precedes, Carries, PostsApart, Sets,
       QueuedFromElsewhere, PostedLast, ReceivedFirst, PerSenderOrder, Owner,
       Queued, Posted

\* A task that is behind all that its loop has queued.
LEMMA OrderQueued ==
    ASSUME QueuesOK, QueuesInLine, NEW j \in Loops, NEW t \in Task,
           pending' = [pending EXCEPT ![j] = Append(@, t)], locals' = locals,
           \A u \in Queued(j) : Ahead(u, t)
    PROVE  QueuesInLine'
<1>1. /\ Append(pending[j], t) \in Seq(Task)
      /\ DOMAIN Append(pending[j], t) = DOMAIN pending[j] \union {Len(pending[j]) + 1}
      /\ \A k \in DOMAIN pending[j] :
            Append(pending[j], t)[k] = pending[j][k] /\ k < Len(pending[j]) + 1 /\ k \in Nat
      /\ Append(pending[j], t)[Len(pending[j]) + 1] = t
      /\ Len(pending[j]) + 1 \in Nat
  BY Appended DEF QueuesOK
<1>2. /\ pending'[j] = Append(pending[j], t)
      /\ \A k \in Loops \ {j} : pending'[k] = pending[k]
  BY <1>1 DEF QueuesOK
<1>3. /\ \A k \in DOMAIN pending[j] : Ahead(pending[j][k], t)
      /\ \A k \in DOMAIN locals[j] : Ahead(locals[j][k], t)
  BY DEF Queued
<1>4. \A a, b \in DOMAIN pending'[j] : a < b => Ahead(pending'[j][a], pending'[j][b])
  <2> SUFFICES ASSUME NEW a \in DOMAIN pending'[j], NEW b \in DOMAIN pending'[j], a < b
               PROVE  Ahead(pending'[j][a], pending'[j][b])
    OBVIOUS
  <2>1. a \in DOMAIN pending[j] BY <1>1, <1>2
  <2>2. CASE b \in DOMAIN pending[j]
    BY <1>1, <1>2, <2>1, <2>2 DEF QueuesInLine, InLine
  <2>3. CASE b = Len(pending[j]) + 1
    BY <1>1, <1>2, <1>3, <2>1, <2>3
  <2> QED BY <1>1, <1>2, <2>2, <2>3
<1>5. \A a \in DOMAIN locals[j], b \in DOMAIN pending'[j] : Ahead(locals[j][a], pending'[j][b])
  BY <1>1, <1>2, <1>3 DEF QueuesInLine
<1>6. ASSUME NEW k \in Loops
      PROVE  /\ \A a, b \in DOMAIN locals'[k] : a < b => Ahead(locals'[k][a], locals'[k][b])
             /\ \A a, b \in DOMAIN pending'[k] : a < b => Ahead(pending'[k][a], pending'[k][b])
             /\ \A a \in DOMAIN locals'[k], b \in DOMAIN pending'[k] :
                   Ahead(locals'[k][a], pending'[k][b])
  <2>1. CASE k = j BY <1>4, <1>5, <2>1 DEF QueuesInLine, InLine
  <2>2. CASE k # j BY <1>2, <2>2 DEF QueuesInLine, InLine
  <2> QED BY <2>1, <2>2
<1> QED BY <1>6 DEF QueuesInLine, InLine, Ahead, Precedes, Carries

\* A task for a loop that carries no message, queued there by the main thread.
LEMMA OrderMain ==
    ASSUME IInv, IInv', OInv, NEW j \in Loops, NEW t \in Task, ~Carries(t),
           pending' = [pending EXCEPT ![j] = Append(@, t)],
           UNCHANGED <<said, inbox, locals, posts>>,
           Queued(j)' = Queued(j) \union {t},
           \A k \in Loops \ {j} : Queued(k)' = Queued(k)
    PROVE  OInv'
<1>1. QueuesInLine' BY OrderQueued DEF OInv, IInv, Ahead
<1>2. PostsApart' BY DEF OInv, PostsApart
<1>3. Sets'
  <2>1. said' \in Nat /\ said <= said' BY DEF IInv, QueuesOK
  <2>2. inbox' \in [Conns -> Seq(Entry)] BY DEF OInv, Sets
  <2>3. \A k \in Loops : \A u \in Queued(k)' : Carries(u) => u \in Queued(k) OBVIOUS
  <2>4. \A k \in Loops : \A p \in Posted(k)' : Carries(p.task) => p \in Posted(k)
    BY DEF Posted
  <2>5. \A c \in Conns : inbox'[c] = inbox[c] OBVIOUS
  <2> QED BY <2>1, <2>2, <2>3, <2>4, <2>5, SetsShrink DEF OInv
<1> QED BY <1>1, <1>2, <1>3 DEF OInv

LEMMA OrderAccept == ASSUME IInv, IInv', OInv, OnAccept PROVE OInv'
<1>0. PICK c : c = accepted + 1 OBVIOUS
<1>1. /\ accepted < MaxConns /\ accepted' = c
      /\ pending' = [pending EXCEPT ![Owner(c)] = Append(@, Adopt(c))]
      /\ UNCHANGED <<said, inbox, locals, posts>>
  BY <1>0 DEF OnAccept, loopVars, sentVars
<1>2. c \in Conns /\ accepted \in Nat /\ accepted' \in Nat /\ accepted <= accepted'
      /\ c <= accepted' /\ MaxConns \in Nat
  <2>1. accepted \in 0 .. MaxConns /\ MaxConns \in Nat BY Owners DEF IInv, ConnsOK
  <2> QED BY <1>0, <1>1, <2>1 DEF Conns
<1>3. PICK t \in Task : t = Adopt(c) /\ ~Carries(t) /\ t.conn = c
  <2>1. Adopt(c) \in Task BY <1>2 DEF Adopt, Task
  <2>2. ~Carries(Adopt(c)) /\ Adopt(c).conn = c BY DEF Adopt, Carries
  <2> QED BY <2>1, <2>2
<1>4. PICK j \in Loops : j = Owner(c) BY <1>2, Owners
<1>5. pending' = [pending EXCEPT ![j] = Append(@, t)] /\ locals' = locals
  BY <1>1, <1>3, <1>4
<1>6. /\ Queued(j)' = Queued(j) \union {t}
      /\ \A k \in Loops \ {j} : Queued(k)' = Queued(k)
  <2>1. t.kind = "adopt" => t.conn <= accepted' BY <1>2, <1>3
  <2> QED BY <1>2, <1>5, <2>1, QueuesGrow DEF IInv
<1> QED BY <1>1, <1>3, <1>5, <1>6, OrderMain

LEMMA OrderTick == ASSUME IInv, IInv', OInv, NEW i \in Loops, OnIdleTick(i) PROVE OInv'
<1>1. /\ pending' = [pending EXCEPT ![i] = Append(@, IdleScan)]
      /\ UNCHANGED <<accepted, said, inbox, locals, posts>>
  BY DEF OnIdleTick, loopVars, sentVars
<1>2. PICK t \in Task : t = IdleScan /\ ~Carries(t) /\ t.kind = "idle"
  <2>1. IdleScan \in Task BY DEF IdleScan, Task
  <2>2. ~Carries(IdleScan) /\ IdleScan.kind = "idle" BY DEF IdleScan, Carries
  <2> QED BY <2>1, <2>2
<1>3. accepted \in Nat /\ accepted' \in Nat /\ accepted <= accepted' /\ MaxConns \in Nat
  BY <1>1, Owners DEF IInv, ConnsOK
<1>4. pending' = [pending EXCEPT ![i] = Append(@, t)] BY <1>1, <1>2
<1>5. /\ Queued(i)' = Queued(i) \union {t}
      /\ \A k \in Loops \ {i} : Queued(k)' = Queued(k)
  BY <1>1, <1>2, <1>3, <1>4, QueuesGrow DEF IInv
<1> QED BY <1>1, <1>2, <1>4, <1>5, OrderMain

\* A new message is behind everything that is on its way.
LEMMA OrderSay ==
    ASSUME IInv, IInv', OInv, NEW i \in Loops, NEW c \in Conns, Owner(c) = i,
           NEW m \in Msg, m.from = c, m.n = said + 1, said' = said + 1,
           NEW s \in Seq(Post), posts' = [posts EXCEPT ![i] = s],
           \A a, b \in DOMAIN s : s[a].to = s[b].to => a = b,
           \A a \in DOMAIN s : Carries(s[a].task) /\ s[a].task.msg = m,
           UNCHANGED <<inbox, pending, locals>>
    PROVE  OInv'
<1>0. /\ said \in Nat /\ said' \in Nat /\ said <= said'
      /\ \A j \in Loops : \A t \in Queued(j) : Carries(t) => t.msg.n \in Nat
      /\ \A j \in Loops : \A p \in Posted(j) : Carries(p.task) => p.task.msg.n \in Nat
      /\ \A j \in Loops : \A p \in Posted(j) \union Posted(j)' : p.to \in Loops
      /\ \A d \in Conns : \A k \in DOMAIN inbox[d] : inbox[d][k].msg.n \in Nat
      /\ \A d \in Conns : Owner(d) \in Loops
  <2>1. \A j \in Loops : \A p \in Posted(j)' : p.to \in Loops
    <3> SUFFICES ASSUME NEW j \in Loops, NEW k \in DOMAIN posts'[j]
                 PROVE  posts'[j][k].to \in Loops
      BY DEF Posted
    <3>1. posts'[j] \in Seq(Post) BY DEF IInv, QueuesOK
    <3>2. posts'[j][k] \in Post BY <3>1
    <3> QED BY <3>2 DEF Post
  <2> QED BY <2>1, Owners, CarriedTypes, EntriesTyped DEF IInv, OInv, Sets, Msg
<1>1. /\ \A j \in Loops : Queued(j)' = Queued(j)
      /\ posts'[i] = s
      /\ \A j \in Loops \ {i} : posts'[j] = posts[j] /\ Posted(j)' = Posted(j)
      /\ \A p \in Posted(i)' : Carries(p.task) /\ p.task.msg = m
  BY DEF Queued, Posted, IInv, QueuesOK
<1>2. QueuesInLine'
  BY DEF OInv, QueuesInLine, InLine, Ahead, Precedes, Carries
<1>3. PostsApart' BY <1>1 DEF OInv, PostsApart
<1>4. QueuedFromElsewhere'
  BY <1>0, <1>1 DEF OInv, Sets, QueuedFromElsewhere, Carries, Owner
<1>5. PostedLast'
  <2> SUFFICES ASSUME NEW j \in Loops, NEW p \in Posted(j)', Carries(p.task)
               PROVE  /\ p.task.msg.n <= said' /\ Owner(p.task.msg.from) = j
                      /\ \A t \in Queued(p.to)' : Ahead(t, p.task)
    BY DEF PostedLast, Carries, Ahead, Precedes, Owner
  <2>1. CASE j = i
    <3>1. p.task.msg = m /\ p.to \in Loops BY <1>0, <1>1, <2>1
    <3>2. \A t \in Queued(p.to) : Carries(t) => t.msg.n <= said
      BY <3>1 DEF OInv, Sets, QueuedFromElsewhere
    <3>3. \A t \in Queued(p.to) : Carries(t) => t.msg.n < m.n
      BY <1>0, <3>1, <3>2
    <3> QED BY <1>0, <1>1, <2>1, <3>1, <3>3 DEF Ahead, Precedes
  <2>2. CASE j # i
    <3>1. p \in Posted(j) /\ p.to \in Loops BY <1>0, <1>1, <2>2
    <3>2. /\ p.task.msg.n <= said /\ Owner(p.task.msg.from) = j
          /\ \A t \in Queued(p.to) : Ahead(t, p.task)
      BY <3>1 DEF OInv, Sets, PostedLast
    <3>3. p.task.msg.n <= said' BY <1>0, <3>1, <3>2
    <3> QED BY <1>1, <3>1, <3>2, <3>3
  <2> QED BY <2>1, <2>2
<1>6. ReceivedFirst'
  <2> SUFFICES ASSUME NEW d \in Conns, NEW k \in DOMAIN inbox[d]
               PROVE  /\ inbox[d][k].msg.n <= said'
                      /\ \A t \in Queued(Owner(d))' :
                            Carries(t) => Precedes(inbox[d][k].msg, t.msg)
                      /\ \A j \in Loops : \A p \in Posted(j)' :
                            p.to = Owner(d) /\ Carries(p.task) =>
                              Precedes(inbox[d][k].msg, p.task.msg)
    BY DEF ReceivedFirst, Carries, Precedes, Owner
  <2>1. inbox[d][k].msg.n <= said BY DEF OInv, Sets, ReceivedFirst
  <2>2. inbox[d][k].msg.n < m.n /\ inbox[d][k].msg.n <= said' BY <1>0, <2>1
  <2>3. \A t \in Queued(Owner(d))' : Carries(t) => Precedes(inbox[d][k].msg, t.msg)
    BY <1>0, <1>1 DEF OInv, Sets, ReceivedFirst
  <2>4. ASSUME NEW j \in Loops, NEW p \in Posted(j)', p.to = Owner(d), Carries(p.task)
        PROVE  Precedes(inbox[d][k].msg, p.task.msg)
    <3>1. CASE j = i BY <1>1, <2>2, <3>1 DEF Precedes
    <3>2. CASE j # i BY <1>1, <2>4, <3>2 DEF OInv, Sets, ReceivedFirst
    <3> QED BY <3>1, <3>2
  <2> QED BY <2>2, <2>3, <2>4
<1>7. PerSenderOrder' BY DEF OInv, Sets, PerSenderOrder
<1>8. inbox' \in [Conns -> Seq(Entry)] BY DEF OInv, Sets
<1> QED BY <1>2, <1>3, <1>4, <1>5, <1>6, <1>7, <1>8 DEF OInv, Sets

LEMMA OrderSayAll ==
    ASSUME IInv, IInv', OInv, NEW i \in Loops, NEW c \in Conns, HandleSayAll(i, c)
    PROVE  OInv'
<1>1. PICK m : m = Message(c, Everyone) OBVIOUS
<1>2. m \in Msg /\ m.from = c /\ m.n = said + 1
  <2>1. m \in Msg BY <1>1, MessageType DEF IInv
  <2> QED BY <1>1, <2>1 DEF Message
<1>3. PICK s : s = ForEachSub(SendChat(m)) OBVIOUS
<1>4. /\ s \in Seq(Post)
      /\ \A a, b \in DOMAIN s : s[a].to = s[b].to => a = b
      /\ \A a \in DOMAIN s : Carries(s[a].task) /\ s[a].task.msg = m
  <2>1. SendChat(m) \in Task /\ Carries(SendChat(m)) /\ SendChat(m).msg = m
    BY <1>2 DEF SendChat, Task, Carries
  <2> QED BY <1>3, <2>1, ForEachPosts
<1>5. /\ Dispatching(i, c) /\ said' = said + 1
      /\ posts' = [posts EXCEPT ![i] = s]
      /\ UNCHANGED <<inbox, pending, locals>>
  BY <1>1, <1>3 DEF HandleSayAll, TakesSay, TakesFrame, loopVars, sentVars
<1>6. Owner(c) = i BY <1>5, Dispatched DEF IInv
<1> QED BY <1>2, <1>4, <1>5, <1>6, OrderSay

LEMMA OrderSayTo ==
    ASSUME IInv, IInv', OInv, NEW i \in Loops, NEW c \in Conns, NEW n \in Nicks,
           HandleSayTo(i, c, n)
    PROVE  OInv'
<1>1. PICK m : m = Message(c, n) OBVIOUS
<1>2. m \in Msg /\ m.from = c /\ m.n = said + 1
  <2>1. m \in Msg BY <1>1, MessageType DEF IInv
  <2> QED BY <1>1, <2>1 DEF Message
<1>3. PICK p \in Post : /\ posts' = [posts EXCEPT ![i] = <<p>>]
                       /\ p.task.kind = "private" /\ p.task.msg = m
  BY <1>1, SayToPosts
<1>4. PICK s : s = <<p>> OBVIOUS
<1>5. /\ s \in Seq(Post)
      /\ \A a, b \in DOMAIN s : s[a].to = s[b].to => a = b
      /\ \A a \in DOMAIN s : Carries(s[a].task) /\ s[a].task.msg = m
  BY <1>3, <1>4 DEF Carries
<1>6. /\ Dispatching(i, c) /\ said' = said + 1
      /\ posts' = [posts EXCEPT ![i] = s]
      /\ UNCHANGED <<inbox, pending, locals>>
  BY <1>3, <1>4 DEF HandleSayTo, TakesSay, TakesFrame, loopVars, sentVars
<1>7. Owner(c) = i BY <1>6, Dispatched DEF IInv
<1> QED BY <1>2, <1>5, <1>6, <1>7, OrderSay

LEMMA OrderTakeTasks == ASSUME IInv, IInv', OInv, NEW i \in Loops, TakeTasks(i) PROVE OInv'
<1>1. /\ locals' = [locals EXCEPT ![i] = pending[i]]
      /\ pending' = [pending EXCEPT ![i] = <<>>]
      /\ UNCHANGED <<said, inbox, posts>>
  BY DEF TakeTasks, sentVars
<1>2. /\ locals'[i] = pending[i] /\ pending'[i] = <<>>
      /\ \A j \in Loops \ {i} : locals'[j] = locals[j] /\ pending'[j] = pending[j]
  BY <1>1 DEF IInv, QueuesOK
<1>3. QueuesInLine'
  <2>1. ASSUME NEW k \in Loops
        PROVE  /\ \A a, b \in DOMAIN locals'[k] : a < b => Ahead(locals'[k][a], locals'[k][b])
               /\ \A a, b \in DOMAIN pending'[k] : a < b => Ahead(pending'[k][a], pending'[k][b])
               /\ \A a \in DOMAIN locals'[k], b \in DOMAIN pending'[k] :
                     Ahead(locals'[k][a], pending'[k][b])
    <3>1. CASE k = i BY <1>2, <3>1 DEF OInv, QueuesInLine, InLine
    <3>2. CASE k # i BY <1>2, <3>2 DEF OInv, QueuesInLine, InLine
    <3> QED BY <3>1, <3>2
  <2> QED BY <2>1 DEF QueuesInLine, InLine, Ahead, Precedes, Carries
<1>4. PostsApart' BY <1>1 DEF OInv, PostsApart
<1>5. Sets'
  <2>1. \A j \in Loops : \A t \in Queued(j)' : t \in Queued(j)
    <3>1. \A t \in Queued(i)' : t \in Queued(i) BY <1>2 DEF Queued
    <3>2. \A j \in Loops \ {i} : Queued(j)' = Queued(j) BY <1>2 DEF Queued
    <3> QED BY <3>1, <3>2
  <2>2. \A j \in Loops : Posted(j)' = Posted(j) BY <1>1 DEF Posted
  <2>3. said' \in Nat /\ said <= said' BY <1>1 DEF IInv, QueuesOK
  <2>4. inbox' = inbox /\ inbox' \in [Conns -> Seq(Entry)] BY <1>1 DEF OInv, Sets
  <2> QED BY <2>1, <2>2, <2>3, <2>4, SetsShrink DEF OInv
<1> QED BY <1>3, <1>4, <1>5 DEF OInv

LEMMA OrderRunOne == ASSUME IInv, IInv', OInv, NEW i \in Loops, RunOne(i) PROVE OInv'
<1>1. PICK t : t = locals[i][1] OBVIOUS
<1>2. /\ t \in Task /\ 1 \in DOMAIN locals[i] /\ Head(locals[i]) = t
      /\ \A j \in Loops \ {i} : locals'[j] = locals[j]
      /\ \A k \in DOMAIN locals'[i] : /\ k + 1 \in DOMAIN locals[i] /\ k \in Nat
                                      /\ locals'[i][k] = locals[i][k + 1]
                                      /\ 1 < k + 1
  <2>1. /\ t \in Task /\ 1 \in DOMAIN locals[i] /\ Head(locals[i]) = t
        /\ \A j \in Loops \ {i} : locals'[j] = locals[j]
        /\ \A k \in DOMAIN locals'[i] : /\ k + 1 \in DOMAIN locals[i] /\ k + 1 # 1
                                        /\ k \in Nat
                                        /\ locals'[i][k] = locals[i][k + 1]
    BY <1>1, TaskTaken DEF IInv
  <2>2. \A k \in Nat : k + 1 # 1 => 1 < k + 1 OBVIOUS
  <2> QED BY <2>1, <2>2
<1>3. RunTask(i, t) /\ UNCHANGED <<said, pending, posts>>
  BY <1>2 DEF RunOne
<1>4. /\ \A u \in Queued(i)' : u \in Queued(i) /\ Ahead(t, u)
      /\ \A j \in Loops : \A u \in Queued(j)' : u \in Queued(j)
      /\ \A j \in Loops : Posted(j)' = Posted(j)
  <2>1. ASSUME NEW u \in Queued(i)' PROVE u \in Queued(i) /\ Ahead(t, u)
    <3>1. CASE u \in {locals'[i][k] : k \in DOMAIN locals'[i]}
      <4>1. PICK k \in DOMAIN locals'[i] : u = locals'[i][k] BY <3>1
      <4>2. k + 1 \in DOMAIN locals[i] /\ u = locals[i][k + 1] /\ 1 < k + 1 BY <1>2, <4>1
      <4> QED BY <1>1, <1>2, <4>2 DEF Queued, OInv, QueuesInLine, InLine
    <3>2. CASE u \in {pending[i][k] : k \in DOMAIN pending[i]}
      BY <1>1, <1>2, <3>2 DEF Queued, OInv, QueuesInLine
    <3> QED BY <1>3, <3>1, <3>2 DEF Queued
  <2>2. \A j \in Loops \ {i} : Queued(j)' = Queued(j) BY <1>2, <1>3 DEF Queued
  <2>3. \A j \in Loops : Posted(j)' = Posted(j) BY <1>3 DEF Posted
  <2> QED BY <2>1, <2>2, <2>3
<1>5. QueuesInLine'
  <2>1. ASSUME NEW j \in Loops
        PROVE  /\ \A a, b \in DOMAIN locals'[j] : a < b => Ahead(locals'[j][a], locals'[j][b])
               /\ \A a, b \in DOMAIN pending[j] : a < b => Ahead(pending[j][a], pending[j][b])
               /\ \A a \in DOMAIN locals'[j], b \in DOMAIN pending[j] :
                     Ahead(locals'[j][a], pending[j][b])
    <3>1. CASE j = i
      <4>1. ASSUME NEW a \in DOMAIN locals'[i], NEW b \in DOMAIN locals'[i], a < b
            PROVE  Ahead(locals'[i][a], locals'[i][b])
        <5>1. a + 1 < b + 1 BY <1>2, <4>1
        <5> QED BY <1>2, <5>1 DEF OInv, QueuesInLine, InLine
      <4> QED BY <1>2, <3>1, <4>1 DEF OInv, QueuesInLine, InLine
    <3>2. CASE j # i BY <1>2, <3>2 DEF OInv, QueuesInLine, InLine
    <3> QED BY <3>1, <3>2
  <2> QED BY <1>3, <2>1 DEF QueuesInLine, InLine, Ahead, Precedes, Carries
<1>6. PostsApart' BY <1>3 DEF OInv, PostsApart
<1>7. /\ inbox' \in [Conns -> Seq(Entry)]
      /\ ~Carries(t) => inbox' = inbox
      /\ Carries(t) => \A c \in Conns :
            \/ inbox'[c] = inbox[c]
            \/ /\ Owner(c) = i
               /\ \E e \in Entry : e.msg = t.msg /\ inbox'[c] = Append(inbox[c], e)
  BY <1>2, <1>3, TaskDelivers DEF IInv, OInv, Sets
<1>8. CASE ~Carries(t)
  <2>1. said' \in Nat /\ said <= said' BY <1>3 DEF IInv, QueuesOK
  <2>2. Sets' BY <1>4, <1>7, <1>8, <2>1, SetsShrink DEF OInv
  <2> QED BY <1>5, <1>6, <2>2 DEF OInv
<1>9. CASE Carries(t)
  <2>1. t \in Queued(i) BY <1>1, <1>2 DEF Queued
  <2>2. PICK m \in Msg : m = t.msg BY <1>9, <2>1, CarriedTypes DEF IInv
  <2>3. m.n <= said BY <1>9, <2>1, <2>2 DEF OInv, Sets, QueuedFromElsewhere
  <2>4. \A c \in Conns : Owner(c) = i =>
           \A k \in DOMAIN inbox[c] : Precedes(inbox[c][k].msg, m)
    BY <1>9, <2>1, <2>2 DEF OInv, Sets, ReceivedFirst
  <2>5. \A u \in Queued(i)' : Carries(u) => Precedes(m, u.msg)
    BY <1>4, <1>9, <2>2 DEF Ahead
  <2>6. \A j \in Loops : \A p \in Posted(j)' : p.to = i /\ Carries(p.task) =>
           Precedes(m, p.task.msg)
    BY <1>4, <1>9, <2>1, <2>2 DEF OInv, Sets, PostedLast, Ahead
  <2>7. \A c \in Conns :
           \/ inbox'[c] = inbox[c]
           \/ /\ Owner(c) = i
              /\ \E e \in Entry : e.msg = m /\ inbox'[c] = Append(inbox[c], e)
    BY <1>7, <1>9, <2>2
  <2>8. Sets'
    BY <1>3, <1>4, <1>7, <2>3, <2>4, <2>5, <2>6, <2>7, SetsDeliver DEF OInv
  <2> QED BY <1>5, <1>6, <2>8 DEF OInv
<1> QED BY <1>8, <1>9

LEMMA OrderSafePoint == ASSUME IInv, IInv', OInv, NEW i \in Loops, SafePoint(i) PROVE OInv'
<1>1. PICK s : s = IF dirty[i] THEN ForEachSub(SendUsers(OnlineNicks)) ELSE <<>> OBVIOUS
<1>2. /\ posts' = [posts EXCEPT ![i] = s]
      /\ inbox' = [c \in Conns |-> IF c \in Reap(i) THEN <<>> ELSE inbox[c]]
      /\ UNCHANGED <<said, pending, locals>>
  BY <1>1 DEF SafePoint
<1>3. /\ \A a, b \in DOMAIN s : s[a].to = s[b].to => a = b
      /\ \A a \in DOMAIN s : ~Carries(s[a].task)
  <2>1. OnlineNicks \subseteq Nicks BY DEF IInv, ConnsOK, OnlineNicks
  <2>2. SendUsers(OnlineNicks) \in Task BY <2>1 DEF SendUsers, Task
  <2>3. ~Carries(SendUsers(OnlineNicks)) BY DEF SendUsers, Carries
  <2>4. CASE dirty[i] BY <1>1, <2>2, <2>3, <2>4, ForEachPosts
  <2>5. CASE ~dirty[i] BY <1>1, <2>5
  <2> QED BY <2>4, <2>5
<1>4. posts'[i] = s /\ \A j \in Loops \ {i} : posts'[j] = posts[j]
  BY <1>2 DEF IInv, QueuesOK
<1>5. QueuesInLine' BY <1>2 DEF OInv, QueuesInLine, InLine, Ahead, Precedes, Carries
<1>6. PostsApart' BY <1>3, <1>4 DEF OInv, PostsApart
<1>7. Sets'
  <2>1. \A j \in Loops : Queued(j)' = Queued(j) BY <1>2 DEF Queued
  <2>2. \A j \in Loops : \A p \in Posted(j)' : Carries(p.task) => p \in Posted(j)
    <3>1. \A p \in Posted(i)' : ~Carries(p.task) BY <1>3, <1>4 DEF Posted
    <3>2. \A j \in Loops \ {i} : Posted(j)' = Posted(j) BY <1>4 DEF Posted
    <3> QED BY <3>1, <3>2
  <2>3. said' \in Nat /\ said <= said' BY <1>2 DEF IInv, QueuesOK
  <2>4. inbox' \in [Conns -> Seq(Entry)] BY <1>2, EmptySeq DEF OInv, Sets
  <2>5. \A c \in Conns : inbox'[c] = inbox[c] \/ inbox'[c] = <<>> BY <1>2
  <2> QED BY <2>1, <2>2, <2>3, <2>4, <2>5, SetsShrink DEF OInv
<1> QED BY <1>5, <1>6, <1>7 DEF OInv

\* runInLoop: the post at the head runs here or joins the queue of its loop.
LEMMA OrderPostOne == ASSUME IInv, IInv', OInv, NEW i \in Loops, PostOne(i) PROVE OInv'
<1>1. PICK p : p = posts[i][1] OBVIOUS
<1>2. /\ p \in Post /\ 1 \in DOMAIN posts[i] /\ Head(posts[i]) = p
      /\ \A j \in Loops \ {i} : posts'[j] = posts[j]
      /\ \A k \in DOMAIN posts'[i] : /\ k + 1 \in DOMAIN posts[i] /\ k + 1 # 1
                                     /\ k \in Nat
                                     /\ posts'[i][k] = posts[i][k + 1]
  BY <1>1, PostTaken DEF IInv
<1>3. PICK t \in Task : t = p.task BY <1>2 DEF Post
<1>4. PICK to \in Loops : to = p.to BY <1>2 DEF Post
<1>5. p \in Posted(i) BY <1>1, <1>2 DEF Posted
<1>6. UNCHANGED <<accepted, said, locals>> BY DEF PostOne, loopVars
<1>7. PostsApart'
  <2>1. ASSUME NEW a \in DOMAIN posts'[i], NEW b \in DOMAIN posts'[i],
               posts'[i][a].to = posts'[i][b].to
        PROVE  a = b
    <3>1. a + 1 = b + 1 BY <1>2, <2>1 DEF OInv, PostsApart
    <3> QED BY <1>2, <3>1
  <2>2. \A j \in Loops : \A a, b \in DOMAIN posts'[j] :
           posts'[j][a].to = posts'[j][b].to => a = b
    BY <1>2, <2>1 DEF OInv, PostsApart
  <2> QED BY <2>2 DEF PostsApart
<1>8. \A j \in Loops : \A q \in Posted(j)' : q \in Posted(j) /\ (j = i => q.to # to)
  <2>1. ASSUME NEW q \in Posted(i)' PROVE q \in Posted(i) /\ q.to # to
    <3>1. PICK k \in DOMAIN posts'[i] : q = posts'[i][k] BY DEF Posted
    <3>2. k + 1 \in DOMAIN posts[i] /\ q = posts[i][k + 1] /\ k + 1 # 1 BY <1>2, <3>1
    <3>3. q.to # to BY <1>1, <1>2, <1>4, <3>2 DEF OInv, PostsApart
    <3> QED BY <3>2, <3>3 DEF Posted
  <2>2. \A j \in Loops \ {i} : Posted(j)' = Posted(j) BY <1>2 DEF Posted
  <2> QED BY <2>1, <2>2
\* What the other broadcasts hold for that loop has another sender.
<1>9. ASSUME Carries(t), NEW j \in Loops, NEW q \in Posted(j)', q.to = to, Carries(q.task)
      PROVE  Precedes(t.msg, q.task.msg)
  <2>1. j # i /\ q \in Posted(j) BY <1>8, <1>9
  <2>2. Owner(q.task.msg.from) = j BY <1>9, <2>1 DEF OInv, Sets, PostedLast
  <2>3. Owner(t.msg.from) = i BY <1>3, <1>5, <1>9 DEF OInv, Sets, PostedLast
  <2> QED BY <2>1, <2>2, <2>3 DEF Precedes
<1>10. Carries(t) => /\ t.msg \in Msg /\ t.msg.n <= said /\ Owner(t.msg.from) = i
                     /\ \A u \in Queued(to) : Ahead(u, t)
  BY <1>3, <1>4, <1>5, CarriedTypes DEF IInv, OInv, Sets, PostedLast
<1>11. CASE to = i
  <2>1. RunTask(i, t) /\ pending' = pending
    BY <1>2, <1>3, <1>4, <1>11 DEF PostOne
  <2>2. /\ inbox' \in [Conns -> Seq(Entry)]
        /\ ~Carries(t) => inbox' = inbox
        /\ Carries(t) => \A c \in Conns :
              \/ inbox'[c] = inbox[c]
              \/ /\ Owner(c) = i
                 /\ \E e \in Entry : e.msg = t.msg /\ inbox'[c] = Append(inbox[c], e)
    BY <2>1, TaskDelivers DEF IInv, OInv, Sets
  <2>3. QueuesInLine'
    BY <1>6, <2>1 DEF OInv, QueuesInLine, InLine, Ahead, Precedes, Carries
  <2>4. \A j \in Loops : Queued(j)' = Queued(j) BY <1>6, <2>1 DEF Queued
  <2>5. CASE ~Carries(t)
    <3>1. said' \in Nat /\ said <= said' BY <1>6 DEF IInv, QueuesOK
    <3>2. Sets' BY <1>8, <2>2, <2>4, <2>5, <3>1, SetsShrink DEF OInv
    <3> QED BY <1>7, <2>3, <3>2 DEF OInv
  <2>6. CASE Carries(t)
    <3>1. PICK m \in Msg : m = t.msg BY <1>10, <2>6
    <3>2. m.n <= said BY <1>10, <2>6, <3>1
    <3>3. \A c \in Conns : Owner(c) = i =>
             \A k \in DOMAIN inbox[c] : Precedes(inbox[c][k].msg, m)
      BY <1>3, <1>4, <1>5, <1>11, <2>6, <3>1 DEF OInv, Sets, ReceivedFirst
    <3>4. \A u \in Queued(i)' : Carries(u) => Precedes(m, u.msg)
      <4> SUFFICES ASSUME NEW u \in Queued(i), Carries(u) PROVE Precedes(m, u.msg)
        BY <2>4
      <4>1. Owner(u.msg.from) # i BY DEF OInv, Sets, QueuedFromElsewhere
      <4>2. Owner(m.from) = i BY <1>10, <2>6, <3>1
      <4> QED BY <4>1, <4>2 DEF Precedes
    <3>5. \A j \in Loops : \A q \in Posted(j)' : q.to = i /\ Carries(q.task) =>
             Precedes(m, q.task.msg)
      BY <1>9, <1>11, <2>6, <3>1
    <3>6. \A c \in Conns :
             \/ inbox'[c] = inbox[c]
             \/ /\ Owner(c) = i
                /\ \E e \in Entry : e.msg = m /\ inbox'[c] = Append(inbox[c], e)
      BY <2>2, <2>6, <3>1
    <3>7. Sets'
      BY <1>6, <1>8, <2>2, <2>4, <3>2, <3>3, <3>4, <3>5, <3>6, SetsDeliver DEF OInv
    <3> QED BY <1>7, <2>3, <3>7 DEF OInv
  <2> QED BY <2>5, <2>6
<1>12. CASE to # i
  <2>1. pending' = [pending EXCEPT ![to] = Append(@, t)] /\ inbox' = inbox
    BY <1>2, <1>3, <1>4, <1>12 DEF PostOne, sentVars
  <2>2. QueuesInLine'
    <3>1. \A u \in Queued(to) : Ahead(u, t) BY <1>10 DEF Ahead
    <3> QED BY <1>6, <2>1, <3>1, OrderQueued DEF IInv, OInv
  <2>3. /\ Queued(to)' = Queued(to) \union {t}
        /\ \A j \in Loops \ {to} : Queued(j)' = Queued(j)
    <3>1. accepted \in Nat /\ accepted' \in Nat /\ accepted <= accepted' /\ MaxConns \in Nat
      BY <1>6, Owners DEF IInv, ConnsOK
    <3>2. t.kind # "adopt" BY <1>3, <1>5 DEF IInv, QueuesOK
    <3> QED BY <1>6, <2>1, <3>1, <3>2, QueuesGrow DEF IInv
  <2>4. QueuedFromElsewhere'
    <3> SUFFICES ASSUME NEW j \in Loops, NEW u \in Queued(j)', Carries(u)
                 PROVE  u.msg.n <= said /\ Owner(u.msg.from) # j
      BY <1>6 DEF QueuedFromElsewhere, Carries, Owner
    <3>1. CASE u \in Queued(j) BY <3>1 DEF OInv, Sets, QueuedFromElsewhere
    <3>2. CASE u = t /\ j = to BY <1>10, <1>12, <3>2
    <3> QED BY <2>3, <3>1, <3>2
  <2>5. PostedLast'
    <3> SUFFICES ASSUME NEW j \in Loops, NEW q \in Posted(j)', Carries(q.task)
                 PROVE  /\ q.task.msg.n <= said /\ Owner(q.task.msg.from) = j
                        /\ \A u \in Queued(q.to)' : Ahead(u, q.task)
      BY <1>6 DEF PostedLast, Carries, Ahead, Precedes, Owner
    <3>1. q \in Posted(j) /\ q.to \in Loops BY <1>8, CarriedTypes DEF IInv
    <3>2. /\ q.task.msg.n <= said /\ Owner(q.task.msg.from) = j
          /\ \A u \in Queued(q.to) : Ahead(u, q.task)
      BY <3>1 DEF OInv, Sets, PostedLast
    <3>3. ASSUME NEW u \in Queued(q.to)' PROVE Ahead(u, q.task)
      <4>1. CASE u \in Queued(q.to) BY <3>2, <4>1
      <4>2. CASE u = t /\ q.to = to BY <1>9, <4>2 DEF Ahead
      <4> QED BY <2>3, <3>1, <4>1, <4>2
    <3> QED BY <3>2, <3>3
  <2>6. ReceivedFirst'
    <3> SUFFICES ASSUME NEW c \in Conns, NEW k \in DOMAIN inbox[c]
                 PROVE  /\ inbox[c][k].msg.n <= said
                        /\ \A u \in Queued(Owner(c))' :
                              Carries(u) => Precedes(inbox[c][k].msg, u.msg)
                        /\ \A j \in Loops : \A q \in Posted(j)' :
                              q.to = Owner(c) /\ Carries(q.task) =>
                                Precedes(inbox[c][k].msg, q.task.msg)
      BY <1>6, <2>1 DEF ReceivedFirst, Carries, Precedes, Owner
    <3>1. ASSUME NEW u \in Queued(Owner(c))', Carries(u)
          PROVE  Precedes(inbox[c][k].msg, u.msg)
      <4>1. CASE u \in Queued(Owner(c)) BY <3>1, <4>1 DEF OInv, Sets, ReceivedFirst
      <4>2. CASE u = t /\ Owner(c) = to
        BY <1>3, <1>4, <1>5, <3>1, <4>2 DEF OInv, Sets, ReceivedFirst
      <4> QED BY <2>3, <4>1, <4>2, Owners
    <3> QED BY <1>8, <3>1 DEF OInv, Sets, ReceivedFirst
  <2>7. PerSenderOrder' BY <2>1 DEF OInv, Sets, PerSenderOrder
  <2>8. inbox' \in [Conns -> Seq(Entry)] BY <2>1 DEF OInv, Sets
  <2> QED BY <1>7, <2>2, <2>4, <2>5, <2>6, <2>7, <2>8 DEF OInv, Sets
<1> QED BY <1>11, <1>12

LEMMA OrderStep == IInv /\ IInv' /\ OInv /\ [Next]_vars => OInv'
<1> SUFFICES ASSUME IInv, IInv', OInv, [Next]_vars PROVE OInv' OBVIOUS
<1>1. CASE UNCHANGED vars BY <1>1, OrderStays DEF vars, loopVars, sentVars
<1>2. CASE OnAccept BY <1>2, OrderAccept
<1>3. ASSUME NEW i \in Loops, OnIdleTick(i) PROVE OInv' BY <1>3, OrderTick
<1>4. ASSUME NEW c \in Conns, PeerResets(c) PROVE OInv'
  BY <1>4, OrderStays DEF PeerResets, loopVars, sentVars
<1>5. ASSUME NEW i \in Loops, SubReactor(i) PROVE OInv'
  <2>1. CASE Poll(i) BY <2>1, OrderStays DEF Poll, sentVars
  <2>2. CASE EventDone(i) BY <2>2, OrderStays DEF EventDone, sentVars
  <2>3. CASE EventClose(i) BY <2>3, OrderStays DEF EventClose, loopVars, sentVars
  <2>4. CASE HandleFrame(i)
    <3>1. ASSUME NEW c \in Conns, NEW n \in Nicks, HandleLogin(i, c, n) PROVE OInv'
      BY <3>1, OrderStays DEF HandleLogin, loopVars, sentVars
    <3> QED BY <2>4, <3>1, OrderSayAll, OrderSayTo DEF HandleFrame
  <2>5. CASE Loop(i) BY <2>5, OrderStays DEF Loop, sentVars
  <2> QED
    BY <1>5, <2>1, <2>2, <2>3, <2>4, <2>5, OrderPostOne, OrderTakeTasks,
       OrderRunOne, OrderSafePoint
    DEF SubReactor
<1> QED BY <1>1, <1>2, <1>3, <1>4, <1>5 DEF Next

\* What one client says reaches each of the others in the order it was said,
\* through whatever mix of inline runs, queues and loops.
THEOREM OrderCorrect == Spec => []PerSenderOrder
<1>1. Init => IInv /\ OInv BY InitInv, OrderInit
<1>2. IInv /\ OInv /\ [Next]_vars => IInv' /\ OInv' BY StepInv, OrderStep
<1>3. OInv => PerSenderOrder BY DEF OInv, Sets
<1> QED BY <1>1, <1>2, <1>3, PTL DEF Spec

----------------------------------------------------------------------------
(* Adoptions and descriptors *)

\* Two tasks that do not adopt the same connection.
Apart(t, u) == t.kind = "adopt" /\ u.kind = "adopt" => t.conn # u.conn
AllApart(s) == \A a, b \in DOMAIN s : a # b => Apart(s[a], s[b])

\* Every accepted connection is adopted once, by its owner.
AdoptionsOnce ==
    \A j \in Loops :
        /\ AllApart(locals[j]) /\ AllApart(pending[j])
        /\ \A a \in DOMAIN locals[j], b \in DOMAIN pending[j] :
              Apart(locals[j][a], pending[j][b])
        /\ \A t \in Queued(j) : t.kind = "adopt" =>
              cstate[t.conn] = "accepted" /\ Owner(t.conn) = j

\* An open connection has a descriptor, of its own.
FdsApart ==
    /\ \A c \in Conns : Open(c) <=> fdOf[c] # NoFd
    /\ \A c, d \in Conns : fdOf[c] = fdOf[d] /\ fdOf[c] # NoFd => c = d

DInv == AdoptionsOnce /\ FdsApart

LEMMA AdoptStays ==
    DInv /\ UNCHANGED <<cstate, fdOf, pending, locals>> => DInv'
BY DEF DInv, AdoptionsOnce, AllApart, Apart, FdsApart, Queued, Open, Owner

LEMMA AdoptInit == Init => DInv
<1> SUFFICES ASSUME Init PROVE DInv OBVIOUS
<1>1. AdoptionsOnce BY DEF Init, AdoptionsOnce, AllApart, Queued
<1>2. FdsApart BY DEF Init, FdsApart, Open
<1> QED BY <1>1, <1>2 DEF DInv

\* Connections that were live are closed: their descriptors are free, and no
\* adoption was waiting for them.
LEMMA CloseApart ==
    ASSUME ConnsOK, FdsApart, NEW i \in Loops, NEW S,
           S \subseteq {c \in Conns : cstate[c] = "live"}, CloseAll(i, S)
    PROVE  /\ FdsApart'
           /\ \A c \in Conns : cstate[c] = "accepted" => cstate'[c] = "accepted"
<1>1. /\ cstate' = [c \in Conns |-> IF c \in S THEN "closed" ELSE cstate[c]]
      /\ fdOf' = [c \in Conns |-> IF c \in S THEN NoFd ELSE fdOf[c]]
  BY DEF CloseAll
<1>2. \A c \in Conns : cstate[c] = "accepted" => cstate'[c] = "accepted" BY <1>1
<1>3. \A c \in Conns : Open(c)' <=> fdOf'[c] # NoFd BY <1>1 DEF FdsApart, Open
<1>4. \A c, d \in Conns : fdOf'[c] = fdOf'[d] /\ fdOf'[c] # NoFd => c = d
  BY <1>1 DEF FdsApart
<1> QED BY <1>2, <1>3, <1>4 DEF FdsApart

LEMMA TaskApart ==
    ASSUME ConnsOK, FdsApart, NEW i \in Loops, NEW t \in Task, RunTask(i, t),
           t.kind = "adopt" => cstate[t.conn] = "accepted"
    PROVE  /\ FdsApart'
           /\ \A c \in Conns : cstate[c] = "accepted" /\ (t.kind = "adopt" => c # t.conn)
                                  => cstate'[c] = "accepted"
<1>0. /\ LiveOn(i) \subseteq {c \in Conns : cstate[c] = "live"}
      /\ FailedOf(LoggedConnsOf(i)) \subseteq LiveOn(i)
      /\ FailedOf(LoggedConnsOf(i) \ {t.msg.from}) \subseteq LiveOn(i)
      /\ FailedOf({c \in LiveOn(i) : fdOf[c] = t.fd}) \subseteq LiveOn(i)
  BY DEF LiveOn, LoggedConnsOf, FailedOf
<1>1. CASE RunAdopt(i, t)
  <2>1. /\ t.kind = "adopt" /\ t.conn \in Conns /\ cstate[t.conn] = "accepted"
        /\ cstate' = [cstate EXCEPT ![t.conn] = "live"] /\ fdOf' = fdOf
    BY <1>1 DEF RunAdopt, Task
  <2>2. \A c \in Conns : Open(c)' <=> Open(c) BY <2>1 DEF Open, ConnsOK
  <2> QED BY <2>1, <2>2 DEF FdsApart, ConnsOK
<1>2. ASSUME NEW S, S \subseteq LiveOn(i), CloseAll(i, S)
      PROVE  /\ FdsApart'
             /\ \A c \in Conns : cstate[c] = "accepted" => cstate'[c] = "accepted"
  BY <1>0, <1>2, CloseApart
<1>3. CASE RunUsers(i, t) BY <1>0, <1>2, <1>3 DEF RunUsers
<1>4. CASE RunChat(i, t) BY <1>0, <1>2, <1>4 DEF RunChat
<1>5. CASE RunPrivate(i, t) BY <1>0, <1>2, <1>5 DEF RunPrivate
<1>6. CASE RunIdle(i, t) BY <1>2, <1>6 DEF RunIdle
<1> QED BY <1>1, <1>3, <1>4, <1>5, <1>6 DEF RunTask

\* A task more in a queue, which adopts nothing that is queued there.
LEMMA AdoptQueued ==
    ASSUME QueuesOK, AdoptionsOnce, NEW j \in Loops, NEW t \in Task,
           pending' = [pending EXCEPT ![j] = Append(@, t)], locals' = locals,
           \A u \in Queued(j) : Apart(u, t),
           t.kind = "adopt" => cstate'[t.conn] = "accepted" /\ Owner(t.conn) = j,
           \A c \in Conns : cstate[c] = "accepted" => cstate'[c] = "accepted"
    PROVE  AdoptionsOnce'
<1>1. /\ DOMAIN Append(pending[j], t) = DOMAIN pending[j] \union {Len(pending[j]) + 1}
      /\ \A k \in DOMAIN pending[j] : /\ Append(pending[j], t)[k] = pending[j][k]
                                      /\ k # Len(pending[j]) + 1
      /\ Append(pending[j], t)[Len(pending[j]) + 1] = t
  BY Appended DEF QueuesOK
<1>2. /\ pending'[j] = Append(pending[j], t)
      /\ \A k \in Loops \ {j} : pending'[k] = pending[k]
  BY DEF QueuesOK
<1>3. \A k \in DOMAIN pending[j] : pending[j][k] \in Queued(j) BY DEF Queued
<1>4. \A k \in DOMAIN locals[j] : locals[j][k] \in Queued(j) BY DEF Queued
<1>5. AllApart(pending'[j])
  BY <1>1, <1>2, <1>3 DEF AdoptionsOnce, AllApart, Apart
<1>6. \A a \in DOMAIN locals[j], b \in DOMAIN pending'[j] : Apart(locals[j][a], pending'[j][b])
  BY <1>1, <1>2, <1>4 DEF AdoptionsOnce
<1>7. /\ Queued(j)' = Queued(j) \union {t}
      /\ \A k \in Loops \ {j} : Queued(k)' = Queued(k)
  BY <1>1, <1>2 DEF Queued
<1>8. ASSUME NEW k \in Loops, NEW u \in Queued(k)', u.kind = "adopt"
      PROVE  cstate'[u.conn] = "accepted" /\ Owner(u.conn) = k
  <2>1. CASE u \in Queued(k)
    <3>1. cstate[u.conn] = "accepted" /\ Owner(u.conn) = k BY <1>8, <2>1 DEF AdoptionsOnce
    <3>2. u.conn \in Conns BY <1>8, <2>1, QueuedTasks DEF Task
    <3> QED BY <3>1, <3>2
  <2>2. CASE u = t /\ k = j BY <1>8, <2>2
  <2> QED BY <1>7, <2>1, <2>2
<1> QED BY <1>2, <1>5, <1>6, <1>8 DEF AdoptionsOnce, AllApart, Apart, Owner

\* Tasks leave the queues or keep their places, and what they adopt is there.
LEMMA AdoptSame ==
    ASSUME QueuesOK, AdoptionsOnce, UNCHANGED <<pending, locals>>,
           \A c \in Conns : cstate[c] = "accepted" => cstate'[c] = "accepted"
    PROVE  AdoptionsOnce'
<1>1. \A j \in Loops : \A t \in Queued(j) : t.kind = "adopt" => t.conn \in Conns
  BY QueuedTasks DEF Task
<1> QED BY <1>1 DEF AdoptionsOnce, AllApart, Apart, Queued, Owner

LEMMA AdoptAccept == ASSUME IInv, DInv, OnAccept PROVE DInv'
<1> DEFINE c == accepted + 1
<1>1. PICK fd \in Fds \ UsedFds :
        /\ accepted < MaxConns
        /\ cstate' = [cstate EXCEPT ![c] = "accepted"]
        /\ fdOf' = [fdOf EXCEPT ![c] = fd]
        /\ pending' = [pending EXCEPT ![Owner(c)] = Append(@, Adopt(c))]
        /\ locals' = locals
  BY DEF OnAccept, loopVars
<1>2. c \in Conns /\ cstate[c] = "new"
  <2>1. accepted \in 0 .. MaxConns /\ MaxConns \in Nat BY Owners DEF IInv, ConnsOK
  <2>2. c \in Conns /\ accepted < c BY <1>1, <2>1 DEF Conns
  <2> QED BY <2>2 DEF IInv, ConnsOK
<1>3. Adopt(c) \in Task /\ Adopt(c).kind = "adopt" /\ Adopt(c).conn = c
  BY <1>2 DEF Adopt, Task
<1>4. Owner(c) \in Loops BY <1>2, Owners
<1>5. /\ cstate'[c] = "accepted" /\ fdOf'[c] = fd /\ fd # NoFd
      /\ \A d \in Conns \ {c} : cstate'[d] = cstate[d] /\ fdOf'[d] = fdOf[d]
      /\ \A d \in Conns : fdOf[d] # fd
  <2>1. fd # NoFd BY <1>1, ConstantsAssumption DEF Fds, NoFd
  <2>2. \A d \in Conns : fdOf[d] # fd
    <3>1. \A d \in Conns : Open(d) => fdOf[d] # fd BY <1>1 DEF UsedFds
    <3>2. \A d \in Conns : ~Open(d) => fdOf[d] = NoFd BY DEF DInv, FdsApart
    <3> QED BY <2>1, <3>1, <3>2
  <2> QED BY <1>1, <1>2, <2>1, <2>2 DEF IInv, ConnsOK
<1>6. \A u \in Queued(Owner(c)) : Apart(u, Adopt(c))
  BY <1>2, <1>3, <1>4 DEF DInv, AdoptionsOnce, Apart
<1> HIDE DEF c
<1>7. AdoptionsOnce'
  <2>1. \A d \in Conns : cstate[d] = "accepted" => cstate'[d] = "accepted" BY <1>5
  <2> QED BY <1>1, <1>3, <1>4, <1>5, <1>6, <2>1, AdoptQueued DEF IInv, DInv
<1>8. \A d \in Conns : Open(d)' <=> fdOf'[d] # NoFd
  BY <1>5 DEF DInv, FdsApart, Open
<1>9. \A d, e \in Conns : fdOf'[d] = fdOf'[e] /\ fdOf'[d] # NoFd => d = e
  BY <1>5 DEF DInv, FdsApart
<1> QED BY <1>7, <1>8, <1>9 DEF DInv, FdsApart

LEMMA AdoptTick == ASSUME IInv, DInv, NEW i \in Loops, OnIdleTick(i) PROVE DInv'
<1>1. /\ pending' = [pending EXCEPT ![i] = Append(@, IdleScan)]
      /\ UNCHANGED <<cstate, fdOf, locals>>
  BY DEF OnIdleTick, connVars, loopVars
<1>2. IdleScan \in Task /\ IdleScan.kind = "idle" BY DEF IdleScan, Task
<1>3. \A u \in Queued(i) : Apart(u, IdleScan) BY <1>2 DEF Apart
<1>4. AdoptionsOnce' BY <1>1, <1>2, <1>3, AdoptQueued DEF IInv, DInv
<1>5. FdsApart' BY <1>1 DEF DInv, FdsApart, Open
<1> QED BY <1>4, <1>5 DEF DInv

LEMMA AdoptEventClose == ASSUME IInv, DInv, NEW i \in Loops, EventClose(i) PROVE DInv'
<1>1. PICK c \in Conns : cstate[c] = "live" /\ CloseAll(i, {c})
  BY DEF EventClose
<1>2. UNCHANGED <<pending, locals>> BY DEF EventClose, loopVars
<1>3. {c} \subseteq {d \in Conns : cstate[d] = "live"} BY <1>1
<1>4. /\ FdsApart'
      /\ \A d \in Conns : cstate[d] = "accepted" => cstate'[d] = "accepted"
  BY <1>1, <1>3, CloseApart DEF IInv, DInv
<1> QED BY <1>2, <1>4, AdoptSame DEF IInv, DInv

LEMMA AdoptPostOne == ASSUME IInv, DInv, NEW i \in Loops, PostOne(i) PROVE DInv'
<1>1. PICK p \in Post : p = posts[i][1] /\ p \in Posted(i) /\ Head(posts[i]) = p
  BY PostTaken DEF IInv, Posted
<1>2. PICK t \in Task : t = p.task BY <1>1 DEF Post
<1>3. p.to \in Loops BY <1>1 DEF Post
<1>4. t.kind # "adopt" BY <1>1, <1>2 DEF IInv, QueuesOK
<1>5. locals' = locals BY DEF PostOne, loopVars
<1>6. CASE p.to = i
  <2>1. RunTask(i, t) /\ pending' = pending BY <1>1, <1>2, <1>6 DEF PostOne
  <2>2. /\ FdsApart'
        /\ \A d \in Conns : cstate[d] = "accepted" => cstate'[d] = "accepted"
    BY <1>4, <2>1, TaskApart DEF IInv, DInv
  <2> QED BY <1>5, <2>1, <2>2, AdoptSame DEF IInv, DInv
<1>7. CASE p.to # i
  <2>1. /\ pending' = [pending EXCEPT ![p.to] = Append(@, t)]
        /\ UNCHANGED <<cstate, fdOf>>
    BY <1>1, <1>2, <1>7 DEF PostOne, connVars
  <2>2. \A u \in Queued(p.to) : Apart(u, t) BY <1>4 DEF Apart
  <2>3. AdoptionsOnce' BY <1>3, <1>4, <1>5, <2>1, <2>2, AdoptQueued DEF IInv, DInv
  <2>4. FdsApart' BY <2>1 DEF DInv, FdsApart, Open
  <2> QED BY <2>3, <2>4 DEF DInv
<1> QED BY <1>6, <1>7

LEMMA AdoptTakeTasks == ASSUME IInv, DInv, NEW i \in Loops, TakeTasks(i) PROVE DInv'
<1>1. /\ locals' = [locals EXCEPT ![i] = pending[i]]
      /\ pending' = [pending EXCEPT ![i] = <<>>]
      /\ UNCHANGED <<cstate, fdOf>>
  BY DEF TakeTasks, connVars
<1>2. /\ locals'[i] = pending[i] /\ pending'[i] = <<>>
      /\ \A j \in Loops \ {i} : locals'[j] = locals[j] /\ pending'[j] = pending[j]
  BY <1>1 DEF IInv, QueuesOK
<1>3. \A j \in Loops : \A t \in Queued(j)' : t \in Queued(j)
  <2>1. \A t \in Queued(i)' : t \in Queued(i) BY <1>2 DEF Queued
  <2>2. \A j \in Loops \ {i} : Queued(j)' = Queued(j) BY <1>2 DEF Queued
  <2> QED BY <2>1, <2>2
<1>4. ASSUME NEW j \in Loops
      PROVE  /\ AllApart(locals'[j]) /\ AllApart(pending'[j])
             /\ \A a \in DOMAIN locals'[j], b \in DOMAIN pending'[j] :
                   Apart(locals'[j][a], pending'[j][b])
  <2>1. CASE j = i BY <1>2, <2>1 DEF DInv, AdoptionsOnce, AllApart
  <2>2. CASE j # i BY <1>2, <2>2 DEF DInv, AdoptionsOnce
  <2> QED BY <2>1, <2>2
<1>5. AdoptionsOnce'
  BY <1>1, <1>3, <1>4 DEF DInv, AdoptionsOnce, AllApart, Apart, Owner
<1>6. FdsApart' BY <1>1 DEF DInv, FdsApart, Open
<1> QED BY <1>5, <1>6 DEF DInv

LEMMA AdoptRunOne == ASSUME IInv, DInv, NEW i \in Loops, RunOne(i) PROVE DInv'
<1>1. PICK t \in Task : t = locals[i][1] BY TaskTaken DEF IInv
<1>2. /\ 1 \in DOMAIN locals[i] /\ Head(locals[i]) = t /\ t \in Queued(i)
      /\ \A j \in Loops \ {i} : locals'[j] = locals[j]
      /\ \A k \in DOMAIN locals'[i] : /\ k + 1 \in DOMAIN locals[i] /\ k + 1 # 1
                                      /\ k \in Nat
                                      /\ locals'[i][k] = locals[i][k + 1]
  BY <1>1, TaskTaken DEF IInv, Queued
<1>3. RunTask(i, t) /\ pending' = pending BY <1>2 DEF RunOne
<1>4. t.kind = "adopt" => cstate[t.conn] = "accepted" /\ Owner(t.conn) = i
  BY <1>2 DEF DInv, AdoptionsOnce
<1>5. /\ FdsApart'
      /\ \A c \in Conns : cstate[c] = "accepted" /\ (t.kind = "adopt" => c # t.conn)
                             => cstate'[c] = "accepted"
  BY <1>3, <1>4, TaskApart DEF IInv, DInv
<1>6. ASSUME NEW j \in Loops, NEW u \in Queued(j)'
      PROVE  u \in Queued(j) /\ (j = i => Apart(t, u))
  <2>1. CASE j # i BY <1>2, <1>3, <2>1 DEF Queued
  <2>2. CASE j = i /\ u \in {locals'[i][k] : k \in DOMAIN locals'[i]}
    <3>1. PICK k \in DOMAIN locals'[i] : u = locals'[i][k] BY <2>2
    <3>2. k + 1 \in DOMAIN locals[i] /\ u = locals[i][k + 1] /\ 1 # k + 1 BY <1>2, <3>1
    <3> QED BY <1>1, <1>2, <2>2, <3>2 DEF Queued, DInv, AdoptionsOnce, AllApart
  <2>3. CASE j = i /\ u \in {pending[i][k] : k \in DOMAIN pending[i]}
    BY <1>1, <1>2, <2>3 DEF Queued, DInv, AdoptionsOnce
  <2> QED BY <1>3, <2>1, <2>2, <2>3 DEF Queued
<1>7. ASSUME NEW j \in Loops, NEW u \in Queued(j)', u.kind = "adopt"
      PROVE  cstate'[u.conn] = "accepted" /\ Owner(u.conn) = j
  <2>1. u \in Queued(j) BY <1>6
  <2>2. cstate[u.conn] = "accepted" /\ Owner(u.conn) = j
    BY <1>7, <2>1 DEF DInv, AdoptionsOnce
  <2>3. u.conn \in Conns BY <1>7, <2>1, QueuedTasks DEF IInv, Task
  <2>4. t.kind = "adopt" => u.conn # t.conn
    <3>1. CASE j = i BY <1>6, <1>7, <3>1 DEF Apart
    <3>2. CASE j # i BY <1>4, <2>2, <3>2
    <3> QED BY <3>1, <3>2
  <2> QED BY <1>5, <2>2, <2>3, <2>4
<1>8. ASSUME NEW j \in Loops
      PROVE  /\ AllApart(locals'[j]) /\ AllApart(pending[j])
             /\ \A a \in DOMAIN locals'[j], b \in DOMAIN pending[j] :
                   Apart(locals'[j][a], pending[j][b])
  <2>1. CASE j = i
    <3>1. ASSUME NEW a \in DOMAIN locals'[i], NEW b \in DOMAIN locals'[i], a # b
          PROVE  Apart(locals'[i][a], locals'[i][b])
      <4>1. a + 1 # b + 1 BY <1>2, <3>1
      <4> QED BY <1>2, <4>1 DEF DInv, AdoptionsOnce, AllApart
    <3> QED BY <1>2, <2>1, <3>1 DEF DInv, AdoptionsOnce, AllApart
  <2>2. CASE j # i BY <1>2, <2>2 DEF DInv, AdoptionsOnce
  <2> QED BY <2>1, <2>2
<1>9. AdoptionsOnce' BY <1>3, <1>7, <1>8 DEF AdoptionsOnce, AllApart, Apart, Owner
<1> QED BY <1>5, <1>9 DEF DInv

LEMMA AdoptSafePoint == ASSUME IInv, DInv, NEW i \in Loops, SafePoint(i) PROVE DInv'
<1>1. /\ cstate' = [c \in Conns |-> IF c \in Reap(i) THEN "freed" ELSE cstate[c]]
      /\ UNCHANGED <<fdOf, pending, locals>>
  BY DEF SafePoint
<1>2. \A c \in Reap(i) : cstate[c] = "closed" BY DEF Reap
<1>3. \A c \in Conns : cstate[c] = "accepted" => cstate'[c] = "accepted" BY <1>1, <1>2
<1>4. \A c \in Conns : Open(c)' <=> Open(c) BY <1>1, <1>2 DEF Open
<1>5. FdsApart' BY <1>1, <1>4 DEF DInv, FdsApart
<1> QED BY <1>1, <1>3, <1>5, AdoptSame DEF IInv, DInv

LEMMA AdoptStep == IInv /\ DInv /\ [Next]_vars => DInv'
<1> SUFFICES ASSUME IInv, DInv, [Next]_vars PROVE DInv' OBVIOUS
<1>1. CASE UNCHANGED vars BY <1>1, AdoptStays DEF vars, connVars, loopVars
<1>2. CASE OnAccept BY <1>2, AdoptAccept
<1>3. ASSUME NEW i \in Loops, OnIdleTick(i) PROVE DInv' BY <1>3, AdoptTick
<1>4. ASSUME NEW c \in Conns, PeerResets(c) PROVE DInv'
  BY <1>4, AdoptStays DEF PeerResets, connVars, loopVars
<1>5. ASSUME NEW i \in Loops, SubReactor(i) PROVE DInv'
  <2>1. CASE Poll(i) BY <2>1, AdoptStays DEF Poll, connVars
  <2>2. CASE EventDone(i) BY <2>2, AdoptStays DEF EventDone, connVars
  <2>3. CASE HandleFrame(i)
    <3>1. ASSUME NEW c \in Conns, HandleSayAll(i, c) PROVE DInv'
      BY <3>1, AdoptStays DEF HandleSayAll, connVars, loopVars
    <3>2. ASSUME NEW c \in Conns, NEW n \in Nicks, HandleLogin(i, c, n) PROVE DInv'
      BY <3>2, AdoptStays DEF HandleLogin, loopVars
    <3>3. ASSUME NEW c \in Conns, NEW n \in Nicks, HandleSayTo(i, c, n) PROVE DInv'
      BY <3>3, AdoptStays DEF HandleSayTo, connVars, loopVars
    <3> QED BY <2>3, <3>1, <3>2, <3>3 DEF HandleFrame
  <2>4. CASE Loop(i) BY <2>4, AdoptStays DEF Loop, connVars
  <2> QED
    BY <1>5, <2>1, <2>2, <2>3, <2>4, AdoptEventClose, AdoptPostOne, AdoptTakeTasks,
       AdoptRunOne, AdoptSafePoint
    DEF SubReactor
<1> QED BY <1>1, <1>2, <1>3, <1>4, <1>5 DEF Next

----------------------------------------------------------------------------
(* One sub Reactor: every post runs at once *)

\* A message that is about to be sent is sent to whom it is meant for, and a
\* list that is about to be sent is the present one, or dirty again.
PostsTrue ==
    \A i \in Loops : \A p \in Posted(i) :
        /\ p.task.kind = "chat" => p.task.msg.to = Everyone
        /\ p.task.kind = "private" =>
              \A c \in LiveOn(i) : fdOf[c] = p.task.fd => nick[c] = p.task.msg.to
        /\ p.task.kind = "users" => dirty[i] \/ p.task.list = OnlineNicks

Listed == \A c \in Conns : nick[c] # NoNick => users[c] = OnlineNicks

\* A list that is not current is marked, or its successor is being posted.
ListsCurrent ==
    \A i \in Loops :
        dirty[i] \/ (\E p \in Posted(i) : p.task.kind = "users") \/ Listed

\* Nothing else happens on a loop in the middle of a post; no message and no
\* list waits in a queue.
PostsAtOnce ==
    /\ dirty \in [Loops -> BOOLEAN]
    /\ \A i \in Loops : posts[i] # <<>> => phase[i] \in {"events", "bcast"}
    /\ \A i \in Loops : \A t \in Queued(i) : t.kind \in {"adopt", "idle"}

SInv == PostsAtOnce /\ PostsTrue /\ ListsCurrent /\ PrivateToAddressee

LEMMA OneLoop ==
    ASSUME NLoops = 1
    PROVE  /\ \A i, j \in Loops : i = j
           /\ \A i \in Loops, c \in Conns : Owner(c) = i
<1>1. Loops = {0} BY DEF Loops
<1> QED BY <1>1, Owners

LEMMA OneInit == Init => SInv
<1> SUFFICES ASSUME Init PROVE SInv OBVIOUS
<1>1. \A i \in Loops : Queued(i) = {} /\ Posted(i) = {}
  BY DEF Init, Queued, Posted
<1>2. PostsAtOnce BY <1>1 DEF Init, PostsAtOnce
<1>3. PostsTrue /\ ListsCurrent BY <1>1 DEF Init, PostsTrue, ListsCurrent, Listed
<1>4. PrivateToAddressee BY DEF Init, PrivateToAddressee
<1> QED BY <1>2, <1>3, <1>4 DEF SInv

\* closeConn marks the list if it changes it.
LEMMA CloseMarks ==
    ASSUME ConnsOK, dirty \in [Loops -> BOOLEAN], NEW i \in Loops,
           NEW S, S \subseteq Conns, CloseAll(i, S)
    PROVE  /\ dirty' \in [Loops -> BOOLEAN]
           /\ dirty[i] => dirty'[i]
           /\ ~dirty'[i] => /\ OnlineNicks' = OnlineNicks
                            /\ \A c \in S : nick[c] = NoNick
           /\ \A c \in Conns : nick'[c] # NoNick => c \notin S /\ nick'[c] = nick[c]
           /\ \A c \in Conns : c \notin S => nick'[c] = nick[c] /\ fdOf'[c] = fdOf[c]
           /\ \A c \in Conns : cstate'[c] = "live" => cstate[c] = "live" /\ c \notin S
<1>1. /\ cstate' = [c \in Conns |-> IF c \in S THEN "closed" ELSE cstate[c]]
      /\ fdOf' = [c \in Conns |-> IF c \in S THEN NoFd ELSE fdOf[c]]
      /\ nick' = [c \in Conns |-> IF c \in S THEN NoNick ELSE nick[c]]
      /\ index' = {e \in index : \A c \in S : e.nick # nick[c]}
      /\ dirty' = [dirty EXCEPT ![i] = @ \/ \E c \in S : nick[c] # NoNick]
  BY DEF CloseAll
<1>2. PICK marked : marked = (\E c \in S : nick[c] # NoNick) OBVIOUS
<1>3. marked \in BOOLEAN BY <1>2
<1>4. (dirty[i] \/ marked) \in BOOLEAN OBVIOUS
<1>5. dirty' = [dirty EXCEPT ![i] = dirty[i] \/ marked] BY <1>1, <1>2, Zenon
<1>6. dirty' \in [Loops -> BOOLEAN] /\ dirty'[i] = (dirty[i] \/ marked)
  BY <1>4, <1>5, Zenon
<1>7. ASSUME ~dirty'[i]
      PROVE  /\ OnlineNicks' = OnlineNicks
             /\ \A c \in S : nick[c] = NoNick
  <2>1. \A c \in S : nick[c] = NoNick BY <1>2, <1>6, <1>7
  <2>2. \A e \in index : e.nick # NoNick BY ConstantsAssumption DEF ConnsOK
  <2>3. index' = index BY <1>1, <2>1, <2>2
  <2> QED BY <2>1, <2>3 DEF OnlineNicks
<1> QED BY <1>1, <1>6, <1>7

\* What a task of a loop on its own leaves true.
SendsRight(i, t) ==
    /\ t.kind = "chat" => t.msg.to = Everyone
    /\ t.kind = "private" =>
          \A c \in LiveOn(i) : fdOf[c] = t.fd => nick[c] = t.msg.to

LEMMA DeliverRight ==
    ASSUME PrivateToAddressee, NEW S, NEW m,
           \A c \in S \cap Conns : m.to \in {Everyone, nick[c]},
           inbox \in [Conns -> Seq(Entry)], DeliverChat(S, m),
           m \in Msg, ConnsOK
    PROVE  PrivateToAddressee'
<1> SUFFICES ASSUME NEW c \in Conns, NEW k \in DOMAIN inbox'[c]
             PROVE  inbox'[c][k].msg.to \in {Everyone, inbox'[c][k].as}
  BY DEF PrivateToAddressee
<1>1. PICK e \in Entry : e = [msg |-> m, as |-> nick[c]] BY DEF ConnsOK, Entry
<1>2. inbox'[c] = IF c \in SentOf(S) THEN Append(inbox[c], e) ELSE inbox[c]
  BY <1>1 DEF DeliverChat
<1>3. CASE c \in SentOf(S)
  <2>1. inbox[c] \in Seq(Entry) OBVIOUS
  <2>2. /\ DOMAIN inbox'[c] = DOMAIN inbox[c] \union {Len(inbox[c]) + 1}
        /\ \A a \in DOMAIN inbox[c] : inbox'[c][a] = inbox[c][a]
        /\ inbox'[c][Len(inbox[c]) + 1] = e
    BY <1>2, <1>3, <2>1, Appended
  <2>3. e.msg.to \in {Everyone, e.as} BY <1>1, <1>3 DEF SentOf
  <2>4. CASE k \in DOMAIN inbox[c] BY <2>2, <2>4 DEF PrivateToAddressee
  <2>5. CASE k = Len(inbox[c]) + 1 BY <2>2, <2>3, <2>5
  <2> QED BY <2>2, <2>4, <2>5
<1>4. CASE c \notin SentOf(S) BY <1>2, <1>4 DEF PrivateToAddressee
<1> QED BY <1>3, <1>4

LEMMA TaskSendsRight ==
    ASSUME PrivateToAddressee, ConnsOK, inbox \in [Conns -> Seq(Entry)],
           NEW i \in Loops, NEW t \in Task, SendsRight(i, t), RunTask(i, t)
    PROVE  PrivateToAddressee'
<1>1. CASE RunChat(i, t)
  <2>1. t.msg \in Msg /\ t.msg.to = Everyone BY <1>1 DEF RunChat, Task, SendsRight
  <2>2. PICK S : S = LoggedConnsOf(i) \ {t.msg.from} OBVIOUS
  <2>3. DeliverChat(S, t.msg) BY <1>1, <2>2 DEF RunChat
  <2>4. \A c \in S \cap Conns : t.msg.to \in {Everyone, nick[c]} BY <2>1
  <2> QED BY <2>1, <2>3, <2>4, DeliverRight
<1>2. CASE RunPrivate(i, t)
  <2>1. t.msg \in Msg BY <1>2 DEF RunPrivate, Task
  <2>2. PICK S : S = {c \in LiveOn(i) : fdOf[c] = t.fd} OBVIOUS
  <2>3. DeliverChat(S, t.msg) BY <1>2, <2>2 DEF RunPrivate
  <2>4. \A c \in S \cap Conns : t.msg.to \in {Everyone, nick[c]}
    BY <1>2, <2>2 DEF RunPrivate, SendsRight
  <2> QED BY <2>1, <2>3, <2>4, DeliverRight
<1>3. CASE RunAdopt(i, t) \/ RunUsers(i, t) \/ RunIdle(i, t)
  BY <1>3 DEF RunAdopt, RunUsers, RunIdle, sentVars, PrivateToAddressee
<1> QED BY <1>1, <1>2, <1>3 DEF RunTask

\* What a task does to the lists of the loop that has all connections: it
\* leaves every list as current as it was, marks the list, or is its broadcast.
LEMMA TaskLists ==
    ASSUME NLoops = 1, ConnsOK, ConnsOK', dirty \in [Loops -> BOOLEAN],
           NEW i \in Loops, NEW t \in Task, RunTask(i, t)
    PROVE  /\ dirty' \in [Loops -> BOOLEAN]
           /\ dirty[i] => dirty'[i]
           /\ ~dirty'[i] => OnlineNicks' = OnlineNicks
           /\ ~dirty'[i] /\ t.kind # "users" /\ Listed => Listed'
           /\ ~dirty'[i] /\ t.kind = "users" /\ t.list = OnlineNicks => Listed'
           /\ t.kind # "adopt" => \A c \in LiveOn(i)' :
                 c \in LiveOn(i) /\ fdOf'[c] = fdOf[c] /\ nick'[c] = nick[c]
<1>0. /\ LiveOn(i) \subseteq Conns
      /\ LoggedConnsOf(i) \subseteq LiveOn(i)
      /\ FailedOf(LoggedConnsOf(i)) \subseteq LiveOn(i)
      /\ FailedOf(LoggedConnsOf(i) \ {t.msg.from}) \subseteq LiveOn(i)
      /\ FailedOf({c \in LiveOn(i) : fdOf[c] = t.fd}) \subseteq LiveOn(i)
  BY DEF LiveOn, LoggedConnsOf, FailedOf
<1>1. ASSUME NEW S, S \subseteq LiveOn(i), CloseAll(i, S)
      PROVE  /\ dirty' \in [Loops -> BOOLEAN]
             /\ dirty[i] => dirty'[i]
             /\ ~dirty'[i] => OnlineNicks' = OnlineNicks /\ \A c \in S : nick[c] = NoNick
             /\ \A c \in Conns : nick'[c] # NoNick => nick'[c] = nick[c]
             /\ \A c \in LiveOn(i)' :
                   c \in LiveOn(i) /\ fdOf'[c] = fdOf[c] /\ nick'[c] = nick[c]
             /\ ~dirty'[i] /\ users' = users /\ Listed => Listed'
  <2>1. S \subseteq Conns BY <1>0, <1>1
  <2>2. /\ dirty' \in [Loops -> BOOLEAN]
        /\ dirty[i] => dirty'[i]
        /\ ~dirty'[i] => OnlineNicks' = OnlineNicks /\ \A c \in S : nick[c] = NoNick
        /\ \A c \in Conns : nick'[c] # NoNick => c \notin S /\ nick'[c] = nick[c]
        /\ \A c \in Conns : c \notin S => nick'[c] = nick[c] /\ fdOf'[c] = fdOf[c]
        /\ \A c \in Conns : cstate'[c] = "live" => cstate[c] = "live" /\ c \notin S
    BY <1>1, <2>1, CloseMarks
  <2>3. \A c \in LiveOn(i)' :
           c \in LiveOn(i) /\ fdOf'[c] = fdOf[c] /\ nick'[c] = nick[c]
    BY <2>2 DEF LiveOn, Owner
  <2>4. ~dirty'[i] /\ users' = users /\ Listed => Listed' BY <2>2 DEF Listed
  <2> QED BY <2>2, <2>3, <2>4
<1>2. CASE RunAdopt(i, t)
  <2>1. t.kind = "adopt" /\ UNCHANGED <<nick, index, dirty, users>>
    BY <1>2 DEF RunAdopt, sentVars
  <2> QED BY <2>1 DEF Listed, OnlineNicks
<1>3. CASE RunUsers(i, t)
  <2>1. PICK S : S = LoggedConnsOf(i) OBVIOUS
  <2>2. /\ t.kind = "users"
        /\ users' = [c \in Conns |-> IF c \in SentOf(S) THEN t.list ELSE users[c]]
        /\ CloseAll(i, FailedOf(S))
    BY <1>3, <2>1 DEF RunUsers
  <2>3. FailedOf(S) \subseteq LiveOn(i) BY <1>0, <2>1
  <2>4. /\ dirty' \in [Loops -> BOOLEAN]
        /\ dirty[i] => dirty'[i]
        /\ ~dirty'[i] => OnlineNicks' = OnlineNicks /\ \A c \in FailedOf(S) : nick[c] = NoNick
        /\ \A c \in Conns : nick'[c] # NoNick => nick'[c] = nick[c]
        /\ \A c \in LiveOn(i)' :
              c \in LiveOn(i) /\ fdOf'[c] = fdOf[c] /\ nick'[c] = nick[c]
    BY <1>1, <2>2, <2>3
  <2>5. ASSUME ~dirty'[i], t.list = OnlineNicks PROVE Listed'
    <3>1. OnlineNicks' = OnlineNicks BY <2>4, <2>5
    <3>2. ASSUME NEW c \in Conns, nick'[c] # NoNick PROVE users'[c] = OnlineNicks
      <4>1. nick[c] # NoNick BY <2>4, <3>2
      <4>2. cstate[c] = "live" BY <4>1 DEF ConnsOK, NamesMatch
      <4>3. c \in S BY <2>1, <4>1, <4>2, OneLoop DEF LoggedConnsOf, LiveOn
      <4>4. c \notin FailedOf(S) BY <2>4, <2>5, <4>1
      <4>5. c \in SentOf(S) BY <4>3, <4>4 DEF FailedOf, SentOf
      <4> QED BY <2>2, <2>5, <4>5
    <3> QED BY <3>1, <3>2 DEF Listed
  <2> QED BY <2>2, <2>4, <2>5
<1>4. CASE RunChat(i, t)
  BY <1>0, <1>1, <1>4 DEF RunChat
<1>5. CASE RunPrivate(i, t)
  BY <1>0, <1>1, <1>5 DEF RunPrivate
<1>6. CASE RunIdle(i, t)
  BY <1>1, <1>6 DEF RunIdle, sentVars
<1> QED BY <1>2, <1>3, <1>4, <1>5, <1>6 DEF RunTask

\* A step that touches neither posts nor lists nor names.
LEMMA OneStays ==
    ASSUME SInv, PostsAtOnce',
           UNCHANGED <<posts, dirty, index, nick, users, inbox>>,
           \A i \in Loops : \A c \in LiveOn(i)' : c \in LiveOn(i) /\ fdOf'[c] = fdOf[c]
    PROVE  SInv'
<1>1. \A i \in Loops : Posted(i)' = Posted(i) BY DEF Posted
<1>2. OnlineNicks' = OnlineNicks BY DEF OnlineNicks
<1>3. PostsTrue' BY <1>1, <1>2 DEF SInv, PostsTrue
<1>4. ListsCurrent' BY <1>1, <1>2 DEF SInv, ListsCurrent, Listed
<1>5. PrivateToAddressee' BY DEF SInv, PrivateToAddressee
<1> QED BY <1>3, <1>4, <1>5 DEF SInv

LEMMA OneMain ==
    /\ IInv /\ SInv /\ OnAccept => SInv'
    /\ \A i \in Loops : IInv /\ SInv /\ OnIdleTick(i) => SInv'
<1>1. ASSUME IInv, NEW j \in Loops, NEW t \in Task, SInv, t.kind \in {"adopt", "idle"},
             pending' = [pending EXCEPT ![j] = Append(@, t)],
             UNCHANGED <<locals, posts, phase, dirty>>
      PROVE  PostsAtOnce'
  <2>1. /\ DOMAIN Append(pending[j], t) = DOMAIN pending[j] \union {Len(pending[j]) + 1}
        /\ \A k \in DOMAIN pending[j] : Append(pending[j], t)[k] = pending[j][k]
        /\ Append(pending[j], t)[Len(pending[j]) + 1] = t
    BY Appended DEF IInv, QueuesOK
  <2>2. /\ pending'[j] = Append(pending[j], t)
        /\ \A k \in Loops \ {j} : pending'[k] = pending[k]
    BY <1>1 DEF IInv, QueuesOK
  <2>3. /\ Queued(j)' = Queued(j) \union {t}
        /\ \A k \in Loops \ {j} : Queued(k)' = Queued(k)
    BY <1>1, <2>1, <2>2 DEF Queued
  <2> QED BY <1>1, <2>3 DEF SInv, PostsAtOnce
<1>2. ASSUME IInv, SInv, OnAccept PROVE SInv'
  <2>1. PICK c : c = accepted + 1 OBVIOUS
  <2>2. PICK fd \in Fds :
          /\ accepted < MaxConns
          /\ cstate' = [cstate EXCEPT ![c] = "accepted"]
          /\ fdOf' = [fdOf EXCEPT ![c] = fd]
          /\ pending' = [pending EXCEPT ![Owner(c)] = Append(@, Adopt(c))]
          /\ UNCHANGED <<locals, posts, phase, dirty, index, nick, users, inbox>>
    BY <1>2, <2>1 DEF OnAccept, loopVars, sentVars
  <2>3. c \in Conns /\ Owner(c) \in Loops
    <3>1. accepted \in 0 .. MaxConns /\ MaxConns \in Nat BY <1>2, Owners DEF IInv, ConnsOK
    <3>2. c \in Conns BY <2>1, <2>2, <3>1 DEF Conns
    <3> QED BY <3>2, Owners
  <2>4. Adopt(c) \in Task /\ Adopt(c).kind = "adopt" BY <2>3 DEF Adopt, Task
  <2>5. PostsAtOnce' BY <1>1, <1>2, <2>2, <2>3, <2>4
  <2>6. \A d \in Conns : cstate'[d] = "live" =>
            d # c /\ cstate[d] = "live" /\ fdOf'[d] = fdOf[d]
    BY <1>2, <2>2, <2>3 DEF IInv, ConnsOK
  <2>7. \A i \in Loops : \A d \in LiveOn(i)' : d \in LiveOn(i) /\ fdOf'[d] = fdOf[d]
    BY <2>6 DEF LiveOn, Owner
  <2> QED BY <1>2, <2>2, <2>5, <2>7, OneStays
<1>3. ASSUME NEW i \in Loops, IInv, SInv, OnIdleTick(i) PROVE SInv'
  <2>1. /\ pending' = [pending EXCEPT ![i] = Append(@, IdleScan)]
        /\ UNCHANGED <<locals, posts, phase, dirty, index, nick, users, inbox, cstate, fdOf>>
    BY <1>3 DEF OnIdleTick, connVars, loopVars, sentVars
  <2>2. IdleScan \in Task /\ IdleScan.kind = "idle" BY DEF IdleScan, Task
  <2>3. PostsAtOnce' BY <1>1, <1>3, <2>1, <2>2
  <2>4. \A j \in Loops : \A d \in LiveOn(j)' : d \in LiveOn(j) /\ fdOf'[d] = fdOf[d]
    BY <2>1 DEF LiveOn, Owner
  <2> QED BY <1>3, <2>1, <2>3, <2>4, OneStays
<1> QED BY <1>2, <1>3

\* A step of the loop that only moves on.
LEMMA OneMoves ==
    ASSUME IInv, SInv, NEW i \in Loops, NEW ph \in {"poll", "events", "tasks"},
           phase' = [phase EXCEPT ![i] = ph],
           posts[i] = <<>> \/ ph = "events",
           UNCHANGED <<posts, dirty, index, nick, users, inbox, cstate, fdOf>>,
           \A j \in Loops : \A t \in Queued(j)' : t \in Queued(j)
    PROVE  SInv'
<1>1. phase'[i] = ph /\ \A j \in Loops \ {i} : phase'[j] = phase[j]
  BY DEF IInv, BatchesOK
<1>2. \A j \in Loops : posts'[j] # <<>> => phase'[j] \in {"events", "bcast"}
  BY <1>1 DEF SInv, PostsAtOnce
<1>3. PostsAtOnce' BY <1>2 DEF SInv, PostsAtOnce
<1>4. \A j \in Loops : \A c \in LiveOn(j)' : c \in LiveOn(j) /\ fdOf'[c] = fdOf[c]
  BY DEF LiveOn, Owner
<1> QED BY <1>3, <1>4, OneStays

LEMMA OneEventClose ==
    ASSUME NLoops = 1, IInv, SInv, NEW i \in Loops, EventClose(i)
    PROVE  SInv'
<1>1. PICK c \in Conns : CloseAll(i, {c}) /\ posts[i] = <<>>
  BY DEF EventClose, Dispatching
<1>2. UNCHANGED <<pending, posts, locals, phase, users, inbox>>
  BY DEF EventClose, loopVars, sentVars
<1>3. \A j \in Loops : j = i /\ Posted(j) = {} /\ Posted(j)' = {}
  BY <1>1, <1>2, OneLoop DEF Posted
<1>4. /\ dirty' \in [Loops -> BOOLEAN]
      /\ dirty[i] => dirty'[i]
      /\ ~dirty'[i] => OnlineNicks' = OnlineNicks
      /\ \A d \in Conns : nick'[d] # NoNick => nick'[d] = nick[d]
  <2>1. {c} \subseteq Conns OBVIOUS
  <2> QED BY <1>1, <2>1, CloseMarks DEF IInv, SInv, PostsAtOnce
<1>5. PostsAtOnce' BY <1>2, <1>4 DEF SInv, PostsAtOnce, Queued
<1>6. PostsTrue' BY <1>3 DEF PostsTrue
<1>7. ListsCurrent'
  <2>1. ~dirty'[i] => Listed'
    BY <1>2, <1>3, <1>4 DEF SInv, ListsCurrent, Listed
  <2> QED BY <1>3, <2>1 DEF ListsCurrent
<1>8. PrivateToAddressee' BY <1>2 DEF SInv, PrivateToAddressee
<1> QED BY <1>5, <1>6, <1>7, <1>8 DEF SInv

LEMMA OneLogin ==
    ASSUME NLoops = 1, IInv, SInv, NEW i \in Loops, NEW c \in Conns, NEW n \in Nicks,
           HandleLogin(i, c, n)
    PROVE  SInv'
<1>1. /\ posts[i] = <<>>
      /\ dirty' = [dirty EXCEPT ![i] = TRUE]
      /\ UNCHANGED <<pending, posts, locals, phase, users, inbox>>
  BY DEF HandleLogin, TakesFrame, Dispatching, loopVars, sentVars
<1>2. dirty' \in [Loops -> BOOLEAN] /\ dirty'[i] BY <1>1 DEF SInv, PostsAtOnce
<1>3. \A j \in Loops : j = i /\ Posted(j)' = {} BY <1>1, OneLoop DEF Posted
<1>4. PostsAtOnce' BY <1>1, <1>2 DEF SInv, PostsAtOnce, Queued
<1>5. PostsTrue' BY <1>3 DEF PostsTrue
<1>6. ListsCurrent' BY <1>2, <1>3 DEF ListsCurrent
<1>7. PrivateToAddressee' BY <1>1 DEF SInv, PrivateToAddressee
<1> QED BY <1>4, <1>5, <1>6, <1>7 DEF SInv

\* A message enters: the lookup has just found the connection it names.
LEMMA OneSay ==
    ASSUME NLoops = 1, IInv, SInv, NEW i \in Loops, NEW s \in Seq(Post),
           phase[i] = "events", posts[i] = <<>>,
           posts' = [posts EXCEPT ![i] = s],
           \A k \in DOMAIN s : s[k].task.kind # "users" /\ SendsRight(i, s[k].task),
           UNCHANGED <<pending, connVars, loopVars, sentVars>>
    PROVE  SInv'
<1>1. UNCHANGED <<cstate, fdOf, nick, index, dirty, locals, phase, users, inbox>>
  BY DEF connVars, loopVars, sentVars
<1>2. \A j \in Loops : j = i BY OneLoop
<1>3. posts'[i] = s BY DEF IInv, QueuesOK
<1>4. Posted(i) = {} BY DEF Posted
<1>5. \A p \in Posted(i)' : p.task.kind # "users" /\ SendsRight(i, p.task)
  BY <1>3 DEF Posted
<1>6. PostsAtOnce' BY <1>1, <1>2 DEF SInv, PostsAtOnce, Queued
<1>7. LiveOn(i)' = LiveOn(i) BY <1>1 DEF LiveOn, Owner
<1>8. PostsTrue' BY <1>1, <1>2, <1>5, <1>7 DEF PostsTrue, SendsRight
<1>9. OnlineNicks' = OnlineNicks BY <1>1 DEF OnlineNicks
<1>10. ListsCurrent'
  <2>1. dirty[i] \/ Listed BY <1>4 DEF SInv, ListsCurrent
  <2>2. Listed' = Listed BY <1>1, <1>9 DEF Listed
  <2> QED BY <1>1, <1>2, <2>1, <2>2 DEF ListsCurrent
<1>11. PrivateToAddressee' BY <1>1 DEF SInv, PrivateToAddressee
<1> QED BY <1>6, <1>8, <1>10, <1>11 DEF SInv

LEMMA OneSayAll ==
    ASSUME NLoops = 1, IInv, SInv, NEW i \in Loops, NEW c \in Conns, HandleSayAll(i, c)
    PROVE  SInv'
<1>1. PICK t : t = SendChat(Message(c, Everyone)) OBVIOUS
<1>2. /\ t \in Task /\ t.kind = "chat" /\ t.msg.to = Everyone
  BY <1>1, MessageType DEF IInv, SendChat, Task, Message
<1>3. PICK s : s = ForEachSub(t) OBVIOUS
<1>4. s \in Seq(Post) /\ \A k \in DOMAIN s : s[k].task = t
  BY <1>2, <1>3, ForEachPosts
<1>5. /\ phase[i] = "events" /\ posts[i] = <<>>
      /\ posts' = [posts EXCEPT ![i] = s]
      /\ UNCHANGED <<pending, connVars, loopVars, sentVars>>
  BY <1>1, <1>3 DEF HandleSayAll, TakesSay, TakesFrame, Dispatching
<1>6. \A k \in DOMAIN s : s[k].task.kind # "users" /\ SendsRight(i, s[k].task)
  BY <1>2, <1>4 DEF SendsRight
<1> QED BY <1>4, <1>5, <1>6, OneSay

LEMMA OneSayTo ==
    ASSUME NLoops = 1, IInv, DInv, SInv, NEW i \in Loops, NEW c \in Conns, NEW n \in Nicks,
           HandleSayTo(i, c, n)
    PROVE  SInv'
<1>1. PICK e \in index :
        /\ e.nick = n
        /\ posts' = [posts EXCEPT ![i] =
               <<[to |-> e.loop, task |-> SendPrivate(e.fd, Message(c, n))]>>]
  BY DEF HandleSayTo
<1>2. e.loop \in Loops /\ e.fd \in Fds \union {NoFd} BY DEF IInv, ConnsOK
<1>3. Message(c, n) \in Msg /\ Message(c, n).to = n
  BY MessageType DEF IInv, Message
<1>4. PICK t \in Task : t = SendPrivate(e.fd, Message(c, n))
  BY <1>2, <1>3 DEF SendPrivate, Task
<1>5. PICK p \in Post : p = [to |-> e.loop, task |-> t] BY <1>2 DEF Post
<1>6. PICK s \in Seq(Post) : s = <<p>>
  <2>1. <<p>> \in Seq(Post) OBVIOUS
  <2> QED BY <2>1
<1>7. posts' = [posts EXCEPT ![i] = s] BY <1>1, <1>4, <1>5, <1>6
<1>8. PICK d \in Conns : cstate[d] = "live" /\ nick[d] = n /\ fdOf[d] = e.fd
  BY <1>1 DEF IInv, ConnsOK, NamesMatch
<1>9. \A f \in LiveOn(i) : fdOf[f] = e.fd => nick[f] = n
  BY <1>8 DEF LiveOn, DInv, FdsApart, Open
<1>10. t.kind = "private" /\ t.fd = e.fd /\ t.msg.to = n BY <1>3, <1>4 DEF SendPrivate
<1>11. \A k \in DOMAIN s : s[k].task.kind # "users" /\ SendsRight(i, s[k].task)
  <2>1. \A k \in DOMAIN s : s[k] = p BY <1>6
  <2>2. p.task = t BY <1>5
  <2> QED BY <1>9, <1>10, <2>1, <2>2 DEF SendsRight
<1>12. /\ phase[i] = "events" /\ posts[i] = <<>>
       /\ UNCHANGED <<pending, connVars, loopVars, sentVars>>
  BY DEF HandleSayTo, TakesSay, TakesFrame, Dispatching
<1> QED BY <1>7, <1>11, <1>12, OneSay

\* The only post there is runs on the loop itself.
LEMMA OnePostOne ==
    ASSUME NLoops = 1, IInv, IInv', OInv, SInv, NEW i \in Loops, PostOne(i)
    PROVE  SInv'
<1>1. PICK p \in Post : p = posts[i][1] /\ p \in Posted(i) /\ Head(posts[i]) = p
  BY PostTaken DEF IInv, Posted
<1>2. PICK t \in Task : t = p.task BY <1>1 DEF Post
<1>3. \A j \in Loops : j = i BY OneLoop
<1>4. p.to = i BY <1>1, <1>3 DEF Post
<1>5. /\ RunTask(i, t) /\ posts[i] # <<>>
      /\ UNCHANGED <<pending, locals, phase>>
  BY <1>1, <1>2, <1>4 DEF PostOne, loopVars
<1>6. posts'[i] = <<>>
  <2>1. /\ posts'[i] \in Seq(Post) /\ posts[i] \in Seq(Post)
        /\ 1 \in DOMAIN posts[i]
        /\ \A k \in DOMAIN posts'[i] : k + 1 \in DOMAIN posts[i] /\ k + 1 # 1
    BY PostTaken DEF IInv, QueuesOK
  <2>2. \A a, b \in DOMAIN posts[i] : a = b
    <3>1. \A a \in DOMAIN posts[i] : posts[i][a].to = i
      <4>1. \A q \in Posted(i) : q.to \in Loops BY QueuedTasks DEF IInv, Post
      <4> QED BY <1>3, <4>1 DEF Posted
    <3> QED BY <3>1 DEF OInv, PostsApart
  <2>3. DOMAIN posts'[i] = {} BY <2>1, <2>2
  <2> QED BY <2>1, <2>3, Beheaded
<1>7. Posted(i)' = {} BY <1>6 DEF Posted
<1>8. SendsRight(i, t) BY <1>1, <1>2 DEF SInv, PostsTrue, SendsRight
<1>9. PrivateToAddressee'
  BY <1>5, <1>8, TaskSendsRight DEF IInv, OInv, Sets, SInv
<1>10. /\ dirty' \in [Loops -> BOOLEAN]
       /\ dirty[i] => dirty'[i]
       /\ ~dirty'[i] /\ t.kind # "users" /\ Listed => Listed'
       /\ ~dirty'[i] /\ t.kind = "users" /\ t.list = OnlineNicks => Listed'
  BY <1>5, TaskLists DEF IInv, SInv, PostsAtOnce
<1>11. PostsAtOnce' BY <1>3, <1>5, <1>6, <1>10 DEF SInv, PostsAtOnce, Queued
<1>12. PostsTrue' BY <1>3, <1>7 DEF PostsTrue
<1>13. ListsCurrent'
  <2>1. ASSUME ~dirty'[i] PROVE Listed'
    <3>1. ~dirty[i] BY <1>10, <2>1
    <3>2. CASE t.kind = "users"
      <4>1. t.list = OnlineNicks BY <1>1, <1>2, <3>1, <3>2 DEF SInv, PostsTrue
      <4> QED BY <1>10, <2>1, <3>2, <4>1
    <3>3. CASE t.kind # "users"
      <4>1. \A q \in Posted(i) : q = p
        <5>1. 1 \in DOMAIN posts[i] BY PostTaken DEF IInv
        <5>2. \A a \in DOMAIN posts[i] : posts[i][a].to = i
          <6>1. \A q \in Posted(i) : q.to \in Loops BY QueuedTasks DEF IInv, Post
          <6> QED BY <1>3, <6>1 DEF Posted
        <5>3. \A a \in DOMAIN posts[i] : a = 1 BY <5>1, <5>2 DEF OInv, PostsApart
        <5> QED BY <1>1, <5>3 DEF Posted
      <4>2. Listed BY <1>2, <3>1, <3>3, <4>1 DEF SInv, ListsCurrent
      <4> QED BY <1>10, <2>1, <3>3, <4>2
    <3> QED BY <3>2, <3>3
  <2> QED BY <1>3, <2>1 DEF ListsCurrent
<1> QED BY <1>9, <1>11, <1>12, <1>13 DEF SInv

LEMMA OneRunOne ==
    ASSUME NLoops = 1, IInv, IInv', OInv, SInv, NEW i \in Loops, RunOne(i)
    PROVE  SInv'
<1>1. PICK t \in Task : t = locals[i][1] /\ t \in Queued(i) /\ Head(locals[i]) = t
  BY TaskTaken DEF IInv, Queued
<1>2. \A j \in Loops : j = i BY OneLoop
<1>3. /\ RunTask(i, t) /\ phase[i] = "tasks"
      /\ UNCHANGED <<pending, posts, phase>>
  BY <1>1 DEF RunOne
<1>4. t.kind \in {"adopt", "idle"} BY <1>1 DEF SInv, PostsAtOnce
<1>5. posts[i] = <<>> BY <1>3 DEF SInv, PostsAtOnce
<1>6. Posted(i) = {} /\ Posted(i)' = {} BY <1>3, <1>5 DEF Posted
<1>7. SendsRight(i, t) BY <1>4 DEF SendsRight
<1>8. PrivateToAddressee'
  BY <1>3, <1>7, TaskSendsRight DEF IInv, OInv, Sets, SInv
<1>9. /\ dirty' \in [Loops -> BOOLEAN]
      /\ dirty[i] => dirty'[i]
      /\ ~dirty'[i] /\ t.kind # "users" /\ Listed => Listed'
  BY <1>3, TaskLists DEF IInv, SInv, PostsAtOnce
<1>10. \A u \in Queued(i)' : u \in Queued(i)
  <2>1. \A k \in DOMAIN locals'[i] : k + 1 \in DOMAIN locals[i] /\ locals'[i][k] = locals[i][k + 1]
    BY TaskTaken DEF IInv
  <2> QED BY <1>3, <2>1 DEF Queued
<1>11. PostsAtOnce' BY <1>2, <1>3, <1>5, <1>9, <1>10 DEF SInv, PostsAtOnce
<1>12. PostsTrue' BY <1>2, <1>6 DEF PostsTrue
<1>13. ListsCurrent'
  <2>1. dirty[i] \/ Listed BY <1>6 DEF SInv, ListsCurrent
  <2>2. t.kind # "users" BY <1>4
  <2>3. dirty'[i] \/ Listed' BY <1>9, <2>1, <2>2
  <2> QED BY <1>2, <2>3 DEF ListsCurrent
<1> QED BY <1>8, <1>11, <1>12, <1>13 DEF SInv

\* The hook reads the list and clears the mark in one step of the loop.
LEMMA OneSafePoint ==
    ASSUME NLoops = 1, IInv, SInv, NEW i \in Loops, SafePoint(i)
    PROVE  SInv'
<1>1. PICK s : s = IF dirty[i] THEN ForEachSub(SendUsers(OnlineNicks)) ELSE <<>> OBVIOUS
<1>2. PICK list : list = OnlineNicks OBVIOUS
<1>3. /\ phase[i] = "tasks" /\ phase' = [phase EXCEPT ![i] = "bcast"]
      /\ users' = [c \in Conns |-> IF c \in Reap(i) THEN {} ELSE users[c]]
      /\ inbox' = [c \in Conns |-> IF c \in Reap(i) THEN <<>> ELSE inbox[c]]
      /\ dirty' = [dirty EXCEPT ![i] = FALSE]
      /\ posts' = [posts EXCEPT ![i] = s]
      /\ UNCHANGED <<pending, locals, nick, index>>
  BY <1>1 DEF SafePoint
<1>4. \A j \in Loops : j = i BY OneLoop
<1>5. Posted(i) = {}
  <2>1. posts[i] = <<>> BY <1>3 DEF SInv, PostsAtOnce
  <2> QED BY <2>1 DEF Posted
<1>6. posts'[i] = s BY <1>3 DEF IInv, QueuesOK
<1>7. OnlineNicks' = list BY <1>2, <1>3 DEF OnlineNicks
<1>8. /\ \A k \in DOMAIN s : s[k].task = SendUsers(list)
      /\ dirty[i] => 1 \in DOMAIN s
      /\ ~dirty[i] => s = <<>>
  <2>1. OnlineNicks \subseteq Nicks BY DEF IInv, ConnsOK, OnlineNicks
  <2>2. SendUsers(list) \in Task BY <1>2, <2>1 DEF SendUsers, Task
  <2>3. \A k \in DOMAIN ForEachSub(SendUsers(list)) :
           ForEachSub(SendUsers(list))[k].task = SendUsers(list)
    BY <2>2, ForEachPosts
  <2>4. 1 \in DOMAIN ForEachSub(SendUsers(list)) BY DEF ForEachSub
  <2>5. CASE dirty[i] BY <1>1, <1>2, <2>3, <2>4, <2>5
  <2>6. CASE ~dirty[i] BY <1>1, <2>6
  <2> QED BY <2>5, <2>6
<1>9. PostsAtOnce'
  <2>1. phase'[i] = "bcast" BY <1>3 DEF IInv, BatchesOK
  <2>2. dirty' \in [Loops -> BOOLEAN] BY <1>3 DEF SInv, PostsAtOnce
  <2>3. Queued(i)' = Queued(i) BY <1>3 DEF Queued
  <2> QED BY <1>4, <2>1, <2>2, <2>3 DEF SInv, PostsAtOnce
<1>10. \A p \in Posted(i)' : p.task.kind = "users" /\ p.task.list = list
  BY <1>6, <1>8 DEF Posted, SendUsers
<1>11. PostsTrue' BY <1>4, <1>7, <1>10 DEF PostsTrue
<1>12. ListsCurrent'
  <2>1. CASE dirty[i]
    <3>1. s[1] \in Posted(i)' BY <1>6, <1>8, <2>1 DEF Posted
    <3> QED BY <1>4, <1>10, <3>1 DEF ListsCurrent
  <2>2. CASE ~dirty[i]
    <3>1. Listed BY <1>5, <2>2 DEF SInv, ListsCurrent
    <3>2. \A c \in Conns : nick[c] # NoNick => c \notin Reap(i)
      BY DEF Reap, IInv, ConnsOK, NamesMatch
    <3>3. Listed' BY <1>2, <1>3, <1>7, <3>1, <3>2 DEF Listed
    <3> QED BY <1>4, <3>3 DEF ListsCurrent
  <2> QED BY <2>1, <2>2
<1>13. PrivateToAddressee'
  <2> SUFFICES ASSUME NEW c \in Conns, NEW k \in DOMAIN inbox'[c]
               PROVE  inbox'[c][k].msg.to \in {Everyone, inbox'[c][k].as}
    BY DEF PrivateToAddressee
  <2>1. inbox'[c] = inbox[c] BY <1>3
  <2> QED BY <2>1 DEF SInv, PrivateToAddressee
<1> QED BY <1>9, <1>11, <1>12, <1>13 DEF SInv

LEMMA OneStep ==
    ASSUME NLoops = 1, IInv, IInv', OInv, DInv, SInv, [Next]_vars
    PROVE  SInv'
<1>0. ASSUME UNCHANGED <<cstate, fdOf, nick, index, dirty, pending, locals, phase, posts,
                         users, inbox>>
      PROVE  SInv'
  <2>1. PostsAtOnce' BY <1>0 DEF SInv, PostsAtOnce, Queued
  <2>2. \A j \in Loops : \A c \in LiveOn(j)' : c \in LiveOn(j) /\ fdOf'[c] = fdOf[c]
    BY <1>0 DEF LiveOn, Owner
  <2> QED BY <1>0, <2>1, <2>2, OneStays
<1>1. CASE UNCHANGED vars BY <1>0, <1>1 DEF vars, connVars, loopVars, sentVars
<1>2. CASE OnAccept BY <1>2, OneMain
<1>3. ASSUME NEW i \in Loops, OnIdleTick(i) PROVE SInv' BY <1>3, OneMain
<1>4. ASSUME NEW c \in Conns, PeerResets(c) PROVE SInv'
  BY <1>0, <1>4 DEF PeerResets, connVars, loopVars, sentVars
<1>5. ASSUME NEW i \in Loops, SubReactor(i) PROVE SInv'
  <2>1. CASE Poll(i)
    <3>1. \A j \in Loops : Queued(j)' = Queued(j) BY <2>1 DEF Poll, Queued
    <3> QED BY <2>1, <3>1, OneMoves DEF Poll, connVars, sentVars
  <2>2. CASE EventDone(i) BY <1>0, <2>2 DEF EventDone, connVars, sentVars
  <2>3. CASE HandleFrame(i) BY <2>3, OneLogin, OneSayAll, OneSayTo DEF HandleFrame
  <2>4. CASE TakeTasks(i)
    <3>1. /\ locals' = [locals EXCEPT ![i] = pending[i]]
          /\ pending' = [pending EXCEPT ![i] = <<>>]
      BY <2>4 DEF TakeTasks
    <3>2. /\ locals'[i] = pending[i] /\ pending'[i] = <<>>
          /\ \A j \in Loops \ {i} : locals'[j] = locals[j] /\ pending'[j] = pending[j]
      BY <3>1 DEF IInv, QueuesOK
    <3>3. \A j \in Loops : \A t \in Queued(j)' : t \in Queued(j) BY <3>2 DEF Queued
    <3> QED BY <2>4, <3>3, OneMoves DEF TakeTasks, connVars, sentVars
  <2>5. CASE Loop(i)
    <3>1. \A j \in Loops : Queued(j)' = Queued(j) BY <2>5 DEF Loop, Queued
    <3> QED BY <2>5, <3>1, OneMoves DEF Loop, connVars, sentVars
  <2> QED
    BY <1>5, <2>1, <2>2, <2>3, <2>4, <2>5, OneEventClose, OnePostOne, OneRunOne,
       OneSafePoint
    DEF SubReactor
<1> QED BY <1>1, <1>2, <1>3, <1>4, <1>5 DEF Next

LEMMA OneCorrect == NLoops = 1 /\ Spec => [](IInv /\ SInv)
<1> SUFFICES ASSUME NLoops = 1 PROVE Spec => [](IInv /\ SInv) OBVIOUS
<1>1. Init => IInv /\ OInv /\ DInv /\ SInv BY InitInv, OrderInit, AdoptInit, OneInit
<1>2. IInv /\ OInv /\ DInv /\ SInv /\ [Next]_vars => IInv' /\ OInv' /\ DInv' /\ SInv'
  <2> SUFFICES ASSUME IInv, OInv, DInv, SInv, [Next]_vars
               PROVE  IInv' /\ OInv' /\ DInv' /\ SInv'
    OBVIOUS
  <2>1. IInv' BY StepInv
  <2>2. OInv' BY <2>1, OrderStep
  <2>3. DInv' BY AdoptStep
  <2>4. SInv' BY <2>1, OneStep
  <2> QED BY <2>1, <2>2, <2>3, <2>4
<1> QED BY <1>1, <1>2, PTL DEF Spec

\* On a server with one sub Reactor a private message is sent to a connection
\* that has the addressee's nickname at that moment: lookup, post and send are
\* one uninterrupted run of the loop.  With two it is not (chat_misdelivery).
THEOREM PrivateCorrect == NLoops = 1 /\ Spec => []PrivateToAddressee
<1>1. IInv /\ SInv => PrivateToAddressee BY DEF SInv
<1> QED BY <1>1, OneCorrect, PTL

\* On a server with one sub Reactor, when the loop is idle the last list sent
\* to every logged-in user is the present one, failed sends inside the
\* broadcast included.  With two it is not (chat_stale_list).
THEOREM ListsCorrect == NLoops = 1 /\ Spec => []ListsFresh
<1>1. IInv /\ SInv => ListsFresh
  <2> SUFFICES ASSUME IInv, SInv, Quiescent PROVE Listed
    BY DEF ListsFresh, Listed
  <2>1. 0 \in Loops BY Owners DEF Loops
  <2>2. ~dirty[0] /\ posts[0] = <<>> BY <2>1 DEF Quiescent
  <2> QED BY <2>1, <2>2 DEF SInv, ListsCurrent, Posted
<1> QED BY <1>1, OneCorrect, PTL
=============================================================================
