---------------------------- MODULE ChatServer ----------------------------
(***************************************************************************)
(* The chat server (src/chat_server.cpp) between accept and shutdown: the  *)
(* main Reactor that accepts and ticks, the sub Reactors that own the      *)
(* connections, the task queue of each (EventLoop::runInLoop), the global  *)
(* nickname index and the messages routed through it.                      *)
(*                                                                         *)
(* A sub Reactor's iteration is the one of EventLoop.tla: a batch of       *)
(* events, the swapped-out batch of tasks, the safe point (postDispatch).  *)
(* A step is what one thread does between two accesses to state that other *)
(* threads see: one frame, one posted task, one task run.  Sockets take    *)
(* every byte at once here; ChatSend.tla models partial sends.             *)
(***************************************************************************)
EXTENDS SubLoops, Sequences, FiniteSets, SequencesExt

CONSTANTS
    MaxFd,          \* bound: descriptors the kernel may hand out
    MaxSays,        \* bound: Say frames taken, of all clients together
    MaxResets,      \* bound: connections reset by their peers
    Timer,          \* whether the housekeeping timer runs in this instance
    Nicks,          \* nicknames clients use
    NoNick,         \* the empty nick
    Everyone        \* the addressee of a 'B' message

ASSUME ConstantsAssumption ==
    /\ {MaxFd, MaxSays, MaxResets} \subseteq Nat
    /\ Timer \in BOOLEAN
    /\ NoNick \notin Nicks
    /\ Everyone \notin Nicks

Fds   == 1 .. MaxFd
NoFd  == 0

VARIABLES
    accepted,       \* accept() calls so far; connection c is the c-th accepted
    cstate,         \* new, accepted (adoption queued), live (in conns),
                    \*   closed (in pendingReap), freed
    fdOf,           \* the descriptor of an open connection
    nick,           \* Connection::nick
    reset,          \* connections whose peer has reset them
    said,           \* Say frames taken so far; numbers the messages
    index,          \* nameIndex_, a set of entries: nickname, loop, fd
    pending,        \* pending_ of each sub EventLoop
    locals,         \* the swapped-out batch of each sub EventLoop
    phase,          \* where each sub Reactor's iteration is
    ready,          \* the connections of the batch still to be dispatched
    posts,          \* what is left of the forEachSub/runInSub in progress
    dirty,          \* usersDirty
    users,          \* history: the last Users list sent on each connection
    inbox           \* history: the Chat frames sent on each connection

connVars == <<cstate, fdOf, nick, index, dirty>>
loopVars == <<locals, phase, ready>>
sentVars == <<users, inbox>>
vars == <<accepted, reset, said, pending, posts, connVars, loopVars, sentVars>>

Open(c) == cstate[c] \in {"accepted", "live"}
LiveOn(i) == {c \in Conns : cstate[c] = "live" /\ Owner(c) = i}
LoggedConnsOf(i) == {c \in LiveOn(i) : nick[c] # NoNick}
OnlineNicks == {e.nick : e \in index}

\* The functors that reach a sub Reactor's queue.
Adopt(c)          == [kind |-> "adopt", conn |-> c]
SendUsers(list)   == [kind |-> "users", list |-> list]
SendChat(m)       == [kind |-> "chat", msg |-> m]
SendPrivate(fd, m) == [kind |-> "private", fd |-> fd, msg |-> m]
IdleScan          == [kind |-> "idle"]

\* forEachSub: the same task for every loop, in the order of the loops.
ForEachSub(task) == [k \in 1 .. NLoops |-> [to |-> k - 1, task |-> task]]

Init ==
    /\ accepted = 0
    /\ cstate = [c \in Conns |-> "new"]
    /\ fdOf = [c \in Conns |-> NoFd]
    /\ nick = [c \in Conns |-> NoNick]
    /\ reset = {}
    /\ said = 0
    /\ index = {}
    /\ pending = [i \in Loops |-> <<>>]
    /\ locals = [i \in Loops |-> <<>>]
    /\ phase = [i \in Loops |-> "poll"]
    /\ ready = [i \in Loops |-> <<>>]
    /\ posts = [i \in Loops |-> <<>>]
    /\ dirty = [i \in Loops |-> FALSE]
    /\ users = [c \in Conns |-> {}]
    /\ inbox = [c \in Conns |-> <<>>]

----------------------------------------------------------------------------
(* The main Reactor *)

UsedFds == {fdOf[c] : c \in {d \in Conns : Open(d)}}

\* onAccept: the kernel hands out the lowest free descriptor, the round robin
\* chooses the loop and the adoption is posted to it.
OnAccept ==
    /\ accepted < MaxConns
    /\ \E fd \in Fds \ UsedFds : LET c == accepted + 1 IN
         /\ \A g \in Fds \ UsedFds : fd <= g
         /\ accepted' = c
         /\ cstate' = [cstate EXCEPT ![c] = "accepted"]
         /\ fdOf' = [fdOf EXCEPT ![c] = fd]
         /\ pending' = [pending EXCEPT ![Owner(c)] = Append(@, Adopt(c))]
    /\ UNCHANGED <<nick, index, dirty, reset, said, posts, loopVars, sentVars>>

\* onIdleTick for one loop; bound: a tick is skipped while the loop still has
\* the scan of the tick before.
OnIdleTick(i) ==
    /\ Timer
    /\ IdleScan \notin ToSet(pending[i])
    /\ pending' = [pending EXCEPT ![i] = Append(@, IdleScan)]
    /\ UNCHANGED <<accepted, reset, said, posts, connVars, loopVars, sentVars>>

\* The network: a peer resets its connection.
PeerResets(c) ==
    /\ Open(c)
    /\ c \notin reset
    /\ Cardinality(reset) < MaxResets
    /\ reset' = reset \union {c}
    /\ UNCHANGED <<accepted, said, pending, posts, connVars, loopVars, sentVars>>

----------------------------------------------------------------------------
(* Closing and sending, on the owning thread i *)

\* Mutant: closeConn forgets nameIndex_.
CloseAllGhosts(i, S) ==
    /\ cstate' = [c \in Conns |-> IF c \in S THEN "closed" ELSE cstate[c]]
    /\ fdOf' = [c \in Conns |-> IF c \in S THEN NoFd ELSE fdOf[c]]
    /\ nick' = [c \in Conns |-> IF c \in S THEN NoNick ELSE nick[c]]
    /\ index' = index
    /\ dirty' = [dirty EXCEPT ![i] = @ \/ \E c \in S : nick[c] # NoNick]

\* Mutant: closeConn spares only the Connection whose callback is running and
\* deletes any other on the spot.
CloseAllNow(i, S) ==
    /\ cstate' = [c \in Conns |->
                    IF c \notin S THEN cstate[c]
                    ELSE IF ready[i] # <<>> /\ c = Head(ready[i]) THEN "closed"
                    ELSE "freed"]
    /\ fdOf' = [c \in Conns |-> IF c \in S THEN NoFd ELSE fdOf[c]]
    /\ nick' = [c \in Conns |-> IF c \in S THEN NoNick ELSE nick[c]]
    /\ index' = {e \in index : \A c \in S : e.nick # nick[c]}
    /\ dirty' = [dirty EXCEPT ![i] = @ \/ \E c \in S : nick[c] # NoNick]

\* closeConn on each connection of S.
CloseAll(i, S) ==
    /\ cstate' = [c \in Conns |-> IF c \in S THEN "closed" ELSE cstate[c]]
    /\ fdOf' = [c \in Conns |-> IF c \in S THEN NoFd ELSE fdOf[c]]
    /\ nick' = [c \in Conns |-> IF c \in S THEN NoNick ELSE nick[c]]
    /\ index' = {e \in index : \A c \in S : e.nick # nick[c]}
    /\ dirty' = [dirty EXCEPT ![i] = @ \/ \E c \in S : nick[c] # NoNick]

\* sendFrame on each connection of S: a send that fails closes it.
FailedOf(S) == S \cap reset
SentOf(S)   == S \ reset

\* One Chat frame to the connections of S, noting who each one is by now.
DeliverChat(S, m) ==
    inbox' = [c \in Conns |->
                IF c \in SentOf(S)
                THEN Append(inbox[c], [msg |-> m, as |-> nick[c]])
                ELSE inbox[c]]

----------------------------------------------------------------------------
(* The functors *)

RunAdopt(i, t) ==
    /\ t.kind = "adopt"
    /\ cstate' = [cstate EXCEPT ![t.conn] = "live"]
    /\ UNCHANGED <<fdOf, nick, index, dirty, sentVars>>

RunUsers(i, t) ==
    /\ t.kind = "users"
    /\ LET S == LoggedConnsOf(i)
       IN  /\ users' = [c \in Conns |->
                          IF c \in SentOf(S) THEN t.list ELSE users[c]]
           /\ CloseAll(i, FailedOf(S))
    /\ UNCHANGED inbox

\* The sender gets no echo.
RunChat(i, t) ==
    /\ t.kind = "chat"
    /\ LET S == LoggedConnsOf(i) \ {t.msg.from}
       IN  /\ DeliverChat(S, t.msg)
           /\ CloseAll(i, FailedOf(S))
    /\ UNCHANGED users

\* The functor of a private message looks its descriptor up in conns again.
RunPrivate(i, t) ==
    /\ t.kind = "private"
    /\ LET S == {c \in LiveOn(i) : fdOf[c] = t.fd}
       IN  /\ DeliverChat(S, t.msg)
           /\ CloseAll(i, FailedOf(S))
    /\ UNCHANGED users

\* Any connection may have been silent for longer than kIdleTimeoutSec.
RunIdle(i, t) ==
    /\ t.kind = "idle"
    /\ \E S \in SUBSET LiveOn(i) : CloseAll(i, S)
    /\ UNCHANGED sentVars

RunTask(i, t) ==
    \/ RunAdopt(i, t)
    \/ RunUsers(i, t)
    \/ RunChat(i, t)
    \/ RunPrivate(i, t)
    \/ RunIdle(i, t)

----------------------------------------------------------------------------
(* One iteration of sub Reactor i *)

\* epoll_wait returns: every reset connection, any others on which bytes have
\* arrived, in some order, or only the wake-up descriptor.
Poll(i) ==
    /\ phase[i] = "poll"
    /\ \E S \in SUBSET LiveOn(i) :
         /\ LiveOn(i) \cap reset \subseteq S
         /\ S # {} \/ pending[i] # <<>>
         /\ \E batch \in SetToSeqs(S) : ready' = [ready EXCEPT ![i] = batch]
    /\ phase' = [phase EXCEPT ![i] = "events"]
    /\ UNCHANGED <<accepted, reset, said, pending, posts, connVars, locals,
                   sentVars>>

\* The connection at the head of the batch, alive and not in another call.
Dispatching(i, c) ==
    /\ phase[i] = "events"
    /\ posts[i] = <<>>
    /\ ready[i] # <<>>
    /\ c = Head(ready[i])

LeaveBatch(i) == ready' = [ready EXCEPT ![i] = Tail(@)]

\* onRead is over: nothing whole is left to take, or the connection was closed
\* meanwhile, by this call or by an earlier callback of the batch.  A Ping, and
\* a frame answered by a non-fatal Error (a second Login, an invalid or taken
\* nickname, a private message to nobody), change none of this state.
EventDone(i) ==
    \E c \in Conns :
        /\ Dispatching(i, c)
        /\ cstate[c] = "live" => c \notin reset
        /\ LeaveBatch(i)
        /\ UNCHANGED <<accepted, reset, said, pending, posts, connVars,
                       locals, phase, sentVars>>

\* onRead closes the connection: end of file, a read error, a Bye, a frame
\* with a bad length, magic or type, a Say before Login.
EventClose(i) ==
    \E c \in Conns :
        /\ Dispatching(i, c)
        /\ cstate[c] = "live"
        /\ CloseAll(i, {c})
        /\ UNCHANGED <<accepted, reset, said, pending, posts, loopVars,
                       sentVars>>

\* The frame loop of onRead takes one whole frame.
TakesFrame(i, c) ==
    /\ Dispatching(i, c)
    /\ cstate[c] = "live"
    /\ c \notin reset

\* Mutant: the test for a taken nickname and the insertion are not atomic, and
\* the test was passed.
HandleLoginUnchecked(i, c, n) ==
    /\ TakesFrame(i, c)
    /\ nick[c] = NoNick
    /\ nick' = [nick EXCEPT ![c] = n]
    /\ index' = {e \in index : e.nick # n} \union
                {[nick |-> n, loop |-> i, fd |-> fdOf[c]]}
    /\ dirty' = [dirty EXCEPT ![i] = TRUE]
    /\ UNCHANGED <<accepted, reset, said, pending, posts, cstate, fdOf,
                   loopVars, sentVars>>

\* Mutant: handleLogin does not mark the list dirty.
HandleLoginQuiet(i, c, n) ==
    /\ TakesFrame(i, c)
    /\ nick[c] = NoNick
    /\ n \notin OnlineNicks
    /\ nick' = [nick EXCEPT ![c] = n]
    /\ index' = index \union {[nick |-> n, loop |-> i, fd |-> fdOf[c]]}
    /\ UNCHANGED <<accepted, reset, said, pending, posts, cstate, fdOf, dirty,
                   loopVars, sentVars>>

HandleLogin(i, c, n) ==
    /\ TakesFrame(i, c)
    /\ nick[c] = NoNick
    /\ n \notin OnlineNicks
    /\ nick' = [nick EXCEPT ![c] = n]
    /\ index' = index \union {[nick |-> n, loop |-> i, fd |-> fdOf[c]]}
    /\ dirty' = [dirty EXCEPT ![i] = TRUE]
    /\ UNCHANGED <<accepted, reset, said, pending, posts, cstate, fdOf,
                   loopVars, sentVars>>

\* A Say from a logged-in client.
TakesSay(i, c) ==
    /\ TakesFrame(i, c)
    /\ nick[c] # NoNick
    /\ said < MaxSays
    /\ said' = said + 1

Message(c, to) == [from |-> c, n |-> said + 1, to |-> to]

\* handleSay 'B': the message for every loop.
HandleSayAll(i, c) ==
    /\ TakesSay(i, c)
    /\ posts' = [posts EXCEPT ![i] = ForEachSub(SendChat(Message(c, Everyone)))]
    /\ UNCHANGED <<accepted, reset, pending, connVars, loopVars, sentVars>>

\* handleSay 'D': the lookup, under the shared lock; what is posted afterwards
\* carries the loop and the descriptor, not the nickname.
HandleSayTo(i, c, n) ==
    /\ TakesSay(i, c)
    /\ \E e \in index :
         /\ e.nick = n
         /\ posts' = [posts EXCEPT ![i] =
                <<[to |-> e.loop, task |-> SendPrivate(e.fd, Message(c, n))]>>]
    /\ UNCHANGED <<accepted, reset, pending, connVars, loopVars, sentVars>>

\* runInLoop: at once on the loop's own thread, else into the queue.
PostOne(i) ==
    /\ posts[i] # <<>>
    /\ posts' = [posts EXCEPT ![i] = Tail(@)]
    /\ LET p == Head(posts[i])
       IN  IF p.to = i
           THEN RunTask(i, p.task) /\ UNCHANGED pending
           ELSE /\ pending' = [pending EXCEPT ![p.to] = Append(@, p.task)]
                /\ UNCHANGED <<connVars, sentVars>>
    /\ UNCHANGED <<accepted, reset, said, loopVars>>

\* All events handled: doPendingFunctors takes the queue.
TakeTasks(i) ==
    /\ phase[i] = "events"
    /\ posts[i] = <<>>
    /\ ready[i] = <<>>
    /\ locals' = [locals EXCEPT ![i] = pending[i]]
    /\ pending' = [pending EXCEPT ![i] = <<>>]
    /\ phase' = [phase EXCEPT ![i] = "tasks"]
    /\ UNCHANGED <<accepted, reset, said, posts, connVars, ready, sentVars>>

\* Mutant: the newest task of the batch first.
RunNewest(i) ==
    /\ phase[i] = "tasks"
    /\ locals[i] # <<>>
    /\ RunTask(i, locals[i][Len(locals[i])])
    /\ locals' = [locals EXCEPT ![i] = SubSeq(@, 1, Len(@) - 1)]
    /\ UNCHANGED <<accepted, reset, said, pending, posts, phase, ready>>

RunOne(i) ==
    /\ phase[i] = "tasks"
    /\ locals[i] # <<>>
    /\ RunTask(i, Head(locals[i]))
    /\ locals' = [locals EXCEPT ![i] = Tail(@)]
    /\ UNCHANGED <<accepted, reset, said, pending, posts, phase, ready>>

Reap(i) == {c \in Conns : cstate[c] = "closed" /\ Owner(c) = i}

\* The safe point: the closed connections of this loop are destroyed; if the
\* list has changed, it is read once and goes to every loop.
SafePoint(i) ==
    /\ phase[i] = "tasks"
    /\ locals[i] = <<>>
    /\ cstate' = [c \in Conns |-> IF c \in Reap(i) THEN "freed" ELSE cstate[c]]
    /\ users' = [c \in Conns |-> IF c \in Reap(i) THEN {} ELSE users[c]]
    /\ inbox' = [c \in Conns |-> IF c \in Reap(i) THEN <<>> ELSE inbox[c]]
    /\ dirty' = [dirty EXCEPT ![i] = FALSE]
    /\ posts' = [posts EXCEPT ![i] =
                   IF dirty[i] THEN ForEachSub(SendUsers(OnlineNicks)) ELSE <<>>]
    /\ phase' = [phase EXCEPT ![i] = "bcast"]
    /\ UNCHANGED <<accepted, reset, said, pending, fdOf, nick, index, locals,
                   ready>>

\* Mutant: the hook clears usersDirty after the broadcast, not before.
LoopClears(i) ==
    /\ phase[i] = "bcast"
    /\ posts[i] = <<>>
    /\ phase' = [phase EXCEPT ![i] = "poll"]
    /\ dirty' = [dirty EXCEPT ![i] = FALSE]
    /\ UNCHANGED <<accepted, reset, said, pending, posts, cstate, fdOf, nick,
                   index, locals, ready, sentVars>>

\* The iteration ends when the hook's broadcast has been posted.
Loop(i) ==
    /\ phase[i] = "bcast"
    /\ posts[i] = <<>>
    /\ phase' = [phase EXCEPT ![i] = "poll"]
    /\ UNCHANGED <<accepted, reset, said, pending, posts, connVars, locals,
                   ready, sentVars>>

HandleFrame(i) ==
    \E c \in Conns :
        \/ HandleSayAll(i, c)
        \/ \E n \in Nicks : HandleLogin(i, c, n) \/ HandleSayTo(i, c, n)

SubReactor(i) ==
    \/ Poll(i)
    \/ EventDone(i) \/ EventClose(i) \/ HandleFrame(i)
    \/ PostOne(i)
    \/ TakeTasks(i) \/ RunOne(i) \/ SafePoint(i) \/ Loop(i)

Next ==
    \/ OnAccept
    \/ \E i \in Loops : OnIdleTick(i) \/ SubReactor(i)
    \/ \E c \in Conns : PeerResets(c)

Spec == Init /\ [][Next]_vars

\* Every thread that can run does; the timer keeps ticking.  Clients need not
\* send, nobody need connect or reset.
Fairness ==
    \A i \in Loops :
        /\ WF_vars(TakeTasks(i) \/ RunOne(i) \/ SafePoint(i) \/ Loop(i) \/ PostOne(i))
        /\ WF_vars(EventDone(i) \/ EventClose(i))
        /\ WF_vars(Poll(i) /\ (pending[i] # <<>> \/ LiveOn(i) \cap reset # {}))
        /\ WF_vars(OnIdleTick(i))

FairSpec == Spec /\ Fairness

----------------------------------------------------------------------------
(* Properties *)

TypeOK ==
    /\ accepted \in 0 .. MaxConns
    /\ cstate \in [Conns -> {"new", "accepted", "live", "closed", "freed"}]
    /\ fdOf \in [Conns -> Fds \union {NoFd}]
    /\ nick \in [Conns -> Nicks \union {NoNick}]
    /\ reset \subseteq Conns
    /\ said \in 0 .. MaxSays
    /\ index \subseteq [nick : Nicks, loop : Loops, fd : Fds]
    /\ \A i \in Loops :
         /\ \A t \in ToSet(pending[i] \o locals[i]) :
              t.kind \in {"adopt", "users", "chat", "private", "idle"}
         /\ phase[i] \in {"poll", "events", "tasks", "bcast"}
         /\ ready[i] \in Seq(Conns)
         /\ \A p \in ToSet(posts[i]) : p.to \in Loops
         /\ dirty[i] \in BOOLEAN
    /\ users \in [Conns -> SUBSET Nicks]

\* The index and the connections agree, across the loops: a logged-in
\* connection is the one its nickname's entry leads to, an entry leads to a
\* live connection of that nickname (no ghost user), and a nickname has one
\* entry (handleLogin and closeConn, chat_server.cpp:803-815 and 1012-1025).
NamesMatch ==
    /\ \A c \in Conns : nick[c] # NoNick =>
         /\ cstate[c] = "live"
         /\ [nick |-> nick[c], loop |-> Owner(c), fd |-> fdOf[c]] \in index
    /\ \A e \in index : \E c \in Conns :
         /\ cstate[c] = "live"
         /\ nick[c] = e.nick /\ Owner(c) = e.loop /\ fdOf[c] = e.fd
    /\ \A e, f \in index : e.nick = f.nick => e = f

\* No connection of the batch being dispatched has been destroyed, whichever
\* of its neighbours' callbacks or broadcasts closed it
\* (chat_server.cpp:560-562 and 996-1000).
BatchAlive ==
    \A i \in Loops : \A c \in ToSet(ready[i]) : cstate[c] # "freed"

\* What one sender says reaches each receiver in the order it was said,
\* through whatever mix of inline runs and queues (runInSub and forEachSub,
\* chat_server.cpp:579-596).
PerSenderOrder ==
    \A c \in Conns : \A j, k \in DOMAIN inbox[c] :
        /\ j < k
        /\ inbox[c][j].msg.from = inbox[c][k].msg.from
        => inbox[c][j].msg.n < inbox[c][k].msg.n

\* A private message is sent to a connection that has the nickname it is
\* addressed to at that moment (handleSay 'D', chat_server.cpp:852-891).
PrivateToAddressee ==
    \A c \in Conns : \A k \in DOMAIN inbox[c] :
        inbox[c][k].msg.to \in {Everyone, inbox[c][k].as}

\* Every loop is back in epoll_wait, nothing queued and no list marked dirty.
Quiescent ==
    \A i \in Loops :
        phase[i] = "poll" /\ pending[i] = <<>> /\ posts[i] = <<>> /\ ~dirty[i]

\* When nothing is left to be done, every logged-in user's last Users list is
\* the set of nicknames online (chat_server.cpp:87, 950 and 925-932).
ListsFresh ==
    Quiescent => \A c \in Conns : nick[c] # NoNick => users[c] = OnlineNicks

\* A user who logs in is sent a list with its own nickname, unless the
\* connection closes first (handleLogin and the safe point,
\* chat_server.cpp:820-821 and 497-500).
NewUserListed ==
    \A c \in Conns : \A n \in Nicks :
        nick[c] = n ~> (nick[c] # n \/ n \in users[c])
============================================================================
