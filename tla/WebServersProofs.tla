-------------------------- MODULE WebServersProofs --------------------------
(***************************************************************************)
(* Proofs about WebServers for any number of connections, descriptors,     *)
(* requests, workers and sub Reactors: every open descriptor is in exactly *)
(* one hand, and a response answers a request of its own connection.       *)
(***************************************************************************)
EXTENDS WebServers, TLAPS, SequenceTheorems, FiniteSetTheorems, WellFoundedInduction

\* A connection has a descriptor exactly while it is open, and for itself.
Sockets ==
    /\ state \in [Conn -> {"none", "pending", "open", "closed"}]
    /\ fdOf \in [Conn -> {0} \union Fds]
    /\ unread \in [Conn -> Seq(Part)]
    /\ \A c \in Conn : state[c] = "open" <=> fdOf[c] # 0
    /\ \A c, d \in Conn : fdOf[c] = fdOf[d] /\ fdOf[c] # 0 => c = d

ReactorOwns ==
    /\ ~crashed => Table = Used
    /\ batch \intersect Fds \subseteq Used \union swept
    /\ crashed => ~flow
    /\ raised \subseteq {timer_fd, wakeup_fd}

Tasking == [fd : Fds, conn : Conn, data : Seq(Part)]

\* Task t is the only one for its descriptor, which is the connection's.
Carries(t) ==
    /\ t \in Tasking
    /\ state[t.conn] = "open" /\ fdOf[t.conn] = t.fd
    /\ t.fd \notin watched \union abandoned

PoolOwns ==
    /\ Used = watched \union abandoned \union {t.fd : t \in Tasks}
    /\ watched \intersect abandoned = {}
    /\ tasks \in Seq(Tasking)
    /\ working \in [PoolWorkers -> SUBSET Tasking]
    /\ \A t \in Tasks : Carries(t)
    /\ \A j, k \in DOMAIN tasks : tasks[j].fd = tasks[k].fd => j = k
    /\ \A v, w \in PoolWorkers : \A t \in working[v], u \in working[w] :
          v = w \/ t.fd = u.fd => v = w /\ t = u
    /\ \A w \in PoolWorkers : \A t \in working[w], k \in DOMAIN tasks :
          tasks[k].fd # t.fd

SubsOwn ==
    /\ next \in Sub
    /\ epfd \in [Sub -> SUBSET Fds] /\ events \in [Sub -> SUBSET Fds]
    /\ closing \in [Sub -> {0} \union Fds]
    /\ DOMAIN buffers = Sub
    /\ \A i \in Sub : DOMAIN buffers[i] \subseteq Fds
    /\ Used = UNION {epfd[i] : i \in Sub}
    /\ \A i \in Sub : /\ \A j \in Sub \ {i} : epfd[i] \intersect epfd[j] = {}
                      /\ events[i] \subseteq epfd[i]
                      /\ DOMAIN buffers[i] \subseteq epfd[i] \union {closing[i]}

\* The inductive invariant.
IInv ==
    /\ Sockets
    /\ server \in {"reactor", "pool", "subs"}
    /\ server = "reactor" => ReactorOwns
    /\ server = "pool" => PoolOwns
    /\ server = "subs" => SubsOwn

----------------------------------------------------------------------------
(* Descriptors and their connections *)

LEMMA FdsAreNumbers ==
    /\ MaxConns \in Nat
    /\ Fds \subseteq Nat /\ 0 \notin Fds /\ Fds = Conn
    /\ listen_fd \notin Fds /\ timer_fd \notin Fds /\ wakeup_fd \notin Fds
BY ClientsAssumption DEF Fds, Conn, listen_fd, timer_fd, wakeup_fd

LEMMA UsedFd ==
    ASSUME Sockets, NEW fd
    PROVE  /\ fd \in Used <=> \E c \in Conn : fdOf[c] = fd /\ fd \in Fds
           /\ fd \in Used => fd \in Fds
           /\ IsOpen(fd) <=> fd \in Used
BY FdsAreNumbers DEF Sockets, Used, Open, IsOpen

LEMMA TheConnAt ==
    ASSUME Sockets, NEW fd \in Used
    PROVE  /\ ConnAt(fd) \in Conn
           /\ state[ConnAt(fd)] = "open"
           /\ fdOf[ConnAt(fd)] = fd
<1>1. \E c \in Open : fdOf[c] = fd BY DEF Used
<1> QED BY <1>1 DEF ConnAt, Open

\* A peer changes no descriptor.
LEMMA PeersKeep ==
    ASSUME Sockets, NEW c \in Conn,
           \/ PeerConnects(c)
           \/ \E part \in Part : PeerSends(c, part)
           \/ PeerEnds(c)
    PROVE  /\ Sockets'
           /\ fdOf' = fdOf
           /\ \A d \in Conn : state[d] = "open" <=> state'[d] = "open"
           /\ Used' = Used
<1>1. fdOf' = fdOf BY DEF PeerConnects, PeerSends, PeerEnds
<1>2. CASE PeerConnects(c)
  BY <1>1, <1>2, FdsAreNumbers DEF PeerConnects, Sockets, Used, Open
<1>3. ASSUME NEW part \in Part, PeerSends(c, part)
      PROVE  Sockets' /\ state' = state
  <2>1. unread' \in [Conn -> Seq(Part)] BY <1>3 DEF PeerSends, Sockets
  <2> QED BY <1>1, <1>3, <2>1 DEF PeerSends, Sockets
<1>4. CASE PeerEnds(c)
  BY <1>1, <1>4 DEF PeerEnds, Sockets, Used, Open
<1> QED BY <1>1, <1>2, <1>3, <1>4 DEF Used, Open

\* Responses, and perhaps the end of a connection.
LEMMA ServeKeeps ==
    ASSUME Sockets, NEW c \in Conn, state[c] = "open",
           NEW n \in 0 .. Len(unread[c]), NEW answers, NEW close \in BOOLEAN,
           Serve(c, n, answers, close)
    PROVE  /\ Sockets'
           /\ ~close => fdOf' = fdOf /\ state' = state /\ Used' = Used
           /\ close => /\ Used' = Used \ {fdOf[c]}
                       /\ \A d \in Conn \ {c} : state'[d] = state[d] /\ fdOf'[d] = fdOf[d]
<1>1. From(unread[c], n + 1) \in Seq(Part)
  <2>1. unread[c] \in Seq(Part) BY DEF Sockets
  <2>2. n + 1 \in 1 .. Len(unread[c]) + 1 BY <2>1
  <2> QED BY <2>1, <2>2, SubSeqProperties DEF From
<1>2. unread' \in [Conn -> Seq(Part)]
  BY <1>1 DEF Serve, Sockets
<1>3. CASE ~close
  BY <1>2, <1>3 DEF Serve, Sockets, Used, Open
<1>4. CASE close
  <2>1. /\ state' = [state EXCEPT ![c] = "closed"]
        /\ fdOf' = [fdOf EXCEPT ![c] = 0]
    BY <1>4 DEF Serve
  <2>2. Sockets' BY <1>2, <2>1 DEF Sockets
  <2>3. Used' = Used \ {fdOf[c]}
    BY <2>1, <2>2 DEF Sockets, Used, Open
  <2> QED BY <1>4, <2>1, <2>2, <2>3 DEF Sockets
<1> QED BY <1>3, <1>4

\* accept() gives each new connection a number nobody has.
LEMMA AcceptKeeps ==
    ASSUME Sockets, NEW new \in NewFds, AcceptAll(new)
    PROVE  /\ Sockets'
           /\ Range(new) \subseteq Fds \ Used
           /\ Used' = Used \union Range(new)
           /\ \A d \in Conn : state[d] = "open" =>
                 state'[d] = "open" /\ fdOf'[d] = fdOf[d]
<1>1. new \in [Pending -> Fds \ Used]
  BY DEF NewFds
<1>2. \A c, d \in Pending : c < d => new[c] < new[d]
  BY DEF NewFds
<1>3. \A c, d \in Pending : new[c] = new[d] => c = d
  <2> SUFFICES ASSUME NEW c \in Pending, NEW d \in Pending, new[c] = new[d], c # d
               PROVE  FALSE
    OBVIOUS
  <2>1. c \in Nat /\ d \in Nat BY FdsAreNumbers DEF Pending
  <2>2. new[c] \in Nat /\ new[d] \in Nat BY <1>1, FdsAreNumbers
  <2>3. c < d \/ d < c BY <2>1
  <2> QED BY <1>2, <2>2, <2>3
<1>4. /\ state' = [c \in Conn |-> IF c \in Pending THEN "open" ELSE state[c]]
      /\ fdOf' = [c \in Conn |-> IF c \in Pending THEN new[c] ELSE fdOf[c]]
      /\ unread' = unread
  BY DEF AcceptAll
<1>5. Range(new) \subseteq Fds \ Used BY <1>1 DEF Range
<1>6. \A c \in Pending : c \in Conn /\ new[c] \in Fds \ Used
  BY <1>1 DEF Pending
<1>7. \A c \in Conn : fdOf[c] # 0 => c \notin Pending /\ fdOf[c] \in Used
  BY FdsAreNumbers DEF Sockets, Pending, Used, Open
<1>8. Sockets'
  <2>1. state' \in [Conn -> {"none", "pending", "open", "closed"}]
    BY <1>4 DEF Sockets
  <2>2. fdOf' \in [Conn -> {0} \union Fds] BY <1>4, <1>6 DEF Sockets
  <2>3. \A c \in Conn : state'[c] = "open" <=> fdOf'[c] # 0
    BY <1>4, <1>6, FdsAreNumbers DEF Sockets
  <2>4. \A c, d \in Conn : fdOf'[c] = fdOf'[d] /\ fdOf'[c] # 0 => c = d
    BY <1>3, <1>4, <1>6, <1>7 DEF Sockets
  <2> QED BY <1>4, <2>1, <2>2, <2>3, <2>4 DEF Sockets
<1>9. Used' = Used \union Range(new)
  <2>1. Open' = Open \union Pending BY <1>4 DEF Open, Pending
  <2>2. \A c \in Open : fdOf'[c] = fdOf[c] BY <1>4 DEF Open, Pending
  <2>3. \A c \in Pending : fdOf'[c] = new[c] BY <1>4 DEF Pending
  <2>4. DOMAIN new = Pending BY <1>1
  <2> QED BY <2>1, <2>2, <2>3, <2>4 DEF Used, Range
<1> QED BY <1>4, <1>5, <1>8, <1>9 DEF Sockets, Pending

\* close() of several connections.
LEMMA CloseAllKeeps ==
    ASSUME Sockets, NEW cs \in SUBSET Open, CloseAll(cs)
    PROVE  /\ Sockets'
           /\ Used' = Used \ {fdOf[c] : c \in cs}
<1>1. /\ state' = [c \in Conn |-> IF c \in cs THEN "closed" ELSE state[c]]
      /\ fdOf' = [c \in Conn |-> IF c \in cs THEN 0 ELSE fdOf[c]]
      /\ unread' = unread
  BY DEF CloseAll
<1>2. Sockets'
  <2>1. unread' \in [Conn -> Seq(Part)] BY <1>1 DEF Sockets
  <2>2. fdOf' \in [Conn -> {0} \union Fds] BY <1>1 DEF Sockets
  <2> QED BY <1>1, <2>1, <2>2 DEF Sockets
<1>3. Open' = Open \ cs BY <1>1 DEF Open
<1>4. \A c \in Open \ cs : fdOf'[c] = fdOf[c] BY <1>1 DEF Open
<1>5. \A c \in Open, d \in cs : fdOf[c] = fdOf[d] => c = d
  BY DEF Open, Sockets
<1> QED BY <1>2, <1>3, <1>4, <1>5 DEF Used

----------------------------------------------------------------------------
(* The invariant is inductive *)

LEMMA InitInv == Init => IInv
<1> SUFFICES ASSUME Init PROVE IInv OBVIOUS
<1>1. Sockets BY EmptySeq DEF Init, ClientsInit, Sockets
<1>2. Used = {} BY DEF Init, ClientsInit, Used, Open
<1>3. ReactorOwns
  BY <1>2 DEF Init, ReactorInit, ReactorOwns, Table
<1>4. PoolOwns
  <2>1. DOMAIN tasks = {} /\ \A w \in PoolWorkers : working[w] = {}
    BY DEF Init, PoolInit
  <2>2. Tasks = {} BY <2>1 DEF Tasks
  <2>3. tasks \in Seq(Tasking) BY EmptySeq DEF Init, PoolInit
  <2>4. working \in [PoolWorkers -> SUBSET Tasking] BY DEF Init, PoolInit
  <2> QED BY <1>2, <2>1, <2>2, <2>3, <2>4 DEF Init, PoolInit, PoolOwns
<1>5. SubsOwn
  <2>1. 0 \in Sub BY SubAssumption DEF Sub
  <2>2. \A i \in Sub : DOMAIN buffers[i] = {} BY DEF Init, SubsInit
  <2> QED BY <1>2, <2>1, <2>2 DEF Init, SubsInit, SubsOwn
<1> QED BY <1>1, <1>3, <1>4, <1>5 DEF Init, IInv

\* What a peer does disturbs no server: each owns descriptors, not data.
LEMMA PeersInv == IInv /\ Peers => IInv'
<1> SUFFICES ASSUME IInv, Peers PROVE IInv' OBVIOUS
<1>1. /\ Sockets' /\ fdOf' = fdOf /\ Used' = Used
      /\ \A d \in Conn : state[d] = "open" <=> state'[d] = "open"
  <2>1. PICK c \in Conn :
           \/ PeerConnects(c)
           \/ \E part \in Part : PeerSends(c, part)
           \/ PeerEnds(c)
    BY DEF Peers
  <2> QED BY <2>1, PeersKeep DEF IInv
<1>2. UNCHANGED <<reactor, pool, subs, server>> BY DEF Peers
<1>3. ASSUME ReactorOwns PROVE ReactorOwns'
  BY <1>1, <1>2, <1>3 DEF ReactorOwns, reactor, Table, timer_fd, wakeup_fd
<1>4. ASSUME PoolOwns PROVE PoolOwns'
  <2>1. Tasks' = Tasks BY <1>2 DEF pool, Tasks
  <2>2. \A t \in Tasks : Carries(t)'
    BY <1>1, <1>2, <1>4 DEF PoolOwns, Carries, pool, Tasking
  <2> QED BY <1>1, <1>2, <1>4, <2>1, <2>2 DEF PoolOwns, pool
<1>5. ASSUME SubsOwn PROVE SubsOwn'
  BY <1>1, <1>2, <1>5 DEF SubsOwn, subs
<1> QED BY <1>1, <1>2, <1>3, <1>4, <1>5 DEF IInv

----------------------------------------------------------------------------
(* One Reactor *)

LEMMA ReactorSteps ==
    ASSUME Sockets, ReactorOwns, ReactorStep
    PROVE  Sockets' /\ ReactorOwns'
<1>1. CASE Poll
  <2>1. Sockets' /\ Used' = Used
    BY <1>1 DEF Poll, sockets, Sockets, Used, Open
  <2>2. batch' \intersect Fds \subseteq Used
    <3>1. {fdOf[c] : c \in {d \in Open : Readable(d)}} \subseteq Used BY DEF Used
    <3>2. raised \intersect Fds = {} BY FdsAreNumbers DEF ReactorOwns
    <3>3. {listen_fd : c \in Pending} \intersect Fds = {} BY FdsAreNumbers
    <3> QED BY <1>1, <3>1, <3>2, <3>3 DEF Poll, Ready
  <2> QED BY <1>1, <2>1, <2>2 DEF Poll, ReactorOwns, Table, timer_fd, wakeup_fd
<1>2. CASE handle_accept
  <2>1. PICK new \in NewFds :
          /\ AcceptAll(new)
          /\ conns' = [fd \in Table \union Range(new) |->
                         IF fd \in Range(new) /\ ~flow THEN <<>> ELSE Input(fd)]
          /\ Note(fresh \union Range(new), swept)
    BY <1>2 DEF handle_accept
  <2>2. Sockets' /\ Used' = Used \union Range(new) BY <2>1, AcceptKeeps
  <2>3. Table' = Table \union Range(new) BY <2>1 DEF Table
  <2>4. batch' \intersect Fds \subseteq Used' \union swept'
    BY <1>2, <2>1, <2>2 DEF handle_accept, Dispatch, Note, ReactorOwns
  <2> QED
    BY <1>2, <2>2, <2>3, <2>4
    DEF handle_accept, Dispatch, ReactorOwns, timer_fd, wakeup_fd
<1>3. ASSUME NEW fd \in Fds, handle_read(fd) PROVE Sockets' /\ ReactorOwns'
  <2> DEFINE c == ConnAt(fd)
             a == Answer(Input(fd) \o unread[c])
             close == a.close \/ fin[c]
  <2>1. /\ Dispatch(fd) /\ IsOpen(fd) /\ ~crashed
        /\ Serve(c, Len(unread[c]), a.answers, close)
        /\ conns' = IF close THEN Without({fd})
                    ELSE [d \in Table \union {fd} |-> IF d = fd THEN a.rest ELSE conns[d]]
        /\ Note(IF flow /\ unread[c] = <<>> THEN fresh ELSE fresh \union {fd}, swept)
        /\ UNCHANGED <<flow, running, raised, crashed, ticks>>
    BY <1>3 DEF handle_read, Dispatch
  <2>2. fd \in Used BY <2>1, UsedFd
  <2>3. c \in Conn /\ state[c] = "open" /\ fdOf[c] = fd BY <2>2, TheConnAt
  <2> HIDE DEF c, a
  <2>4. Len(unread[c]) \in 0 .. Len(unread[c])
    <3>1. unread[c] \in Seq(Part) BY <2>3 DEF Sockets
    <3> QED BY <3>1, LenProperties
  <2> DEFINE ends == IF close THEN TRUE ELSE FALSE
  <2>5. Serve(c, Len(unread[c]), a.answers, ends)
    BY <2>1 DEF Serve
  <2>6. ends \in BOOLEAN OBVIOUS
  <2>7. /\ Sockets'
        /\ ~ends => Used' = Used
        /\ ends => Used' = Used \ {fd}
    <3> HIDE DEF ends
    <3> QED BY <2>3, <2>4, <2>5, <2>6, ServeKeeps
  <2>8. Table' = IF ends THEN Table \ {fd} ELSE Table \union {fd}
    BY <2>1 DEF Table, Without
  <2>9. Table' = Used' BY <2>1, <2>2, <2>7, <2>8 DEF ReactorOwns
  <2>10. batch' \intersect Fds \subseteq Used' \union swept'
    BY <2>1, <2>7 DEF Dispatch, Note, ReactorOwns
  <2> QED BY <2>1, <2>7, <2>9, <2>10 DEF ReactorOwns, timer_fd, wakeup_fd
<1>4. ASSUME NEW fd \in Fds, ReadGone(fd) PROVE Sockets' /\ ReactorOwns'
  <2>1. Sockets' /\ Used' = Used
    BY <1>4 DEF ReadGone, sockets, Sockets, Used, Open
  <2>2. fd \notin Table BY <1>4, UsedFd DEF ReadGone, Dispatch, ReactorOwns
  <2>3. Table' = Table BY <1>4, <2>2 DEF ReadGone, Without, Table
  <2> QED
    BY <1>4, <2>1, <2>3
    DEF ReadGone, Dispatch, Note, ReactorOwns, timer_fd, wakeup_fd
<1>5. CASE handle_timeout
  <2>1. PICK old \in SUBSET (Table \ fresh) :
          /\ CloseAll({c \in Open : fdOf[c] \in old})
          /\ conns' = Without(old)
          /\ Note(fresh, swept \union old)
    BY <1>5 DEF handle_timeout
  <2>2. Sockets' /\ Used' = Used \ {fdOf[c] : c \in {d \in Open : fdOf[d] \in old}}
    BY <2>1, CloseAllKeeps
  <2>3. Used' = Used \ old BY <2>2 DEF Used
  <2>4. Table' = Table \ old BY <2>1 DEF Table, Without
  <2>5. batch' \intersect Fds \subseteq Used' \union swept'
    BY <1>5, <2>1, <2>3 DEF handle_timeout, Dispatch, Note, ReactorOwns
  <2> QED
    BY <1>5, <2>2, <2>3, <2>4, <2>5
    DEF handle_timeout, Dispatch, ReactorOwns, timer_fd, wakeup_fd
<1>6. CASE handle_wakeup
  <2>1. Sockets' /\ Used' = Used
    BY <1>6 DEF handle_wakeup, sockets, Sockets, Used, Open
  <2>2. batch' \intersect Fds \subseteq Used \union swept'
    BY <1>6 DEF handle_wakeup, Note, ReactorOwns
  <2> QED BY <1>6, <2>1, <2>2 DEF handle_wakeup, ReactorOwns, Table, timer_fd, wakeup_fd
<1> QED BY <1>1, <1>2, <1>3, <1>4, <1>5, <1>6 DEF ReactorStep

----------------------------------------------------------------------------
(* The thread pool *)

LEMMA PoolSteps ==
    ASSUME Sockets, PoolOwns, PoolStep
    PROVE  Sockets' /\ PoolOwns'
<1>0. /\ tasks \in Seq(Tasking)
      /\ \A k \in DOMAIN tasks : tasks[k] \in Tasks /\ Carries(tasks[k])
      /\ \A w \in PoolWorkers : \A t \in working[w] : t \in Tasks /\ Carries(t)
  BY DEF PoolOwns, Tasks
<1>1. CASE Accept
  <2>1. PICK new \in NewFds :
          AcceptAll(new) /\ watched' = watched \union Range(new)
    BY <1>1 DEF Accept
  <2>2. UNCHANGED <<tasks, working, abandoned>> BY <1>1 DEF Accept
  <2>3. /\ Sockets' /\ Used' = Used \union Range(new)
        /\ Range(new) \intersect Used = {}
        /\ \A d \in Conn : state[d] = "open" =>
                state'[d] = "open" /\ fdOf'[d] = fdOf[d]
    BY <2>1, AcceptKeeps
  <2>4. Tasks' = Tasks BY <2>2 DEF Tasks
  <2>5. \A t \in Tasks : Carries(t)'
    <3> SUFFICES ASSUME NEW t \in Tasks PROVE Carries(t)' OBVIOUS
    <3>1. Carries(t) /\ t.fd \in Used BY DEF PoolOwns
    <3>2. t.conn \in Conn BY <3>1 DEF Carries, Tasking
    <3> QED BY <2>1, <2>2, <2>3, <3>1, <3>2 DEF Carries, Tasking
  <2>6. Used' = watched' \union abandoned' \union {t.fd : t \in Tasks'}
    BY <2>1, <2>2, <2>3, <2>4 DEF PoolOwns
  <2>7. watched' \intersect abandoned' = {} BY <2>1, <2>2, <2>3 DEF PoolOwns
  <2> QED BY <2>2, <2>3, <2>4, <2>5, <2>6, <2>7 DEF PoolOwns
<1>2. ASSUME NEW c \in Conn, NEW n \in 1 .. MaxParts, Receive(c, n)
      PROVE  Sockets' /\ PoolOwns'
  <2>0. PICK new : new = Task(c, SubSeq(unread[c], 1, n)) OBVIOUS
  <2>1. /\ state[c] = "open" /\ fdOf[c] \in watched
        /\ n \in 1 .. Len(unread[c])
        /\ Serve(c, n, 0, FALSE)
        /\ watched' = watched \ {fdOf[c]}
        /\ tasks' = Append(tasks, new)
        /\ UNCHANGED <<working, abandoned>>
    BY <1>2, <2>0 DEF Receive, Open
  <2>2. unread[c] \in Seq(Part) BY DEF Sockets
  <2>3. n \in 0 .. Len(unread[c]) BY <2>1, <2>2, LenProperties
  <2>4. Sockets' /\ fdOf' = fdOf /\ state' = state /\ Used' = Used
    BY <2>1, <2>3, ServeKeeps
  <2>5. new.fd = fdOf[c] /\ new.conn = c BY <2>0 DEF Task
  <2>6. new \in Tasking
    <3>1. SubSeq(unread[c], 1, n) \in Seq(Part) BY <2>1, <2>2, SubSeqProperties
    <3>2. fdOf[c] \in Fds BY <2>1 DEF Sockets
    <3> QED BY <2>0, <3>1, <3>2 DEF Task, Tasking
  <2>7. \A t \in Tasks : t.fd # new.fd BY <2>1, <2>5 DEF PoolOwns, Carries
  <2>8. /\ tasks' \in Seq(Tasking)
        /\ DOMAIN tasks' = DOMAIN tasks \union {Len(tasks) + 1}
        /\ \A k \in DOMAIN tasks : tasks'[k] = tasks[k]
        /\ tasks'[Len(tasks) + 1] = new
    BY <1>0, <2>1, <2>6, AppendProperties
  <2>9. Tasks' = Tasks \union {new} BY <2>1, <2>8 DEF Tasks
  <2>10. \A t \in Tasks' : Carries(t)'
    <3>1. \A t \in Tasks : Carries(t)'
      BY <2>1, <2>4 DEF PoolOwns, Carries, Tasking
    <3>2. Carries(new)'
      BY <2>1, <2>4, <2>5, <2>6 DEF PoolOwns, Carries, Tasking
    <3> QED BY <2>9, <3>1, <3>2
  <2>11. Used' = watched' \union abandoned' \union {t.fd : t \in Tasks'}
    <3>1. {t.fd : t \in Tasks'} = {t.fd : t \in Tasks} \union {new.fd} BY <2>9
    <3> QED BY <2>1, <2>4, <2>5, <3>1 DEF PoolOwns
  <2>12. \A j, k \in DOMAIN tasks' : tasks'[j].fd = tasks'[k].fd => j = k
    BY <1>0, <2>7, <2>8 DEF PoolOwns
  <2>13. \A w \in PoolWorkers : \A t \in working'[w], k \in DOMAIN tasks' :
            tasks'[k].fd # t.fd
    BY <1>0, <2>1, <2>7, <2>8 DEF PoolOwns
  <2> QED BY <2>1, <2>4, <2>8, <2>10, <2>11, <2>12, <2>13 DEF PoolOwns
<1>3. ASSUME NEW c \in Conn, ReceiveEnd(c) PROVE Sockets' /\ PoolOwns'
  <2>1. /\ state[c] = "open" /\ fdOf[c] \in watched
        /\ Serve(c, 0, 0, TRUE)
        /\ watched' = watched \ {fdOf[c]}
        /\ UNCHANGED <<tasks, working, abandoned>>
    BY <1>3 DEF ReceiveEnd, Open
  <2>2. 0 \in 0 .. Len(unread[c])
    <3>1. unread[c] \in Seq(Part) BY DEF Sockets
    <3> QED BY <3>1, LenProperties
  <2>3. /\ Sockets' /\ Used' = Used \ {fdOf[c]}
        /\ \A d \in Conn \ {c} : state'[d] = state[d] /\ fdOf'[d] = fdOf[d]
    BY <2>1, <2>2, ServeKeeps
  <2>4. Tasks' = Tasks BY <2>1 DEF Tasks
  <2>5. \A t \in Tasks : Carries(t)'
    <3> SUFFICES ASSUME NEW t \in Tasks PROVE Carries(t)' OBVIOUS
    <3>1. Carries(t) BY DEF PoolOwns
    <3>2. t.conn \in Conn \ {c} BY <2>1, <3>1 DEF Carries, Tasking
    <3> QED BY <2>1, <2>3, <3>1, <3>2 DEF Carries, Tasking
  <2>6. Used' = watched' \union abandoned' \union {t.fd : t \in Tasks'}
    BY <2>1, <2>3, <2>4 DEF PoolOwns, Carries
  <2> QED BY <2>1, <2>3, <2>4, <2>5, <2>6 DEF PoolOwns
<1>4. ASSUME NEW w \in PoolWorkers, TakeTask(w) PROVE Sockets' /\ PoolOwns'
  <2>1. /\ working[w] = {} /\ tasks # <<>>
        /\ working' = [working EXCEPT ![w] = {Head(tasks)}]
        /\ tasks' = Tail(tasks)
        /\ UNCHANGED <<sockets, watched, abandoned>>
    BY <1>4 DEF TakeTask
  <2>2. Sockets' /\ Used' = Used BY <2>1 DEF sockets, Sockets, Used, Open
  <2>3. /\ tasks' \in Seq(Tasking)
        /\ 1 \in DOMAIN tasks /\ Head(tasks) = tasks[1]
        /\ \A k \in DOMAIN tasks' : /\ k \in Nat /\ k # 0
                                   /\ k + 1 \in DOMAIN tasks
                                   /\ tasks'[k] = tasks[k + 1]
    BY <1>0, <2>1
  <2>4. \A k \in DOMAIN tasks :
           k # 1 => k - 1 \in DOMAIN tasks' /\ tasks'[k - 1] = tasks[k]
    <3>1. /\ DOMAIN tasks = 1 .. Len(tasks) /\ Len(tasks) \in Nat
          /\ Len(tasks') = Len(tasks) - 1 /\ DOMAIN tasks' = 1 .. Len(tasks')
          /\ \A k \in 1 .. Len(tasks') : tasks'[k] = tasks[k + 1]
      BY <1>0, <2>1, HeadTailProperties, LenProperties
    <3> QED BY <3>1
  <2>5. /\ working' \in [PoolWorkers -> SUBSET Tasking]
        /\ working'[w] = {tasks[1]}
        /\ \A v \in PoolWorkers \ {w} : working'[v] = working[v]
    BY <1>0, <2>1, <2>3 DEF PoolOwns, Carries
  <2>6. Tasks' = Tasks
    <3>1. \A t \in Tasks' : t \in Tasks BY <2>3, <2>5 DEF Tasks
    <3>2. \A t \in Tasks : t \in Tasks'
      <4> SUFFICES ASSUME NEW t \in Tasks PROVE t \in Tasks' OBVIOUS
      <4>1. CASE \E k \in DOMAIN tasks : t = tasks[k]
        BY <2>4, <2>5, <4>1 DEF Tasks
      <4>2. CASE \E v \in PoolWorkers : t \in working[v]
        BY <2>1, <2>5, <4>2 DEF Tasks
      <4> QED BY <4>1, <4>2 DEF Tasks
    <3> QED BY <3>1, <3>2
  <2>7. \A t \in Tasks : Carries(t)'
    BY <2>1 DEF PoolOwns, Carries, Tasking, sockets
  <2>8. \A j, k \in DOMAIN tasks' : tasks'[j].fd = tasks'[k].fd => j = k
    <3> SUFFICES ASSUME NEW j \in DOMAIN tasks', NEW k \in DOMAIN tasks',
                        tasks'[j].fd = tasks'[k].fd
                 PROVE  j = k
      OBVIOUS
    <3>1. j + 1 = k + 1 BY <2>3 DEF PoolOwns
    <3> QED BY <2>3, <3>1
  <2>9. \A v, u \in PoolWorkers : \A t \in working'[v], s \in working'[u] :
            v = u \/ t.fd = s.fd => v = u /\ t = s
    <3> SUFFICES ASSUME NEW v \in PoolWorkers, NEW u \in PoolWorkers,
                        NEW t \in working'[v], NEW s \in working'[u],
                        v = u \/ t.fd = s.fd
                 PROVE  v = u /\ t = s
      OBVIOUS
    <3>1. CASE v = w /\ u = w BY <2>5, <3>1
    <3>2. CASE v # w /\ u # w BY <2>5, <3>2 DEF PoolOwns
    <3>3. CASE v = w /\ u # w
      <4>1. t = tasks[1] /\ s \in working[u] BY <2>5, <3>3
      <4>2. tasks[1].fd # s.fd BY <2>3, <4>1 DEF PoolOwns
      <4> QED BY <3>3, <4>1, <4>2
    <3>4. CASE v # w /\ u = w
      <4>1. s = tasks[1] /\ t \in working[v] BY <2>5, <3>4
      <4>2. tasks[1].fd # t.fd BY <2>3, <4>1 DEF PoolOwns
      <4> QED BY <3>4, <4>1, <4>2
    <3> QED BY <3>1, <3>2, <3>3, <3>4
  <2>10. \A v \in PoolWorkers : \A t \in working'[v], k \in DOMAIN tasks' :
            tasks'[k].fd # t.fd
    <3> SUFFICES ASSUME NEW v \in PoolWorkers, NEW t \in working'[v],
                        NEW k \in DOMAIN tasks'
                 PROVE  tasks'[k].fd # t.fd
      OBVIOUS
    <3>1. k + 1 \in DOMAIN tasks /\ k + 1 # 1 /\ tasks'[k] = tasks[k + 1] BY <2>3
    <3>2. CASE v = w BY <2>3, <2>5, <3>1, <3>2 DEF PoolOwns
    <3>3. CASE v # w BY <2>5, <3>1, <3>3 DEF PoolOwns
    <3> QED BY <3>2, <3>3
  <2> QED
    BY <2>1, <2>2, <2>3, <2>5, <2>6, <2>7, <2>8, <2>9, <2>10 DEF PoolOwns
<1>5. ASSUME NEW w \in PoolWorkers, process_request(w) PROVE Sockets' /\ PoolOwns'
  <2>1. PICK t \in working[w] :
          /\ working' = [working EXCEPT ![w] = {}]
          /\ IF Requests(t.data) = 0
             THEN abandoned' = abandoned \union {t.fd} /\ UNCHANGED sockets
             ELSE Serve(ConnAt(t.fd), 0, 1, TRUE) /\ UNCHANGED abandoned
          /\ UNCHANGED <<watched, tasks>>
    BY <1>5 DEF process_request
  <2>2. Carries(t) /\ t.fd \in Used /\ t.conn \in Conn
    BY <1>0 DEF PoolOwns, Carries, Tasking
  <2>3. /\ working' \in [PoolWorkers -> SUBSET Tasking]
        /\ working'[w] = {}
        /\ \A v \in PoolWorkers \ {w} : working'[v] = working[v]
    BY <2>1 DEF PoolOwns
  <2>4. Tasks' = {s \in Tasks : s.fd # t.fd}
    <3>1. \A s \in Tasks' : s \in Tasks /\ s.fd # t.fd
      <4> SUFFICES ASSUME NEW s \in Tasks' PROVE s \in Tasks /\ s.fd # t.fd
        OBVIOUS
      <4>1. CASE \E k \in DOMAIN tasks : s = tasks[k]
        BY <1>0, <4>1 DEF PoolOwns
      <4>2. CASE \E v \in PoolWorkers : s \in working'[v]
        BY <1>0, <2>3, <4>2 DEF PoolOwns
      <4> QED BY <2>1, <4>1, <4>2 DEF Tasks
    <3>2. \A s \in Tasks : s.fd # t.fd => s \in Tasks'
      <4> SUFFICES ASSUME NEW s \in Tasks, s.fd # t.fd PROVE s \in Tasks'
        OBVIOUS
      <4>1. CASE \E k \in DOMAIN tasks : s = tasks[k]
        BY <2>1, <4>1 DEF Tasks
      <4>2. CASE \E v \in PoolWorkers : s \in working[v]
        <5>1. PICK v \in PoolWorkers : s \in working[v] BY <4>2
        <5>2. v # w BY <5>1 DEF PoolOwns
        <5> QED BY <2>3, <5>1, <5>2 DEF Tasks
      <4> QED BY <4>1, <4>2 DEF Tasks
    <3> QED BY <3>1, <3>2
  <2> DEFINE carried == {s.fd : s \in Tasks}
  <2>5. carried' = carried \ {t.fd} BY <2>4
  <2>6. t.fd \in carried /\ Used = watched \union abandoned \union carried
    BY <1>0 DEF PoolOwns
  <2> HIDE DEF carried
  <2>7. /\ \A v, u \in PoolWorkers : \A s \in working'[v], r \in working'[u] :
              v = u \/ s.fd = r.fd => v = u /\ s = r
        /\ \A v \in PoolWorkers : \A s \in working'[v], k \in DOMAIN tasks' :
              tasks'[k].fd # s.fd
    BY <2>1, <2>3 DEF PoolOwns
  <2>8. CASE Requests(t.data) = 0
    <3>1. Sockets' /\ Used' = Used
      BY <2>1, <2>8 DEF sockets, Sockets, Used, Open
    <3>2. Used' = watched' \union abandoned' \union carried'
      BY <2>1, <2>5, <2>6, <2>8, <3>1
    <3>3. watched' \intersect abandoned' = {}
      BY <2>1, <2>2, <2>8 DEF PoolOwns, Carries
    <3>4. \A s \in Tasks' : Carries(s)'
      BY <2>1, <2>4, <2>8 DEF PoolOwns, Carries, Tasking, sockets
    <3> QED BY <2>1, <2>3, <2>7, <3>1, <3>2, <3>3, <3>4 DEF PoolOwns, carried
  <2>9. CASE Requests(t.data) # 0
    <3> DEFINE c == ConnAt(t.fd)
    <3>1. c \in Conn /\ state[c] = "open" /\ fdOf[c] = t.fd BY <2>2, TheConnAt
    <3> HIDE DEF c
    <3>2. 0 \in 0 .. Len(unread[c])
      <4>1. unread[c] \in Seq(Part) BY <3>1 DEF Sockets
      <4> QED BY <4>1, LenProperties
    <3>3. Serve(c, 0, 1, TRUE) /\ UNCHANGED abandoned BY <2>1, <2>9 DEF c
    <3>4. /\ Sockets' /\ Used' = Used \ {t.fd}
          /\ \A d \in Conn \ {c} : state'[d] = state[d] /\ fdOf'[d] = fdOf[d]
      BY <3>1, <3>2, <3>3, ServeKeeps
    <3>5. Used' = watched' \union abandoned' \union carried'
      BY <2>1, <2>2, <2>5, <2>6, <3>3, <3>4 DEF Carries
    <3>6. \A s \in Tasks' : Carries(s)'
      <4> SUFFICES ASSUME NEW s \in Tasks' PROVE Carries(s)' OBVIOUS
      <4>1. Carries(s) /\ s.fd # t.fd BY <2>4 DEF PoolOwns
      <4>2. s.conn \in Conn \ {c} BY <3>1, <4>1 DEF Carries, Tasking
      <4> QED BY <2>1, <3>3, <3>4, <4>1, <4>2 DEF Carries, Tasking
    <3>7. watched' \intersect abandoned' = {} BY <2>1, <3>3 DEF PoolOwns
    <3> QED BY <2>1, <2>3, <2>7, <3>3, <3>4, <3>5, <3>6, <3>7 DEF PoolOwns, carried
  <2> QED BY <2>8, <2>9
<1> QED BY <1>1, <1>2, <1>3, <1>4, <1>5 DEF PoolStep

----------------------------------------------------------------------------
(* Several Reactors *)

LEMMA SubsSteps ==
    ASSUME Sockets, SubsOwn, SubsStep
    PROVE  Sockets' /\ SubsOwn'
<1>1. CASE AcceptNext
  <2>1. PICK c \in Pending, fd \in Fds \ Used :
          /\ state' = [state EXCEPT ![c] = "open"]
          /\ fdOf' = [fdOf EXCEPT ![c] = fd]
          /\ epfd' = [epfd EXCEPT ![next] = @ \union {fd}]
          /\ next' = (next + 1) % SUB_NUM
          /\ UNCHANGED <<unread, events, buffers, closing>>
    BY <1>1 DEF AcceptNext
  <2>2. c \in Conn /\ fd # 0 /\ state[c] = "pending" BY FdsAreNumbers DEF Pending
  <2>3. Sockets'
    <3>1. \A d \in Conn : fdOf[d] # fd BY <2>1, FdsAreNumbers DEF Sockets, Used, Open
    <3> QED BY <2>1, <2>2, <3>1 DEF Sockets
  <2>4. Used' = Used \union {fd}
    <3>1. Open' = Open \union {c} BY <2>1, <2>2 DEF Open, Sockets
    <3>2. \A d \in Open : fdOf'[d] = fdOf[d] BY <2>1, <2>2 DEF Open
    <3>3. fdOf'[c] = fd BY <2>1, <2>2 DEF Sockets
    <3> QED BY <3>1, <3>2, <3>3 DEF Used
  <2>5. next' \in Sub BY <2>1, SubAssumption DEF SubsOwn, Sub
  <2>6. /\ epfd' \in [Sub -> SUBSET Fds]
        /\ epfd'[next] = epfd[next] \union {fd}
        /\ \A i \in Sub \ {next} : epfd'[i] = epfd[i]
    BY <2>1 DEF SubsOwn
  <2>7. \A i \in Sub : fd \notin epfd[i] BY DEF SubsOwn
  <2>8. \A i \in Sub : \A j \in Sub \ {i} : epfd'[i] \intersect epfd'[j] = {}
    BY <2>6, <2>7 DEF SubsOwn
  <2>9. Used' = UNION {epfd'[i] : i \in Sub} BY <2>4, <2>6 DEF SubsOwn
  <2> QED BY <2>1, <2>3, <2>5, <2>6, <2>8, <2>9 DEF SubsOwn
<1>2. ASSUME NEW i \in Sub, SubPoll(i) PROVE Sockets' /\ SubsOwn'
  <2>1. Sockets' /\ Used' = Used
    BY <1>2 DEF SubPoll, sockets, Sockets, Used, Open
  <2>2. /\ events' \in [Sub -> SUBSET Fds]
        /\ events'[i] \subseteq epfd[i]
        /\ \A j \in Sub \ {i} : events'[j] = events[j]
    BY <1>2 DEF SubPoll, SubsOwn
  <2> QED BY <1>2, <2>1, <2>2 DEF SubPoll, SubsOwn
<1>3. ASSUME NEW i \in Sub, NEW fd \in Fds, SubRead(i, fd)
      PROVE  Sockets' /\ SubsOwn'
  <2> DEFINE c == ConnAt(fd)
             A(said) == AnswerAll(BufferOf(i, fd) \o unread[c], said)
             Over(said) == IF A(said).close \/ fin[c] THEN TRUE ELSE FALSE
  <2>0. PICK said \in BOOLEAN :
        /\ fd \in events[i] /\ closing[i] = 0
        /\ events' = [events EXCEPT ![i] = @ \ {fd}]
        /\ Serve(c, Len(unread[c]), A(said).answers, Over(said))
        /\ buffers' = [buffers EXCEPT ![i] =
                         [d \in DOMAIN @ \union {fd} |-> IF d = fd THEN A(said).rest ELSE @[d]]]
        /\ epfd' = IF Over(said) THEN [epfd EXCEPT ![i] = @ \ {fd}] ELSE epfd
        /\ closing' = IF Over(said) THEN [closing EXCEPT ![i] = fd] ELSE closing
        /\ next' = next
    BY <1>3 DEF SubRead, Serve
  <2> DEFINE a == A(said)
             ends == Over(said)
  <2>1. /\ fd \in events[i] /\ closing[i] = 0
        /\ events' = [events EXCEPT ![i] = @ \ {fd}]
        /\ Serve(c, Len(unread[c]), a.answers, ends)
        /\ buffers' = [buffers EXCEPT ![i] =
                         [d \in DOMAIN @ \union {fd} |-> IF d = fd THEN a.rest ELSE @[d]]]
        /\ epfd' = IF ends THEN [epfd EXCEPT ![i] = @ \ {fd}] ELSE epfd
        /\ closing' = IF ends THEN [closing EXCEPT ![i] = fd] ELSE closing
        /\ next' = next
    BY <2>0
  <2>2. fd \in epfd[i] /\ fd \in Used BY <2>1 DEF SubsOwn
  <2>3. c \in Conn /\ state[c] = "open" /\ fdOf[c] = fd BY <2>2, TheConnAt
  <2>4. ends \in BOOLEAN OBVIOUS
  <2> HIDE DEF c, a, ends
  <2>5. Len(unread[c]) \in 0 .. Len(unread[c])
    <3>1. unread[c] \in Seq(Part) BY <2>3 DEF Sockets
    <3> QED BY <3>1, LenProperties
  <2>6. /\ Sockets'
        /\ ~ends => Used' = Used
        /\ ends => Used' = Used \ {fd}
    BY <2>1, <2>3, <2>4, <2>5, ServeKeeps
  <2>7. /\ events' \in [Sub -> SUBSET Fds]
        /\ events'[i] = events[i] \ {fd}
        /\ \A j \in Sub \ {i} : events'[j] = events[j]
    BY <2>1 DEF SubsOwn
  <2>8. /\ DOMAIN buffers' = Sub
        /\ DOMAIN buffers'[i] = DOMAIN buffers[i] \union {fd}
        /\ \A j \in Sub \ {i} : buffers'[j] = buffers[j]
    BY <2>1 DEF SubsOwn
  <2>9. DOMAIN buffers[i] \subseteq epfd[i]
    BY <2>1, FdsAreNumbers DEF SubsOwn
  <2>10. CASE ~ends
    BY <2>1, <2>2, <2>6, <2>7, <2>8, <2>9, <2>10 DEF SubsOwn
  <2>11. CASE ends
    <3>1. /\ epfd' \in [Sub -> SUBSET Fds]
          /\ epfd'[i] = epfd[i] \ {fd}
          /\ \A j \in Sub \ {i} : epfd'[j] = epfd[j]
      BY <2>1, <2>11 DEF SubsOwn
    <3>2. /\ closing' \in [Sub -> {0} \union Fds]
          /\ closing'[i] = fd
          /\ \A j \in Sub \ {i} : closing'[j] = closing[j]
      BY <2>1, <2>11 DEF SubsOwn
    <3>3. \A j \in Sub \ {i} : fd \notin epfd[j] BY <2>2 DEF SubsOwn
    <3>4. Used' = UNION {epfd'[j] : j \in Sub}
      BY <2>6, <2>11, <3>1, <3>3 DEF SubsOwn
    <3>5. \A j \in Sub : /\ \A k \in Sub \ {j} : epfd'[j] \intersect epfd'[k] = {}
                        /\ events'[j] \subseteq epfd'[j]
                        /\ DOMAIN buffers'[j] \subseteq Fds
      BY <2>7, <2>8, <3>1, <3>3 DEF SubsOwn
    <3>6. \A j \in Sub : DOMAIN buffers'[j] \subseteq epfd'[j] \union {closing'[j]}
      BY <2>8, <2>9, <3>1, <3>2 DEF SubsOwn
    <3> QED BY <2>1, <2>6, <2>7, <2>8, <3>1, <3>2, <3>4, <3>5, <3>6 DEF SubsOwn
  <2> QED BY <2>10, <2>11
<1>4. ASSUME NEW i \in Sub, EraseBuffer(i) PROVE Sockets' /\ SubsOwn'
  <2>1. Sockets' /\ Used' = Used
    BY <1>4 DEF EraseBuffer, sockets, Sockets, Used, Open
  <2>2. /\ DOMAIN buffers' = Sub
        /\ DOMAIN buffers'[i] = DOMAIN buffers[i] \ {closing[i]}
        /\ \A j \in Sub \ {i} : buffers'[j] = buffers[j]
    BY <1>4 DEF EraseBuffer, SubsOwn
  <2>3. /\ closing' \in [Sub -> {0} \union Fds]
        /\ \A j \in Sub \ {i} : closing'[j] = closing[j]
    BY <1>4 DEF EraseBuffer, SubsOwn
  <2>4. \A j \in Sub : /\ DOMAIN buffers'[j] \subseteq Fds
                      /\ DOMAIN buffers'[j] \subseteq epfd[j] \union {closing'[j]}
    BY <2>2, <2>3 DEF SubsOwn
  <2> QED BY <1>4, <2>1, <2>2, <2>3, <2>4 DEF EraseBuffer, SubsOwn
<1> QED BY <1>1, <1>2, <1>3, <1>4 DEF SubsStep

----------------------------------------------------------------------------
(* Every step *)

LEMMA SurroundingsInv == IInv /\ Surroundings => IInv'
<1> SUFFICES ASSUME IInv, Surroundings PROVE IInv' OBVIOUS
<1>1. server = "reactor" /\ server' = server BY DEF Surroundings
<1>2. /\ Sockets' /\ Used' = Used
      /\ raised' \subseteq {timer_fd, wakeup_fd}
      /\ UNCHANGED <<flow, batch, conns, crashed, swept>>
  BY <1>1 DEF Surroundings, Tick, onSigint, IInv, ReactorOwns, sockets, Sockets, Used, Open
<1> QED BY <1>1, <1>2 DEF IInv, ReactorOwns, Table, timer_fd, wakeup_fd

LEMMA StutterInv == IInv /\ UNCHANGED vars => IInv'
<1> SUFFICES ASSUME IInv, UNCHANGED vars PROVE IInv' OBVIOUS
<1>1. UNCHANGED <<sockets, reactor, pool, subs, server>> BY DEF vars
<1>2. Sockets' /\ Used' = Used /\ UNCHANGED <<state, fdOf>>
  BY <1>1 DEF IInv, sockets, Sockets, Used, Open
<1>3. ASSUME ReactorOwns PROVE ReactorOwns'
  BY <1>1, <1>2, <1>3 DEF ReactorOwns, reactor, Table, timer_fd, wakeup_fd
<1>4. ASSUME PoolOwns PROVE PoolOwns'
  <2>1. Tasks' = Tasks BY <1>1 DEF pool, Tasks
  <2>2. \A t \in Tasks : Carries(t)'
    BY <1>1, <1>2, <1>4 DEF PoolOwns, Carries, pool, Tasking
  <2> QED BY <1>1, <1>2, <1>4, <2>1, <2>2 DEF PoolOwns, pool
<1>5. ASSUME SubsOwn PROVE SubsOwn'
  BY <1>1, <1>2, <1>5 DEF SubsOwn, subs
<1> QED BY <1>1, <1>2, <1>3, <1>4, <1>5 DEF IInv

LEMMA StepInv == IInv /\ [Next]_vars => IInv'
<1> SUFFICES ASSUME IInv, Next PROVE IInv' BY StutterInv
<1>1. CASE server = "reactor" /\ ReactorStep /\ UNCHANGED <<pool, subs, server>>
  BY <1>1, ReactorSteps DEF IInv
<1>2. CASE server = "pool" /\ PoolStep /\ UNCHANGED <<reactor, subs, server>>
  BY <1>2, PoolSteps DEF IInv
<1>3. CASE server = "subs" /\ SubsStep /\ UNCHANGED <<reactor, pool, server>>
  BY <1>3, SubsSteps DEF IInv
<1> QED BY <1>1, <1>2, <1>3, PeersInv, SurroundingsInv DEF Next, ServerStep

\* The parts of the invariant are what DescriptorsOwned asks of each server.
LEMMA InvOwns == IInv => DescriptorsOwned
<1> SUFFICES ASSUME IInv PROVE DescriptorsOwned OBVIOUS
<1>1. CASE server = "reactor"
  BY <1>1 DEF IInv, ReactorOwns, DescriptorsOwned
<1>2. CASE server = "subs"
  BY <1>2 DEF IInv, SubsOwn, DescriptorsOwned
<1>3. CASE server = "pool"
  <2> USE <1>3
  <2>1. PoolOwns BY DEF IInv
  <2>2. \A t, u \in Tasks : u.fd = t.fd => u = t
    <3> SUFFICES ASSUME NEW t \in Tasks, NEW u \in Tasks, u.fd = t.fd PROVE u = t
      OBVIOUS
    <3>1. CASE t \in UNION {working[w] : w \in PoolWorkers}
      BY <2>1, <3>1 DEF PoolOwns, Tasks
    <3>2. CASE t \in {tasks[k] : k \in DOMAIN tasks}
      BY <2>1, <3>2 DEF PoolOwns, Tasks
    <3> QED BY <3>1, <3>2 DEF Tasks
  <2> QED BY <2>1, <2>2 DEF PoolOwns, Carries, DescriptorsOwned
<1> QED BY <1>1, <1>2, <1>3 DEF IInv

\* In each of the three designs, with any number of connections, workers and
\* sub Reactors, every open descriptor is in exactly one hand (the reactor's
\* table, the epoll set, a task, a sub Reactor), and none is kept once closed.
THEOREM DescriptorsCorrect == Spec => []DescriptorsOwned
<1>1. Init => IInv BY InitInv
<1>2. IInv /\ [Next]_vars => IInv' BY StepInv
<1>3. IInv => DescriptorsOwned BY InvOwns
<1> QED BY <1>1, <1>2, <1>3, PTL DEF Spec

----------------------------------------------------------------------------
(* Requests in a stream *)

LEMMA Least ==
    ASSUME NEW T \in SUBSET Nat, T # {}
    PROVE  \E k \in T : \A m \in T : k <= m
<1> DEFINE less == {p \in Nat \X Nat : p[1] < p[2]}
<1>1. IsWellFoundedOn(less, Nat) BY NatLessThanWellFounded DEF OpToRel
<1>2. \E k \in T : \A m \in T : <<m, k>> \notin less
  <2> HIDE DEF less
  <2> QED BY <1>1, WFMin
<1>3. PICK k \in T : \A m \in T : <<m, k>> \notin less BY <1>2
<1>4. \A m \in T : ~(m < k)
  <2> SUFFICES ASSUME NEW m \in T, m < k PROVE FALSE OBVIOUS
  <2>1. <<m, k>> \in Nat \X Nat /\ <<m, k>>[1] < <<m, k>>[2] OBVIOUS
  <2>2. <<m, k>> \in less BY <2>1, Zenon
  <2> QED BY <1>3, <2>2
<1> QED BY <1>4

\* The ends of requests among the first k parts of a stream.
EndsTo(s, k) == {j \in Ends(s) : j <= k}
Count(s, k) == Cardinality(EndsTo(s, k))

\* The first n requests of a stream are its first k parts.
Cut(s, n, k) ==
    \/ n = 0 /\ k = 0
    \/ k \in Ends(s) /\ Count(s, k) = n

LEMMA EndsFinite ==
    ASSUME NEW s \in Seq(Part)
    PROVE  /\ Len(s) \in Nat /\ DOMAIN s = 1 .. Len(s)
           /\ Ends(s) \subseteq 1 .. Len(s) /\ IsFiniteSet(Ends(s))
           /\ Requests(s) \in Nat
           /\ \A k : EndsTo(s, k) \subseteq Ends(s)
           /\ \A k : IsFiniteSet(EndsTo(s, k)) /\ Count(s, k) \in Nat
                     /\ Count(s, k) <= Requests(s)
<1>1. Len(s) \in Nat /\ DOMAIN s = 1 .. Len(s) BY LenProperties
<1>2. Ends(s) \subseteq 1 .. Len(s) BY <1>1 DEF Ends
<1>3. IsFiniteSet(1 .. Len(s)) BY <1>1, FS_Interval
<1>4. IsFiniteSet(Ends(s)) BY <1>2, <1>3, FS_Subset
<1>5. \A k : EndsTo(s, k) \in SUBSET Ends(s) BY DEF EndsTo
<1>6. \A k : IsFiniteSet(EndsTo(s, k)) /\ Count(s, k) \in Nat /\ Count(s, k) <= Requests(s)
  BY <1>4, <1>5, FS_Subset, FS_CardinalityType DEF Count, Requests
<1> QED BY <1>1, <1>2, <1>4, <1>5, <1>6, FS_CardinalityType DEF Requests

LEMMA CountGrows ==
    ASSUME NEW s \in Seq(Part), NEW k \in Ends(s), NEW l \in 0 .. k - 1
    PROVE  Count(s, l) < Count(s, k)
<1>1. k \in Nat BY EndsFinite
<1>2. EndsTo(s, l) \in SUBSET EndsTo(s, k) BY <1>1, EndsFinite DEF EndsTo
<1>3. k \in EndsTo(s, k) /\ k \notin EndsTo(s, l) BY <1>1 DEF EndsTo
<1>4. IsFiniteSet(EndsTo(s, k)) /\ Count(s, k) \in Nat /\ Count(s, l) \in Nat BY EndsFinite
<1>5. Count(s, l) <= Count(s, k) /\ Count(s, l) # Count(s, k)
  BY <1>2, <1>3, <1>4, FS_Subset DEF Count
<1> QED BY <1>4, <1>5

LEMMA CutUnique ==
    ASSUME NEW s \in Seq(Part), NEW n \in Nat, NEW k, NEW l, Cut(s, n, k), Cut(s, n, l)
    PROVE  k = l
<1>1. \A a, b \in Ends(s) : a < b => Count(s, a) < Count(s, b)
  <2> SUFFICES ASSUME NEW a \in Ends(s), NEW b \in Ends(s), a < b
               PROVE  Count(s, a) < Count(s, b)
    OBVIOUS
  <2>1. a \in 0 .. b - 1 BY EndsFinite
  <2> QED BY <2>1, CountGrows
<1>2. \A a \in Ends(s) : 0 < Count(s, a)
  <2> SUFFICES ASSUME NEW a \in Ends(s) PROVE 0 < Count(s, a) OBVIOUS
  <2>1. 0 \in 0 .. a - 1 BY EndsFinite
  <2>2. Count(s, 0) < Count(s, a) BY <2>1, CountGrows
  <2> QED BY <2>2, EndsFinite
<1>3. \A a \in Ends(s) : a \in Nat /\ Count(s, a) \in Nat BY EndsFinite
<1>4. CASE k \in Ends(s) /\ l \in Ends(s) BY <1>1, <1>2, <1>3, <1>4 DEF Cut
<1>5. CASE k \notin Ends(s) \/ l \notin Ends(s) BY <1>2, <1>3, <1>5 DEF Cut
<1> QED BY <1>4, <1>5

LEMMA CutExists ==
    ASSUME NEW s \in Seq(Part), NEW n \in 0 .. Requests(s)
    PROVE  \E k \in 0 .. Len(s) : Cut(s, n, k)
<1>1. CASE n = 0
  <2>1. 0 \in 0 .. Len(s) /\ Cut(s, n, 0) BY <1>1, EndsFinite DEF Cut
  <2> QED BY <2>1
<1>2. CASE n # 0
  <2> DEFINE T == {k \in 0 .. Len(s) : n <= Count(s, k)}
  <2>1. EndsTo(s, Len(s)) = Ends(s) BY EndsFinite DEF EndsTo
  <2>2. Len(s) \in T BY <2>1, EndsFinite DEF Count, Requests
  <2>3. PICK k \in T : \A m \in T : k <= m
    <3>1. T \in SUBSET Nat /\ T # {} BY <2>2
    <3> HIDE DEF T
    <3> QED BY <3>1, Least
  <2>4. EndsTo(s, 0) = {} BY EndsFinite DEF EndsTo
  <2>5. k # 0 BY <1>2, <2>4, FS_EmptySet DEF Count
  <2>6. k - 1 \in 0 .. Len(s) /\ Count(s, k - 1) < n
    BY <2>3, <2>5, EndsFinite
  <2>7. CASE k \notin Ends(s)
    <3>1. EndsTo(s, k) = EndsTo(s, k - 1) BY <2>7, <2>5, EndsFinite DEF EndsTo
    <3> QED BY <2>3, <2>6, <3>1, EndsFinite DEF Count
  <2>8. CASE k \in Ends(s)
    <3>1. EndsTo(s, k) = EndsTo(s, k - 1) \union {k}
      BY <2>8, <2>5, EndsFinite DEF EndsTo
    <3>2. k \notin EndsTo(s, k - 1) BY <2>5 DEF EndsTo
    <3>3. Count(s, k) = Count(s, k - 1) + 1
      BY <3>1, <3>2, EndsFinite, FS_AddElement DEF Count
    <3>4. Count(s, k) = n BY <2>3, <2>6, <3>3, EndsFinite
    <3> QED BY <2>8, <3>4 DEF Cut
  <2> QED BY <2>7, <2>8
<1> QED BY <1>1, <1>2

LEMMA FromProperties ==
    ASSUME NEW s \in Seq(Part), NEW k \in 0 .. Len(s)
    PROVE  /\ From(s, k + 1) \in Seq(Part)
           /\ Len(From(s, k + 1)) = Len(s) - k
           /\ \A i \in 1 .. Len(s) - k : From(s, k + 1)[i] = s[k + i]
<1>1. Len(s) \in Nat BY EndsFinite
<1>2. k + 1 \in Int /\ Len(s) \in Int BY <1>1
<1>3. \A i \in k + 1 .. Len(s) : s[i] \in Part BY <1>1, ElementOfSeq
<1>4. /\ From(s, k + 1) \in Seq(Part)
      /\ Len(From(s, k + 1)) = IF k + 1 <= Len(s) THEN Len(s) - (k + 1) + 1 ELSE 0
      /\ \A i \in 1 .. Len(s) - (k + 1) + 1 : From(s, k + 1)[i] = s[k + 1 + i - 1]
  BY <1>2, <1>3, SubSeqProperties DEF From
<1>5. Len(From(s, k + 1)) = Len(s) - k BY <1>1, <1>4
<1>6. \A i \in 1 .. Len(s) - k : From(s, k + 1)[i] = s[k + i]
  <2> SUFFICES ASSUME NEW i \in 1 .. Len(s) - k PROVE From(s, k + 1)[i] = s[k + i]
    OBVIOUS
  <2>1. i \in 1 .. Len(s) - (k + 1) + 1 /\ k + 1 + i - 1 = k + i BY <1>1
  <2> QED BY <1>4, <2>1
<1> QED BY <1>4, <1>5, <1>6

LEMMA BehindCut ==
    ASSUME NEW s \in Seq(Part), NEW n \in Nat, NEW k \in 0 .. Len(s), Cut(s, n, k)
    PROVE  Behind(s, n) = From(s, k + 1) /\ n \in 0 .. Requests(s)
<1>1. n \in 0 .. Requests(s) BY EndsFinite DEF Cut
<1>2. CASE n = 0
  <2>1. Cut(s, n, 0) BY <1>2 DEF Cut
  <2>2. k = 0 BY <2>1, CutUnique
  <2>3. From(s, 0 + 1) = s BY SubSeqFull DEF From
  <2> QED BY <1>1, <1>2, <2>2, <2>3 DEF Behind
<1>3. CASE n # 0
  <2> DEFINE e == CHOOSE l \in Ends(s) : Count(s, l) = n
  <2>1. k \in Ends(s) /\ Count(s, k) = n BY <1>3 DEF Cut
  <2>2. e \in Ends(s) /\ Count(s, e) = n BY <2>1
  <2> HIDE DEF e
  <2>3. e = k BY <2>1, <2>2, CutUnique DEF Cut
  <2>4. Behind(s, n) = From(s, 1 + e) BY <1>3 DEF Behind, e, Count, EndsTo
  <2> QED BY <1>1, <2>3, <2>4
<1> QED BY <1>2, <1>3

LEMMA BehindType ==
    ASSUME NEW s \in Seq(Part), NEW n \in 0 .. Requests(s)
    PROVE  Behind(s, n) \in Seq(Part) /\ Behind(s, 0) = s
<1>1. n \in Nat /\ 0 \in 0 .. Requests(s) BY EndsFinite
<1>2. PICK k \in 0 .. Len(s) : Cut(s, n, k) BY CutExists
<1> QED BY <1>1, <1>2, BehindCut, FromProperties DEF Behind

\* What arrives behind a stream arrives behind what is left of it.
LEMMA BehindAppend ==
    ASSUME NEW s \in Seq(Part), NEW n \in 0 .. Requests(s), NEW part \in Part
    PROVE  /\ Behind(Append(s, part), n) = Append(Behind(s, n), part)
           /\ Requests(s) <= Requests(Append(s, part))
<1> DEFINE t == Append(s, part)
<1>0. n \in Nat BY EndsFinite
<1>1. /\ t \in Seq(Part) /\ Len(t) = Len(s) + 1 /\ Len(s) \in Nat
      /\ \A j \in 1 .. Len(s) : t[j] = s[j]
      /\ t[Len(s) + 1] = part
  BY AppendProperties, EndsFinite
<1> HIDE DEF t
<1>2. PICK k \in 0 .. Len(s) : Cut(s, n, k) BY CutExists
<1>3. DOMAIN t = 1 .. Len(t) /\ DOMAIN s = 1 .. Len(s) BY <1>1, EndsFinite
<1>4. \A j \in 1 .. Len(s) : j \in Ends(t) <=> j \in Ends(s)
  BY <1>1, <1>3 DEF Ends
<1>5. Ends(s) \subseteq Ends(t) /\ Ends(t) \subseteq 1 .. Len(t)
  BY <1>1, <1>4, EndsFinite
<1>6. EndsTo(t, k) = EndsTo(s, k) BY <1>1, <1>4, <1>5, EndsFinite DEF EndsTo
<1>7. Cut(t, n, k) BY <1>2, <1>5, <1>6 DEF Cut, Count
<1>8. k \in 0 .. Len(t) BY <1>1
<1>9. Behind(s, n) = From(s, k + 1) /\ Behind(t, n) = From(t, k + 1)
  BY <1>0, <1>1, <1>2, <1>7, <1>8, BehindCut
<1>10. From(t, k + 1) = Append(From(s, k + 1), part)
  <2> DEFINE r == From(s, k + 1)
  <2>1. /\ r \in Seq(Part) /\ Len(r) = Len(s) - k
        /\ \A i \in 1 .. Len(s) - k : r[i] = s[k + i]
    BY FromProperties
  <2> HIDE DEF r
  <2>2. /\ Append(r, part) \in Seq(Part) /\ Len(Append(r, part)) = Len(s) - k + 1
        /\ \A i \in 1 .. Len(r) : Append(r, part)[i] = r[i]
        /\ Append(r, part)[Len(r) + 1] = part
    BY <2>1, AppendProperties
  <2>3. /\ From(t, k + 1) \in Seq(Part) /\ Len(From(t, k + 1)) = Len(t) - k
        /\ \A i \in 1 .. Len(t) - k : From(t, k + 1)[i] = t[k + i]
    BY <1>1, <1>8, FromProperties
  <2>4. ASSUME NEW i \in 1 .. Len(t) - k
        PROVE  From(t, k + 1)[i] = Append(r, part)[i]
    <3>1. CASE i \in 1 .. Len(s) - k
      <4>1. k + i \in 1 .. Len(s) /\ i \in 1 .. Len(r) BY <1>1, <2>1, <3>1
      <4>2. Append(r, part)[i] = s[k + i] BY <2>1, <2>2, <3>1, <4>1
      <4>3. From(t, k + 1)[i] = s[k + i] BY <1>1, <2>3, <4>1
      <4> QED BY <4>2, <4>3
    <3>2. CASE i = Len(s) - k + 1
      <4>1. k + i = Len(s) + 1 /\ i = Len(r) + 1 BY <1>1, <2>1, <3>2
      <4> QED BY <1>1, <2>2, <2>3, <4>1
    <3>3. i \in 1 .. Len(s) - k \/ i = Len(s) - k + 1 BY <1>1
    <3> QED BY <3>1, <3>2, <3>3
  <2>5. Len(From(t, k + 1)) = Len(Append(r, part)) BY <1>1, <2>2, <2>3
  <2>6. From(t, k + 1) = Append(r, part) BY <2>2, <2>3, <2>4, <2>5, SeqEqual
  <2> QED BY <2>6 DEF r
<1>11. Requests(s) <= Requests(t)
  <2>1. IsFiniteSet(Ends(t)) BY <1>1, EndsFinite
  <2> QED BY <1>5, <2>1, FS_Subset DEF Requests
<1> QED BY <1>9, <1>10, <1>11 DEF t

\* Answering m requests of what is left behind n of them.
LEMMA BehindBehind ==
    ASSUME NEW s \in Seq(Part), NEW n \in 0 .. Requests(s),
           NEW m \in 0 .. Requests(Behind(s, n))
    PROVE  n + m \in 0 .. Requests(s) /\ Behind(s, n + m) = Behind(Behind(s, n), m)
<1>0. n \in Nat BY EndsFinite
<1>1. PICK k \in 0 .. Len(s) : Cut(s, n, k) BY CutExists
<1>2. PICK r : r = Behind(s, n) OBVIOUS
<1>3. r = From(s, k + 1) BY <1>0, <1>1, <1>2, BehindCut
<1>4. /\ r \in Seq(Part) /\ Len(r) = Len(s) - k /\ Len(s) \in Nat
      /\ \A i \in 1 .. Len(s) - k : r[i] = s[k + i]
  BY <1>3, FromProperties, EndsFinite
<1>5. m \in 0 .. Requests(r) /\ m \in Nat BY <1>2, <1>4, EndsFinite
<1>6. PICK l \in 0 .. Len(r) : Cut(r, m, l) BY <1>4, <1>5, CutExists
<1>7. k + l \in 0 .. Len(s) /\ k \in Nat /\ l \in Nat BY <1>4, <1>6
<1>8. \A i \in 1 .. Len(r) : k + i \in Ends(s) <=> i \in Ends(r)
  <2>1. DOMAIN r = 1 .. Len(r) /\ DOMAIN s = 1 .. Len(s) BY <1>4, EndsFinite
  <2>2. \A i \in 1 .. Len(r) : k + i \in 1 .. Len(s) /\ r[i] = s[k + i] BY <1>4, <1>7
  <2> QED BY <2>1, <2>2 DEF Ends
<1>9. Cut(s, n + m, k + l)
  <2>1. CASE l = 0
    <3>1. m = 0
      <4>1. Cut(r, m, 0) BY <1>6, <2>1
      <4>2. 0 \notin Ends(r) BY <1>4, EndsFinite
      <4> QED BY <4>1, <4>2 DEF Cut
    <3> QED BY <1>0, <1>1, <1>7, <2>1, <3>1
  <2>2. CASE l # 0
    <3>1. l \in Ends(r) /\ Count(r, l) = m BY <1>6, <2>2 DEF Cut
    <3>2. k + l \in Ends(s) BY <1>4, <1>8, <3>1, EndsFinite
    <3> DEFINE A == EndsTo(s, k)
               B == EndsTo(r, l)
               C == {j \in EndsTo(s, k + l) : k < j}
    <3>3. IsFiniteSet(A) /\ IsFiniteSet(B) BY <1>4, EndsFinite
    <3>4. Cardinality(A) = n
      <4>1. CASE k \in Ends(s) BY <1>1, <4>1, CutUnique, EndsFinite DEF Cut, Count
      <4>2. CASE k \notin Ends(s)
        <5>1. k = 0 /\ n = 0 BY <1>1, <4>2 DEF Cut
        <5>2. A = {} BY <5>1, EndsFinite DEF EndsTo
        <5> QED BY <5>1, <5>2, FS_EmptySet
      <4> QED BY <4>1, <4>2
    <3>5. IsFiniteSet(C) /\ Cardinality(C) = m
      <4> DEFINE f == [i \in B |-> k + i]
      <4>1. B \subseteq 1 .. Len(r) /\ \A i \in B : i <= l
        BY <1>4, EndsFinite DEF EndsTo
      <4>2. \A i \in B : k + i \in C
        BY <1>4, <1>7, <1>8, <4>1 DEF EndsTo
      <4>3. \A j \in C : j - k \in B /\ k + (j - k) = j
        <5> SUFFICES ASSUME NEW j \in C PROVE j - k \in B /\ k + (j - k) = j OBVIOUS
        <5>1. j \in Ends(s) /\ j <= k + l /\ k < j /\ j \in 1 .. Len(s)
          BY EndsFinite DEF EndsTo
        <5>2. j - k \in 1 .. Len(r) /\ j - k <= l /\ k + (j - k) = j
          BY <1>4, <1>7, <5>1
        <5>3. j - k \in Ends(r) BY <1>8, <5>1, <5>2
        <5> QED BY <5>2, <5>3 DEF EndsTo
      <4>4. f \in Bijection(B, C)
        <5>1. f \in [B -> C] BY <4>2
        <5>2. \A i, j \in B : f[i] = f[j] => i = j BY <1>7, <4>1
        <5>3. \A j \in C : \E i \in B : f[i] = j BY <4>3
        <5> HIDE DEF f, B, C
        <5> QED BY <5>1, <5>2, <5>3 DEF Bijection, Injection, Surjection, IsInjective
      <4>5. ExistsBijection(B, C) BY <4>4 DEF ExistsBijection
      <4> HIDE DEF B, C
      <4>6. IsFiniteSet(C) /\ Cardinality(C) = Cardinality(B)
        BY <3>3, <4>5, FS_Bijection
      <4> QED BY <3>1, <4>6 DEF Count, B
    <3>6. EndsTo(s, k + l) = A \union C /\ A \intersect C = {}
      BY <1>7, EndsFinite DEF EndsTo
    <3> HIDE DEF A, B, C
    <3>7. Cardinality(A \union C) = n + m
      <4>1. Cardinality(A \intersect C) = 0 BY <3>6, FS_EmptySet
      <4>2. Cardinality(A \union C)
              = Cardinality(A) + Cardinality(C) - Cardinality(A \intersect C)
        BY <3>3, <3>5, FS_Union
      <4> QED BY <1>0, <1>5, <3>4, <3>5, <4>1, <4>2
    <3> QED BY <3>2, <3>6, <3>7 DEF Cut, Count
  <2> QED BY <2>1, <2>2
<1>10. n + m \in Nat BY <1>0, <1>5
<1>11. Behind(s, n + m) = From(s, k + l + 1) /\ n + m \in 0 .. Requests(s)
  BY <1>7, <1>9, <1>10, BehindCut
<1>12. Behind(r, m) = From(r, l + 1) BY <1>4, <1>5, <1>6, BehindCut
<1>13. From(r, l + 1) = From(s, k + l + 1)
  <2>1. /\ From(r, l + 1) \in Seq(Part) /\ Len(From(r, l + 1)) = Len(r) - l
        /\ \A i \in 1 .. Len(r) - l : From(r, l + 1)[i] = r[l + i]
    BY <1>4, <1>6, FromProperties
  <2>2. /\ From(s, k + l + 1) \in Seq(Part)
        /\ Len(From(s, k + l + 1)) = Len(s) - (k + l)
        /\ \A i \in 1 .. Len(s) - (k + l) : From(s, k + l + 1)[i] = s[k + l + i]
    BY <1>7, FromProperties
  <2>3. \A i \in 1 .. Len(r) - l : r[l + i] = s[k + l + i]
    <3> SUFFICES ASSUME NEW i \in 1 .. Len(r) - l PROVE r[l + i] = s[k + l + i] OBVIOUS
    <3>1. l + i \in 1 .. Len(s) - k /\ k + (l + i) = k + l + i BY <1>4, <1>7
    <3>2. r[l + i] = s[k + (l + i)] BY <1>4, <3>1
    <3> QED BY <3>1, <3>2
  <2>4. Len(r) - l = Len(s) - (k + l) BY <1>4, <1>7
  <2>5. \A i \in 1 .. Len(r) - l : From(r, l + 1)[i] = From(s, k + l + 1)[i]
    BY <2>1, <2>2, <2>3, <2>4
  <2>6. \A i \in 1 .. Len(From(r, l + 1)) : From(r, l + 1)[i] = From(s, k + l + 1)[i]
    BY <2>1, <2>5
  <2>7. Len(From(r, l + 1)) = Len(From(s, k + l + 1)) BY <2>1, <2>2, <2>4
  <2> QED BY <2>1, <2>2, <2>6, <2>7, SeqEqual
<1> QED BY <1>2, <1>11, <1>12, <1>13

\* A first piece of a stream.
LEMMA FirstPiece ==
    ASSUME NEW s \in Seq(Part), NEW n \in 0 .. Len(s)
    PROVE  /\ SubSeq(s, 1, n) \in Seq(Part)
           /\ Requests(SubSeq(s, 1, n)) \in 0 .. Requests(s)
           /\ SubSeq(s, 1, n) \o From(s, n + 1) = s
<1> DEFINE t == SubSeq(s, 1, n)
<1>1. Len(s) \in Nat /\ DOMAIN s = 1 .. Len(s) /\ IsFiniteSet(Ends(s)) BY EndsFinite
<1>2. \A i \in 1 .. n : s[i] \in Part BY <1>1, ElementOfSeq
<1>3. t \in Seq(Part) /\ Len(t) = n /\ \A i \in 1 .. n : t[i] = s[i]
  <2>1. /\ t \in Seq(Part)
        /\ Len(t) = IF 1 <= n THEN n - 1 + 1 ELSE 0
        /\ \A i \in 1 .. n - 1 + 1 : t[i] = s[1 + i - 1]
    BY <1>1, <1>2, SubSeqProperties
  <2> HIDE DEF t
  <2>2. Len(t) = n BY <2>1
  <2>3. \A i \in 1 .. n : t[i] = s[i]
    <3> SUFFICES ASSUME NEW i \in 1 .. n PROVE t[i] = s[i] OBVIOUS
    <3>1. i \in 1 .. n - 1 + 1 /\ 1 + i - 1 = i OBVIOUS
    <3> QED BY <2>1, <3>1
  <2> QED BY <2>1, <2>2, <2>3
<1> HIDE DEF t
<1>4. DOMAIN t = 1 .. n BY <1>3, EndsFinite
<1>5. Ends(t) \in SUBSET Ends(s) BY <1>1, <1>3, <1>4 DEF Ends
<1>6. Requests(t) <= Requests(s) BY <1>1, <1>5, FS_Subset DEF Requests
<1>7. Requests(t) \in Nat /\ Requests(s) \in Nat BY <1>3, EndsFinite
<1>8. t \o From(s, n + 1) = s
  <2>1. 1 \in 1 .. Len(s) + 1 /\ n \in 1 - 1 .. Len(s) /\ Len(s) \in n .. Len(s) BY <1>1
  <2>2. SubSeq(s, 1, n) \o SubSeq(s, n + 1, Len(s)) = SubSeq(s, 1, Len(s))
    BY <2>1, ConcatAdjacentSubSeq
  <2> QED BY <2>2, SubSeqFull DEF t, From
<1> QED BY <1>3, <1>6, <1>7, <1>8 DEF t

\* What the loops that cut requests out of a buffer do with it.
LEMMA AnswersBounded ==
    ASSUME NEW s \in Seq(Part)
    PROVE  /\ Answer(s).answers \in 0 .. Requests(s)
           /\ Answer(s).rest = Behind(s, Answer(s).answers)
           /\ \A b \in BOOLEAN : /\ AnswerAll(s, b).answers \in 0 .. Requests(s)
                                 /\ AnswerAll(s, b).rest = Behind(s, AnswerAll(s, b).answers)
<1>1. Requests(s) \in Nat /\ DOMAIN s = 1 .. Len(s) /\ Len(s) \in Nat BY EndsFinite
<1>2. Answer(s).answers \in 0 .. Requests(s)
  <2>1. CASE AskedEnds(s) = {} BY <1>1, <2>1 DEF Answer, Due
  <2>2. CASE AskedEnds(s) # {}
    <3>1. PICK cs \in SUBSET Nat : cs = AskedEnds(s)
      <4>1. AskedEnds(s) \subseteq Nat BY <1>1 DEF AskedEnds
      <4> QED BY <4>1
    <3>2. \E k \in cs : \A m \in cs : k <= m BY <2>2, <3>1, Least
    <3>3. Min(cs) \in cs BY <3>2 DEF Min
    <3>4. Min(cs) \in 0 .. Len(s) BY <1>1, <3>1, <3>3 DEF AskedEnds
    <3>5. Requests(SubSeq(s, 1, Min(cs))) \in 0 .. Requests(s) BY <3>4, FirstPiece
    <3> QED BY <2>2, <3>1, <3>5 DEF Answer, Due
  <2> QED BY <2>1, <2>2
<1>3. Answer(s).rest = Behind(s, Answer(s).answers) BY DEF Answer
<1>4. ASSUME NEW b \in BOOLEAN
      PROVE  /\ AnswerAll(s, b).answers \in 0 .. Requests(s)
             /\ AnswerAll(s, b).rest = Behind(s, AnswerAll(s, b).answers)
  <2>1. CASE Requests(s) > 0 /\ (b \/ AskedEnds(s) # {})
    BY <1>1, <2>1 DEF AnswerAll
  <2>2. CASE ~(Requests(s) > 0 /\ (b \/ AskedEnds(s) # {}))
    BY <1>1, <2>2 DEF AnswerAll
  <2> QED BY <2>1, <2>2
<1> QED BY <1>2, <1>3, <1>4

----------------------------------------------------------------------------
(* Requests and their answers *)

\* Nothing has been answered, or read, before a connection is accepted.
Streams ==
    /\ sent \in [Conn -> Seq(Part)]
    /\ answered \in [Conn -> Nat]
    /\ \A c \in Conn : answered[c] \in 0 .. Requests(sent[c])
    /\ \A c \in Conn :
          state[c] \in {"none", "pending"} => answered[c] = 0 /\ unread[c] = sent[c]

\* With what is held of it, nothing of connection c is lost or twice there.
Whole(c, held) == held \in Seq(Part) /\ held \o unread[c] = Behind(sent[c], answered[c])

ReactorStreams ==
    /\ \A fd \in Table : conns[fd] \in Seq(Part)
    /\ ~crashed => \A c \in Open : Whole(c, Input(fdOf[c]))

PoolStreams ==
    /\ \A c \in Open : answered[c] = 0 /\ (fdOf[c] \in watched => unread[c] = sent[c])
    /\ \A t \in Tasks : t.data \o unread[t.conn] = sent[t.conn]

SubsStreams ==
    /\ \A i \in Sub : \A fd \in DOMAIN buffers[i] : buffers[i][fd] \in Seq(Part)
    /\ \A i \in Sub, c \in Open : fdOf[c] \in epfd[i] => Whole(c, Content(i, fdOf[c]))

\* The inductive invariant, on top of the one for the descriptors.
AInv ==
    /\ Streams
    /\ server = "reactor" => ReactorStreams
    /\ server = "pool" => PoolStreams
    /\ server = "subs" => SubsStreams

LEMMA AnswersInit == Init => AInv
<1> SUFFICES ASSUME Init PROVE AInv OBVIOUS
<1>1. Open = {} BY DEF Init, ClientsInit, Open
<1>2. Streams
  <2>1. <<>> \in Seq(Part) /\ Requests(<<>>) \in Nat BY EmptySeq, EndsFinite
  <2>2. /\ \A c \in Conn : sent[c] = <<>> /\ unread[c] = <<>> /\ answered[c] = 0
        /\ sent \in [Conn -> Seq(Part)] /\ answered \in [Conn -> Nat]
    BY <2>1 DEF Init, ClientsInit
  <2>3. 0 \in 0 .. Requests(<<>>) BY <2>1
  <2> QED BY <2>2, <2>3 DEF Streams
<1>3. ReactorStreams BY <1>1 DEF Init, ReactorInit, ReactorStreams, Table
<1>4. PoolStreams
  <2>1. DOMAIN tasks = {} /\ \A w \in PoolWorkers : working[w] = {}
    BY DEF Init, PoolInit
  <2> QED BY <1>1, <2>1 DEF Tasks, PoolStreams
<1>5. SubsStreams BY <1>1 DEF Init, SubsInit, SubsStreams
<1> QED BY <1>2, <1>3, <1>4, <1>5 DEF AInv

\* A new connection has all of its stream in the kernel.
LEMMA NewWhole ==
    ASSUME Sockets, Streams, NEW c \in Conn, state[c] \in {"none", "pending"}
    PROVE  <<>> \in Seq(Part) /\ <<>> \o unread[c] = Behind(sent[c], 0)
<1>1. sent[c] \in Seq(Part) /\ 0 \in 0 .. Requests(sent[c])
  BY EndsFinite DEF Streams
<1>2. unread[c] = sent[c] BY DEF Streams
<1> QED BY <1>1, <1>2, BehindType, ConcatEmptySeq, EmptySeq

\* What the peers do leaves every stream whole.
LEMMA PeersStreams ==
    ASSUME Sockets, Streams, NEW c \in Conn,
           \/ PeerConnects(c)
           \/ \E part \in Part : PeerSends(c, part)
           \/ PeerEnds(c)
    PROVE  /\ Streams' /\ answered' = answered
           /\ \A d \in Conn : unread[d] = sent[d] => unread'[d] = sent'[d]
           /\ \A held \in Seq(Part), d \in Conn :
                 /\ Whole(d, held) => Whole(d, held)'
                 /\ held \o unread[d] = sent[d] => held \o unread'[d] = sent'[d]
<1>1. CASE PeerConnects(c) \/ PeerEnds(c)
  <2>1. UNCHANGED <<sent, unread, answered>> BY <1>1 DEF PeerConnects, PeerEnds
  <2>2. \A d \in Conn : state'[d] \in {"none", "pending"} => state[d] \in {"none", "pending"}
    BY <1>1 DEF PeerConnects, PeerEnds, Sockets
  <2> QED BY <2>1, <2>2 DEF Streams, Whole
<1>2. ASSUME NEW part \in Part, PeerSends(c, part)
      PROVE  /\ Streams' /\ answered' = answered
             /\ \A d \in Conn : unread[d] = sent[d] => unread'[d] = sent'[d]
             /\ \A held \in Seq(Part), d \in Conn :
                   /\ Whole(d, held) => Whole(d, held)'
                   /\ held \o unread[d] = sent[d] => held \o unread'[d] = sent'[d]
  <2>1. /\ sent' = [sent EXCEPT ![c] = Append(@, part)]
        /\ unread' = [unread EXCEPT ![c] = Append(@, part)]
        /\ UNCHANGED <<state, answered>>
    BY <1>2 DEF PeerSends
  <2>2. /\ \A d \in Conn : sent[d] \in Seq(Part) /\ unread[d] \in Seq(Part)
        /\ sent \in [Conn -> Seq(Part)] /\ unread \in [Conn -> Seq(Part)]
    BY DEF Streams, Sockets
  <2>3. /\ sent'[c] = Append(sent[c], part) /\ unread'[c] = Append(unread[c], part)
        /\ \A d \in Conn \ {c} : sent'[d] = sent[d] /\ unread'[d] = unread[d]
    BY <2>1, <2>2
  <2>4. sent' \in [Conn -> Seq(Part)]
    <3>1. Append(sent[c], part) \in Seq(Part) BY <2>2, AppendProperties
    <3> QED BY <2>1, <2>2, <3>1
  <2>5. answered[c] \in 0 .. Requests(sent[c]) BY DEF Streams
  <2>6. /\ Behind(Append(sent[c], part), answered[c])
             = Append(Behind(sent[c], answered[c]), part)
        /\ Requests(sent[c]) <= Requests(Append(sent[c], part))
    BY <2>2, <2>5, BehindAppend
  <2>7. answered'[c] \in 0 .. Requests(sent'[c])
    <3>1. Append(sent[c], part) \in Seq(Part) BY <2>2, AppendProperties
    <3>2. Requests(sent[c]) \in Nat /\ Requests(Append(sent[c], part)) \in Nat
      BY <2>2, <3>1, EndsFinite
    <3> QED BY <2>1, <2>3, <2>5, <2>6, <3>2
  <2>8. Streams' BY <2>1, <2>3, <2>4, <2>7 DEF Streams
  <2>9. \A held \in Seq(Part) : held \o Append(unread[c], part) = Append(held \o unread[c], part)
    <3> SUFFICES ASSUME NEW held \in Seq(Part)
                 PROVE  held \o Append(unread[c], part) = Append(held \o unread[c], part)
      OBVIOUS
    <3>1. <<part>> \in Seq(Part) /\ held \o unread[c] \in Seq(Part)
      BY <2>2, ConcatProperties
    <3>2. Append(unread[c], part) = unread[c] \o <<part>> BY <2>2, AppendIsConcat
    <3>3. Append(held \o unread[c], part) = (held \o unread[c]) \o <<part>>
      BY <3>1, AppendIsConcat
    <3> QED BY <2>2, <3>1, <3>2, <3>3, ConcatAssociative
  <2>10. \A held \in Seq(Part), d \in Conn : Whole(d, held) => Whole(d, held)'
    <3> SUFFICES ASSUME NEW held \in Seq(Part), NEW d \in Conn, Whole(d, held)
                 PROVE  Whole(d, held)'
      OBVIOUS
    <3>1. CASE d = c BY <2>1, <2>3, <2>6, <2>9, <3>1 DEF Whole
    <3>2. CASE d # c BY <2>1, <2>3, <3>2 DEF Whole
    <3> QED BY <3>1, <3>2
  <2>11. \A held \in Seq(Part), d \in Conn :
            held \o unread[d] = sent[d] => held \o unread'[d] = sent'[d]
    <3> SUFFICES ASSUME NEW held \in Seq(Part), NEW d \in Conn,
                        held \o unread[d] = sent[d]
                 PROVE  held \o unread'[d] = sent'[d]
      OBVIOUS
    <3>1. CASE d = c BY <2>3, <2>9, <3>1
    <3>2. CASE d # c BY <2>3, <3>2
    <3> QED BY <3>1, <3>2
  <2>12. \A d \in Conn : unread[d] = sent[d] => unread'[d] = sent'[d] BY <2>3
  <2> QED BY <2>1, <2>8, <2>10, <2>11, <2>12
<1> QED BY <1>1, <1>2

\* Reading, answering and closing one connection leaves the others alone.
LEMMA ServeStreams ==
    ASSUME Sockets, Streams, NEW c \in Conn, state[c] = "open",
           NEW n \in 0 .. Len(unread[c]), NEW answers \in Nat, NEW close \in BOOLEAN,
           answered[c] + answers \in 0 .. Requests(sent[c]),
           Serve(c, n, answers, close)
    PROVE  /\ Streams' /\ sent' = sent
           /\ answered'[c] = answered[c] + answers
           /\ ~close => unread'[c] = From(unread[c], n + 1)
           /\ Open' = IF close THEN Open \ {c} ELSE Open
           /\ \A d \in Conn \ {c} : /\ unread'[d] = unread[d] /\ answered'[d] = answered[d]
                                    /\ fdOf'[d] = fdOf[d]
<1>1. /\ unread' = [unread EXCEPT ![c] = From(@, n + 1)]
      /\ answered' = [answered EXCEPT ![c] = @ + answers]
      /\ state' = IF close THEN [state EXCEPT ![c] = "closed"] ELSE state
      /\ fdOf' = IF close THEN [fdOf EXCEPT ![c] = 0] ELSE fdOf
      /\ sent' = sent
  BY DEF Serve
<1>2. /\ unread'[c] = From(unread[c], n + 1)
      /\ answered'[c] = answered[c] + answers
      /\ \A d \in Conn \ {c} : /\ unread'[d] = unread[d] /\ answered'[d] = answered[d]
                               /\ fdOf'[d] = fdOf[d] /\ state'[d] = state[d]
      /\ state'[c] \in {"open", "closed"}
      /\ state'[c] = "closed" <=> close
  BY <1>1 DEF Sockets, Streams
<1>3. answered' \in [Conn -> Nat] BY <1>1 DEF Streams
<1>4. Streams' BY <1>1, <1>2, <1>3 DEF Streams
<1>5. Open' = IF close THEN Open \ {c} ELSE Open BY <1>2 DEF Open
<1> QED BY <1>1, <1>2, <1>4, <1>5

\* What the loops make of a whole stream is a whole stream.
LEMMA WholeRead ==
    ASSUME Sockets, Streams, NEW c \in Conn, NEW held, Whole(c, held),
           NEW a, \/ a = Answer(held \o unread[c])
                  \/ \E b \in BOOLEAN : a = AnswerAll(held \o unread[c], b)
    PROVE  /\ a.answers \in Nat
           /\ answered[c] + a.answers \in 0 .. Requests(sent[c])
           /\ a.rest \in Seq(Part)
           /\ a.rest \o <<>> = Behind(sent[c], answered[c] + a.answers)
<1>1. /\ sent[c] \in Seq(Part) /\ unread[c] \in Seq(Part) /\ held \in Seq(Part)
      /\ answered[c] \in 0 .. Requests(sent[c])
  BY DEF Sockets, Streams, Whole
<1>2. PICK r : r = held \o unread[c] OBVIOUS
<1>3. r \in Seq(Part) /\ r = Behind(sent[c], answered[c])
  BY <1>1, <1>2, ConcatProperties DEF Whole
<1>4. a.answers \in 0 .. Requests(r) /\ a.rest = Behind(r, a.answers)
  BY <1>2, <1>3, AnswersBounded
<1>5. a.rest \in Seq(Part) BY <1>3, <1>4, BehindType
<1>6. /\ answered[c] + a.answers \in 0 .. Requests(sent[c])
      /\ Behind(sent[c], answered[c] + a.answers) = a.rest
  BY <1>1, <1>3, <1>4, BehindBehind
<1>7. a.answers \in Nat BY <1>3, <1>4, EndsFinite
<1> QED BY <1>5, <1>6, <1>7, ConcatEmptySeq

\* Reading all there is.
LEMMA FromEnd ==
    ASSUME NEW s \in Seq(Part)
    PROVE  Len(s) \in 0 .. Len(s) /\ From(s, Len(s) + 1) = <<>>
<1>1. Len(s) \in Nat BY EndsFinite
<1>2. From(s, Len(s) + 1) = <<>> BY <1>1, SubSeqEmpty DEF From
<1> QED BY <1>1, <1>2

\* accept() of every pending connection.
LEMMA AcceptStreams ==
    ASSUME Sockets, Streams, NEW new \in NewFds, AcceptAll(new)
    PROVE  /\ Streams' /\ Open' = Open \union Pending
           /\ UNCHANGED <<sent, unread, answered>>
           /\ \A c \in Open : fdOf'[c] = fdOf[c]
           /\ \A c \in Pending : fdOf'[c] \in Range(new)
<1>1. /\ state' = [c \in Conn |-> IF c \in Pending THEN "open" ELSE state[c]]
      /\ fdOf' = [c \in Conn |-> IF c \in Pending THEN new[c] ELSE fdOf[c]]
      /\ UNCHANGED <<sent, unread, answered>>
  BY DEF AcceptAll
<1>2. Streams' BY <1>1 DEF Streams
<1>3. Open' = Open \union Pending BY <1>1 DEF Open, Pending
<1>4. \A c \in Open : fdOf'[c] = fdOf[c] BY <1>1 DEF Open, Pending
<1>5. DOMAIN new = Pending BY DEF NewFds
<1>6. \A c \in Pending : fdOf'[c] \in Range(new) BY <1>1, <1>5 DEF Pending, Range
<1> QED BY <1>1, <1>2, <1>3, <1>4, <1>6

LEMMA StreamsStay ==
    ASSUME UNCHANGED sockets
    PROVE  /\ Streams => Streams'
           /\ Open' = Open /\ UNCHANGED <<fdOf, sent, unread, answered>>
           /\ \A c, held : Whole(c, held) => Whole(c, held)'
BY DEF sockets, Streams, Open, Whole

LEMMA ReactorAnswers ==
    ASSUME Sockets, ReactorOwns, Streams, ReactorStreams, ReactorStep
    PROVE  Streams' /\ ReactorStreams'
<1>0. /\ \A fd \in Table : conns[fd] \in Seq(Part)
      /\ <<>> \in Seq(Part)
      /\ \A fd : Input(fd) \in Seq(Part)
  BY EmptySeq DEF ReactorStreams, Input
<1>1. CASE Poll \/ handle_wakeup
  <2>1. UNCHANGED sockets /\ UNCHANGED <<conns, crashed>>
    BY <1>1 DEF Poll, handle_wakeup
  <2>2. \A fd : Input(fd)' = Input(fd) BY <2>1 DEF Input, Table
  <2> QED BY <2>1, <2>2, StreamsStay DEF ReactorStreams, Table
<1>2. CASE handle_accept
  <2>1. PICK new \in NewFds :
          /\ AcceptAll(new)
          /\ conns' = [fd \in Table \union Range(new) |->
                         IF fd \in Range(new) /\ ~flow THEN <<>> ELSE Input(fd)]
    BY <1>2 DEF handle_accept
  <2>2. ~crashed /\ crashed' = crashed BY <1>2 DEF handle_accept, Dispatch
  <2>3. Range(new) \subseteq Fds \ Used BY <2>1, AcceptKeeps
  <2>4. /\ Streams' /\ Open' = Open \union Pending
        /\ UNCHANGED <<sent, unread, answered>>
        /\ \A c \in Open : fdOf'[c] = fdOf[c]
        /\ \A c \in Pending : fdOf'[c] \in Range(new)
    BY <2>1, AcceptStreams
  <2>5. Table = Used BY <2>2 DEF ReactorOwns
  <2>6. Table' = Table \union Range(new) BY <2>1 DEF Table
  <2>7. \A fd \in Table' : conns'[fd] \in Seq(Part) BY <1>0, <2>1, <2>6
  <2>8. \A c \in Open : Whole(c, Input(fdOf[c]))'
    <3> SUFFICES ASSUME NEW c \in Open PROVE Whole(c, Input(fdOf[c]))' OBVIOUS
    <3>1. fdOf[c] \in Table /\ fdOf[c] \notin Range(new) BY <2>3, <2>5 DEF Used
    <3>2. conns'[fdOf[c]] = conns[fdOf[c]] BY <2>1, <3>1 DEF Input
    <3>3. Input(fdOf[c])' = Input(fdOf[c]) BY <2>4, <2>6, <3>1, <3>2 DEF Input
    <3>4. Whole(c, Input(fdOf[c])) BY <2>2 DEF ReactorStreams
    <3> QED BY <2>4, <3>3, <3>4 DEF Whole
  <2>9. \A c \in Pending : Whole(c, Input(fdOf[c]))'
    <3> SUFFICES ASSUME NEW c \in Pending PROVE Whole(c, Input(fdOf[c]))' OBVIOUS
    <3>1. PICK fd \in Range(new) : fdOf'[c] = fd BY <2>4
    <3>2. fd \notin Table BY <2>3, <2>5
    <3>3. conns'[fd] = <<>> /\ fd \in Table' BY <2>1, <2>6, <3>2 DEF Input
    <3>4. Input(fdOf[c])' = <<>> BY <3>1, <3>3 DEF Input
    <3>5. c \in Conn /\ state[c] = "pending" BY DEF Pending
    <3>6. answered[c] = 0 BY <3>5 DEF Streams
    <3> QED BY <2>4, <3>4, <3>5, <3>6, NewWhole DEF Whole
  <2> QED BY <2>4, <2>7, <2>8, <2>9 DEF ReactorStreams
<1>3. ASSUME NEW fd \in Fds, handle_read(fd) PROVE Streams' /\ ReactorStreams'
  <2>0. PICK c : c = ConnAt(fd) OBVIOUS
  <2> DEFINE a == Answer(Input(fd) \o unread[c])
             close == IF a.close \/ fin[c] THEN TRUE ELSE FALSE
  <2>1. /\ IsOpen(fd) /\ ~crashed /\ crashed' = crashed
        /\ Serve(c, Len(unread[c]), a.answers, close)
        /\ conns' = IF close THEN Without({fd})
                    ELSE [d \in Table \union {fd} |-> IF d = fd THEN a.rest ELSE conns[d]]
    BY <1>3, <2>0 DEF handle_read, Dispatch, Serve
  <2>2. fd \in Used /\ Table = Used BY <2>1, UsedFd DEF ReactorOwns
  <2>3. c \in Conn /\ state[c] = "open" /\ fdOf[c] = fd /\ c \in Open
    BY <2>0, <2>2, TheConnAt DEF Open
  <2>4. close \in BOOLEAN OBVIOUS
  <2>5. PICK held : held = Input(fd) OBVIOUS
  <2>6. Whole(c, held) BY <2>1, <2>3, <2>5 DEF ReactorStreams
  <2>7. a = Answer(held \o unread[c]) BY <2>5
  <2> HIDE DEF a, close
  <2>8. /\ a.answers \in Nat
        /\ answered[c] + a.answers \in 0 .. Requests(sent[c])
        /\ a.rest \in Seq(Part)
        /\ a.rest \o <<>> = Behind(sent[c], answered[c] + a.answers)
    BY <2>3, <2>6, <2>7, WholeRead
  <2>9. /\ Len(unread[c]) \in 0 .. Len(unread[c])
        /\ From(unread[c], Len(unread[c]) + 1) = <<>>
    <3>1. unread[c] \in Seq(Part) BY <2>3 DEF Sockets
    <3> QED BY <3>1, FromEnd
  <2>10. /\ Streams' /\ sent' = sent
         /\ answered'[c] = answered[c] + a.answers
         /\ ~close => unread'[c] = <<>>
         /\ Open' = IF close THEN Open \ {c} ELSE Open
         /\ \A d \in Conn \ {c} : /\ unread'[d] = unread[d] /\ answered'[d] = answered[d]
                                  /\ fdOf'[d] = fdOf[d]
    BY <2>1, <2>3, <2>4, <2>8, <2>9, ServeStreams
  <2>11. \A d \in Open \ {c} : fdOf[d] # fd /\ fdOf[d] \in Table /\ d \in Conn
    BY <2>2, <2>3 DEF Open, Used, Sockets
  <2>12. \A d \in Open \ {c} : Whole(d, Input(fdOf[d]))'
    <3> SUFFICES ASSUME NEW d \in Open \ {c} PROVE Whole(d, Input(fdOf[d]))' OBVIOUS
    <3>1. fdOf'[d] = fdOf[d] /\ unread'[d] = unread[d] /\ answered'[d] = answered[d]
      BY <2>10, <2>11
    <3>2. fdOf[d] \in Table' /\ conns'[fdOf[d]] = conns[fdOf[d]]
      <4>1. CASE close BY <2>1, <2>11, <4>1 DEF Table, Without
      <4>2. CASE ~close BY <2>1, <2>11, <4>2 DEF Table
      <4> QED BY <4>1, <4>2
    <3>3. Input(fdOf[d])' = Input(fdOf[d]) BY <2>11, <3>1, <3>2 DEF Input
    <3>4. Whole(d, Input(fdOf[d])) BY <2>1 DEF ReactorStreams
    <3> QED BY <2>10, <3>1, <3>3, <3>4 DEF Whole
  <2>13. CASE close
    <3>1. \A d \in Table' : conns'[d] \in Seq(Part)
      BY <1>0, <2>1, <2>13 DEF Table, Without
    <3> QED BY <2>10, <2>12, <2>13, <3>1 DEF ReactorStreams
  <2>14. CASE ~close
    <3>1. /\ Table' = Table \union {fd} /\ conns'[fd] = a.rest
          /\ \A d \in Table \ {fd} : conns'[d] = conns[d]
      BY <2>1, <2>14 DEF Table
    <3>2. \A d \in Table' : conns'[d] \in Seq(Part) BY <1>0, <2>8, <3>1
    <3>3. fdOf'[c] = fd BY <2>1, <2>3, <2>14 DEF Serve
    <3>4. Input(fdOf[c])' = a.rest BY <3>1, <3>3 DEF Input
    <3>5. Whole(c, Input(fdOf[c]))' BY <2>8, <2>10, <2>14, <3>4 DEF Whole
    <3> QED BY <2>10, <2>12, <2>14, <3>2, <3>5 DEF ReactorStreams
  <2> QED BY <2>13, <2>14
<1>4. ASSUME NEW fd \in Fds, ReadGone(fd) PROVE Streams' /\ ReactorStreams'
  <2>1. UNCHANGED sockets /\ conns' = Without({fd}) /\ ~crashed
    BY <1>4 DEF ReadGone, Dispatch
  <2>2. fd \notin Table BY <1>4, UsedFd DEF ReadGone, Dispatch, ReactorOwns
  <2>3. /\ Table' = Table
        /\ \A d \in Table : conns'[d] = conns[d]
    BY <2>1, <2>2 DEF Without, Table
  <2>4. \A d : Input(d)' = Input(d) BY <2>3 DEF Input
  <2> QED BY <2>1, <2>3, <2>4, StreamsStay DEF ReactorStreams
<1>5. CASE handle_timeout
  <2>1. PICK old \in SUBSET (Table \ fresh) :
          /\ CloseAll({c \in Open : fdOf[c] \in old})
          /\ conns' = Without(old)
    BY <1>5 DEF handle_timeout
  <2>2. ~crashed /\ crashed' = crashed BY <1>5 DEF handle_timeout, Dispatch
  <2> DEFINE cs == {c \in Open : fdOf[c] \in old}
  <2>3. /\ state' = [c \in Conn |-> IF c \in cs THEN "closed" ELSE state[c]]
        /\ fdOf' = [c \in Conn |-> IF c \in cs THEN 0 ELSE fdOf[c]]
        /\ UNCHANGED <<sent, unread, answered>>
    BY <2>1 DEF CloseAll
  <2>4. Streams' BY <2>3 DEF Streams
  <2>5. Open' = Open \ cs BY <2>3 DEF Open
  <2>6. \A d \in Table' : d \in Table \ old /\ conns'[d] = conns[d]
    BY <2>1 DEF Without, Table
  <2>7. \A c \in Open' : Whole(c, Input(fdOf[c]))'
    <3> SUFFICES ASSUME NEW c \in Open' PROVE Whole(c, Input(fdOf[c]))' OBVIOUS
    <3>1. c \in Open /\ c \notin cs /\ c \in Conn BY <2>5 DEF Open
    <3>2. fdOf'[c] = fdOf[c] /\ unread'[c] = unread[c] BY <2>3, <3>1
    <3>3. fdOf[c] \in Table \ old BY <2>2, <3>1 DEF ReactorOwns, Used
    <3>4. fdOf[c] \in Table' /\ conns'[fdOf[c]] = conns[fdOf[c]]
      BY <2>1, <3>3 DEF Without, Table
    <3>5. Input(fdOf[c])' = Input(fdOf[c]) BY <3>2, <3>3, <3>4 DEF Input
    <3>6. Whole(c, Input(fdOf[c])) BY <2>2, <3>1 DEF ReactorStreams
    <3> QED BY <2>3, <3>2, <3>5, <3>6 DEF Whole
  <2> QED BY <1>0, <2>4, <2>6, <2>7 DEF ReactorStreams
<1> QED BY <1>1, <1>2, <1>3, <1>4, <1>5 DEF ReactorStep

LEMMA MoreRequests ==
    ASSUME NEW s \in Seq(Part), NEW t \in Seq(Part)
    PROVE  Requests(s) <= Requests(s \o t)
<1>1. /\ s \o t \in Seq(Part) /\ Len(s \o t) = Len(s) + Len(t)
      /\ \A i \in 1 .. Len(s) + Len(t) :
            (s \o t)[i] = IF i <= Len(s) THEN s[i] ELSE t[i - Len(s)]
  BY ConcatProperties
<1>2. /\ DOMAIN s = 1 .. Len(s) /\ Len(s) \in Nat /\ Len(t) \in Nat
      /\ DOMAIN (s \o t) = 1 .. Len(s \o t) /\ IsFiniteSet(Ends(s \o t))
  BY <1>1, EndsFinite
<1>3. \A i \in 1 .. Len(s) : i \in 1 .. Len(s \o t) /\ (s \o t)[i] = s[i]
  BY <1>1, <1>2
<1>4. Ends(s) \in SUBSET Ends(s \o t) BY <1>2, <1>3 DEF Ends
<1> QED BY <1>2, <1>4, FS_Subset DEF Requests

LEMMA PoolAnswers ==
    ASSUME Sockets, PoolOwns, PoolOwns', Streams, PoolStreams, PoolStep
    PROVE  Streams' /\ PoolStreams'
<1>0. /\ tasks \in Seq(Tasking) /\ DOMAIN tasks = 1 .. Len(tasks) /\ Len(tasks) \in Nat
      /\ \A t \in Tasks : Carries(t)
  BY LenProperties DEF PoolOwns
<1>1. CASE Accept
  <2>1. PICK new \in NewFds : AcceptAll(new) /\ watched' = watched \union Range(new)
    BY <1>1 DEF Accept
  <2>2. Tasks' = Tasks BY <1>1 DEF Accept, Tasks
  <2>3. Range(new) \subseteq Fds \ Used BY <2>1, AcceptKeeps
  <2>4. /\ Streams' /\ Open' = Open \union Pending
        /\ UNCHANGED <<sent, unread, answered>>
        /\ \A c \in Open : fdOf'[c] = fdOf[c]
    BY <2>1, AcceptStreams
  <2>5. \A c \in Open : answered'[c] = 0 /\ (fdOf'[c] \in watched' => unread'[c] = sent'[c])
    <3>1. \A c \in Open : fdOf[c] \notin Range(new) BY <2>3 DEF Used
    <3> QED BY <2>1, <2>4, <3>1 DEF PoolStreams
  <2>6. \A c \in Pending : answered'[c] = 0 /\ unread'[c] = sent'[c]
    BY <2>4 DEF Pending, Streams
  <2> QED BY <2>2, <2>4, <2>5, <2>6 DEF PoolStreams
<1>2. ASSUME NEW c \in Conn, NEW n \in 1 .. MaxParts, Receive(c, n)
      PROVE  Streams' /\ PoolStreams'
  <2>1. PICK new : new = Task(c, SubSeq(unread[c], 1, n)) OBVIOUS
  <2>2. /\ c \in Open /\ fdOf[c] \in watched
        /\ n \in 1 .. Len(unread[c])
        /\ Serve(c, n, 0, FALSE)
        /\ watched' = watched \ {fdOf[c]}
        /\ tasks' = Append(tasks, new)
        /\ working' = working
    BY <1>2, <2>1 DEF Receive
  <2>3. state[c] = "open" /\ unread[c] \in Seq(Part) /\ n \in 0 .. Len(unread[c])
    BY <2>2, EndsFinite DEF Open, Sockets
  <2>4. unread[c] = sent[c] /\ answered[c] = 0 BY <2>2 DEF PoolStreams
  <2>5. answered[c] + 0 \in 0 .. Requests(sent[c]) BY DEF Streams
  <2>6. /\ Streams' /\ sent' = sent /\ answered'[c] = answered[c]
        /\ unread'[c] = From(unread[c], n + 1)
        /\ Open' = Open
        /\ \A d \in Conn \ {c} : /\ unread'[d] = unread[d] /\ answered'[d] = answered[d]
                                 /\ fdOf'[d] = fdOf[d]
    <3>1. answered[c] + 0 = answered[c] BY <2>4
    <3> QED BY <2>2, <2>3, <2>5, <3>1, ServeStreams
  <2>7. fdOf' = fdOf BY <2>2 DEF Serve
  <2>8. \A d \in Open : answered'[d] = 0 /\ (fdOf'[d] \in watched' => unread'[d] = sent'[d])
    <3> SUFFICES ASSUME NEW d \in Open
                 PROVE  answered'[d] = 0 /\ (fdOf'[d] \in watched' => unread'[d] = sent'[d])
      OBVIOUS
    <3>1. CASE d = c BY <2>2, <2>4, <2>6, <2>7, <3>1
    <3>2. CASE d # c
      <4>1. d \in Conn \ {c} BY <3>2 DEF Open
      <4> QED BY <2>2, <2>6, <2>7, <4>1 DEF PoolStreams
    <3> QED BY <3>1, <3>2
  <2>9. new.conn = c /\ new.data = SubSeq(unread[c], 1, n) /\ new.fd = fdOf[c]
    BY <2>1 DEF Task
  <2>10. new.data \o unread'[c] = sent'[c]
    <3>1. SubSeq(unread[c], 1, n) \o From(unread[c], n + 1) = unread[c]
      BY <2>3, FirstPiece
    <3> QED BY <2>4, <2>6, <2>9, <3>1
  <2>11. \A t \in Tasks : t.data \o unread'[t.conn] = sent'[t.conn]
    <3> SUFFICES ASSUME NEW t \in Tasks PROVE t.data \o unread'[t.conn] = sent'[t.conn]
      OBVIOUS
    <3>1. t.conn \in Conn \ {c} BY <1>0, <2>2 DEF Carries, Tasking
    <3> QED BY <2>6, <3>1 DEF PoolStreams
  <2>12. \A t \in Tasks' : t \in Tasks \/ t = new
    <3>1. \A k \in DOMAIN tasks' : tasks'[k] = new \/ \E j \in DOMAIN tasks : tasks'[k] = tasks[j]
      <4>1. new \in Tasking
        <5>1. SubSeq(unread[c], 1, n) \in Seq(Part) BY <2>3, FirstPiece
        <5>2. fdOf[c] \in Fds BY <2>3 DEF Sockets
        <5> QED BY <2>1, <5>1, <5>2 DEF Task, Tasking
      <4>2. /\ DOMAIN tasks' = 1 .. Len(tasks) + 1
            /\ \A k \in 1 .. Len(tasks) : tasks'[k] = tasks[k]
            /\ tasks'[Len(tasks) + 1] = new
        BY <1>0, <2>2, <4>1, AppendProperties
      <4> QED BY <1>0, <4>2
    <3> QED BY <2>2, <3>1 DEF Tasks
  <2> QED BY <2>6, <2>8, <2>9, <2>10, <2>11, <2>12 DEF PoolStreams
<1>3. ASSUME NEW c \in Conn, ReceiveEnd(c) PROVE Streams' /\ PoolStreams'
  <2>1. /\ c \in Open /\ fdOf[c] \in watched
        /\ Serve(c, 0, 0, TRUE)
        /\ watched' = watched \ {fdOf[c]}
        /\ UNCHANGED <<tasks, working>>
    BY <1>3 DEF ReceiveEnd
  <2>2. state[c] = "open" /\ 0 \in 0 .. Len(unread[c]) BY <2>1, EndsFinite DEF Open, Sockets
  <2>3. answered[c] + 0 \in 0 .. Requests(sent[c]) BY DEF Streams
  <2>4. /\ Streams' /\ sent' = sent
        /\ Open' = Open \ {c}
        /\ \A d \in Conn \ {c} : /\ unread'[d] = unread[d] /\ answered'[d] = answered[d]
                                 /\ fdOf'[d] = fdOf[d]
    BY <2>1, <2>2, <2>3, ServeStreams
  <2>5. Tasks' = Tasks BY <2>1 DEF Tasks
  <2>6. \A t \in Tasks : t.conn \in Conn \ {c} BY <1>0, <2>1 DEF Carries, Tasking
  <2>7. Open' \subseteq Conn \ {c} BY <2>4 DEF Open
  <2> QED BY <2>1, <2>4, <2>5, <2>6, <2>7 DEF PoolStreams
<1>4. ASSUME NEW w \in PoolWorkers, TakeTask(w) PROVE Streams' /\ PoolStreams'
  <2>1. /\ tasks # <<>> /\ tasks' = Tail(tasks)
        /\ working' = [working EXCEPT ![w] = {Head(tasks)}]
        /\ UNCHANGED sockets /\ watched' = watched
    BY <1>4 DEF TakeTask
  <2>2. /\ Len(tasks) # 0 /\ Head(tasks) = tasks[1]
        /\ Tail(tasks) \in Seq(Tasking) /\ Len(Tail(tasks)) = Len(tasks) - 1
        /\ \A k \in 1 .. Len(Tail(tasks)) : Tail(tasks)[k] = tasks[k + 1]
    BY <1>0, <2>1, HeadTailProperties, EmptySeq
  <2>3. DOMAIN tasks' = 1 .. Len(tasks) - 1 BY <2>1, <2>2, LenProperties
  <2>4. \A t \in Tasks' : t \in Tasks
    <3> SUFFICES ASSUME NEW t \in Tasks' PROVE t \in Tasks OBVIOUS
    <3>1. CASE \E k \in DOMAIN tasks' : t = tasks'[k]
      <4>1. PICK k \in DOMAIN tasks' : t = tasks'[k] BY <3>1
      <4>2. k + 1 \in DOMAIN tasks /\ t = tasks[k + 1] BY <1>0, <2>1, <2>2, <2>3, <4>1
      <4> QED BY <4>2 DEF Tasks
    <3>2. CASE \E v \in PoolWorkers : t \in working'[v]
      <4>1. PICK v \in PoolWorkers : t \in working'[v] BY <3>2
      <4>2. CASE v = w
        <5>1. t = tasks[1] /\ 1 \in DOMAIN tasks
          BY <1>0, <2>1, <2>2, <4>1, <4>2 DEF PoolOwns
        <5> QED BY <5>1 DEF Tasks
      <4>3. CASE v # w BY <2>1, <4>1, <4>3 DEF PoolOwns, Tasks
      <4> QED BY <4>2, <4>3
    <3> QED BY <3>1, <3>2 DEF Tasks
  <2> QED BY <2>1, <2>4, StreamsStay DEF PoolStreams
<1>5. ASSUME NEW w \in PoolWorkers, process_request(w) PROVE Streams' /\ PoolStreams'
  <2>1. PICK t \in working[w] :
          /\ working' = [working EXCEPT ![w] = {}]
          /\ IF Requests(t.data) = 0
             THEN abandoned' = abandoned \union {t.fd} /\ UNCHANGED sockets
             ELSE Serve(ConnAt(t.fd), 0, 1, TRUE) /\ UNCHANGED abandoned
          /\ UNCHANGED <<watched, tasks>>
    BY <1>5 DEF process_request
  <2>2. \A u \in Tasks' : u \in Tasks
    <3>1. \A v \in PoolWorkers : working'[v] \subseteq working[v] BY <2>1 DEF PoolOwns
    <3> QED BY <2>1, <3>1 DEF Tasks
  <2>3. CASE Requests(t.data) = 0
    BY <2>1, <2>2, <2>3, StreamsStay DEF PoolStreams
  <2>4. CASE Requests(t.data) # 0
    <3>1. t \in Tasks /\ Carries(t) BY <1>0 DEF Tasks
    <3>2. /\ t.conn \in Conn /\ t.conn \in Open /\ state[t.conn] = "open"
          /\ fdOf[t.conn] = t.fd /\ t.data \in Seq(Part)
      BY <3>1 DEF Carries, Tasking, Open
    <3>3. t.fd \in Used BY <3>2 DEF Used
    <3>4. PICK c : c = ConnAt(t.fd) OBVIOUS
    <3>5. c = t.conn
      <4>1. c \in Conn /\ state[c] = "open" /\ fdOf[c] = t.fd BY <3>3, <3>4, TheConnAt
      <4>2. fdOf[c] # 0 BY <4>1 DEF Sockets
      <4> QED BY <3>2, <4>1, <4>2 DEF Sockets
    <3>6. Serve(c, 0, 1, TRUE) BY <2>1, <2>4, <3>4
    <3>7. answered[c] + 1 \in 0 .. Requests(sent[c])
      <4>1. sent[c] = t.data \o unread[c] /\ unread[c] \in Seq(Part) /\ answered[c] = 0
        BY <3>1, <3>2, <3>5 DEF PoolStreams, Sockets
      <4>2. Requests(t.data) <= Requests(sent[c]) BY <3>2, <4>1, MoreRequests
      <4>3. Requests(t.data) \in Nat /\ Requests(sent[c]) \in Nat
        BY <3>2, <3>5, EndsFinite DEF Streams
      <4> QED BY <2>4, <4>1, <4>2, <4>3
    <3>8. 0 \in 0 .. Len(unread[c]) BY <3>2, <3>5, EndsFinite DEF Sockets
    <3>9. /\ Streams' /\ sent' = sent
          /\ Open' = Open \ {c}
          /\ \A d \in Conn \ {c} : /\ unread'[d] = unread[d] /\ answered'[d] = answered[d]
                                   /\ fdOf'[d] = fdOf[d]
      BY <3>2, <3>5, <3>6, <3>7, <3>8, ServeStreams
    <3>10. \A u \in Tasks' : u.conn \in Conn \ {c}
      <4>1. \A u \in Tasks' : Carries(u)' BY DEF PoolOwns
      <4>2. \A u \in Tasks' : u.conn \in Open' BY <4>1 DEF Carries, Tasking, Open
      <4> QED BY <3>9, <4>2 DEF Open
    <3>11. Open' \subseteq Conn \ {c} BY <3>9 DEF Open
    <3> QED BY <2>1, <2>2, <3>9, <3>10, <3>11 DEF PoolStreams
  <2> QED BY <2>3, <2>4
<1> QED BY <1>1, <1>2, <1>3, <1>4, <1>5 DEF PoolStep

LEMMA SubsAnswers ==
    ASSUME Sockets, SubsOwn, Streams, SubsStreams, SubsStep
    PROVE  Streams' /\ SubsStreams'
<1>0. /\ \A i \in Sub : \A fd \in DOMAIN buffers[i] : buffers[i][fd] \in Seq(Part)
      /\ <<>> \in Seq(Part)
      /\ \A i \in Sub, fd \in Fds : fd # 0 /\ BufferOf(i, fd) \in Seq(Part)
  BY EmptySeq, FdsAreNumbers DEF SubsStreams, BufferOf
<1>1. CASE AcceptNext
  <2>1. PICK c \in Pending, fd \in Fds \ Used :
          /\ state' = [state EXCEPT ![c] = "open"]
          /\ fdOf' = [fdOf EXCEPT ![c] = fd]
          /\ epfd' = [epfd EXCEPT ![next] = @ \union {fd}]
          /\ UNCHANGED <<sent, unread, answered, buffers, closing>>
    BY <1>1 DEF AcceptNext
  <2>2. c \in Conn /\ state[c] = "pending" BY DEF Pending
  <2>3. /\ Open' = Open \union {c} /\ fdOf'[c] = fd
        /\ \A d \in Open : fdOf'[d] = fdOf[d] /\ d \in Conn /\ fdOf[d] # fd
    BY <2>1, <2>2 DEF Open, Sockets, Used
  <2>4. Streams' BY <2>1, <2>2 DEF Streams, Sockets
  <2>5. \A i \in Sub : epfd'[i] \subseteq epfd[i] \union {fd} /\ fd \notin epfd[i]
    BY <2>1 DEF SubsOwn
  <2>6. \A i, g : Content(i, g)' = Content(i, g) BY <2>1 DEF Content, BufferOf
  <2>7. \A i \in Sub, d \in Open : fdOf'[d] \in epfd'[i] => Whole(d, Content(i, fdOf[d]))'
    <3> SUFFICES ASSUME NEW i \in Sub, NEW d \in Open, fdOf'[d] \in epfd'[i]
                 PROVE  Whole(d, Content(i, fdOf[d]))'
      OBVIOUS
    <3>1. Whole(d, Content(i, fdOf[d])) BY <2>3, <2>5 DEF SubsStreams
    <3>2. Content(i, fdOf[d])' = Content(i, fdOf[d]) BY <2>3, <2>6
    <3> QED BY <2>1, <3>1, <3>2 DEF Whole
  <2>8. \A i \in Sub : Whole(c, Content(i, fdOf[c]))'
    <3> SUFFICES ASSUME NEW i \in Sub PROVE Whole(c, Content(i, fdOf[c]))' OBVIOUS
    <3>1. Content(i, fd) = <<>> BY <2>5 DEF Content, BufferOf, SubsOwn
    <3>2. Content(i, fdOf[c])' = <<>> BY <2>3, <2>6, <3>1
    <3>3. answered[c] = 0 BY <2>2 DEF Streams
    <3> QED BY <2>1, <2>2, <3>2, <3>3, NewWhole DEF Whole
  <2> QED BY <1>0, <2>1, <2>3, <2>4, <2>7, <2>8 DEF SubsStreams
<1>2. ASSUME NEW i \in Sub, SubPoll(i) PROVE Streams' /\ SubsStreams'
  <2>1. UNCHANGED sockets /\ UNCHANGED <<epfd, buffers, closing>> BY <1>2 DEF SubPoll
  <2>2. \A j, fd : Content(j, fd)' = Content(j, fd) BY <2>1 DEF Content, BufferOf
  <2> QED BY <2>1, <2>2, StreamsStay DEF SubsStreams
<1>3. ASSUME NEW i \in Sub, NEW fd \in Fds, SubRead(i, fd)
      PROVE  Streams' /\ SubsStreams'
  <2>0. PICK c : c = ConnAt(fd) OBVIOUS
  <2> DEFINE A(said) == AnswerAll(BufferOf(i, fd) \o unread[c], said)
             Over(said) == IF A(said).close \/ fin[c] THEN TRUE ELSE FALSE
  <2>a. PICK said \in BOOLEAN :
        /\ fd \in events[i] /\ closing[i] = 0
        /\ Serve(c, Len(unread[c]), A(said).answers, Over(said))
        /\ buffers' = [buffers EXCEPT ![i] =
                         [d \in DOMAIN @ \union {fd} |-> IF d = fd THEN A(said).rest ELSE @[d]]]
        /\ epfd' = IF Over(said) THEN [epfd EXCEPT ![i] = @ \ {fd}] ELSE epfd
        /\ closing' = IF Over(said) THEN [closing EXCEPT ![i] = fd] ELSE closing
    BY <1>3, <2>0 DEF SubRead, Serve
  <2> DEFINE a == A(said)
             ends == Over(said)
  <2>1. /\ fd \in events[i] /\ closing[i] = 0
        /\ Serve(c, Len(unread[c]), a.answers, ends)
        /\ buffers' = [buffers EXCEPT ![i] =
                         [d \in DOMAIN @ \union {fd} |-> IF d = fd THEN a.rest ELSE @[d]]]
        /\ epfd' = IF ends THEN [epfd EXCEPT ![i] = @ \ {fd}] ELSE epfd
        /\ closing' = IF ends THEN [closing EXCEPT ![i] = fd] ELSE closing
    BY <2>a
  <2>2. fd \in epfd[i] /\ fd \in Used /\ fd # 0 BY <1>0, <2>1 DEF SubsOwn
  <2>3. c \in Conn /\ state[c] = "open" /\ fdOf[c] = fd /\ c \in Open
    BY <2>0, <2>2, TheConnAt DEF Open
  <2>4. ends \in BOOLEAN OBVIOUS
  <2>5. PICK held : held = BufferOf(i, fd) OBVIOUS
  <2>6. Whole(c, held)
    <3>1. Content(i, fd) = held BY <2>1, <2>2, <2>5 DEF Content
    <3> QED BY <2>2, <2>3, <3>1 DEF SubsStreams
  <2>7. \E b \in BOOLEAN : a = AnswerAll(held \o unread[c], b) BY <2>5
  <2> HIDE DEF a, ends
  <2>8. /\ a.answers \in Nat
        /\ answered[c] + a.answers \in 0 .. Requests(sent[c])
        /\ a.rest \in Seq(Part)
        /\ a.rest \o <<>> = Behind(sent[c], answered[c] + a.answers)
    BY <2>3, <2>6, <2>7, WholeRead
  <2>9. /\ Len(unread[c]) \in 0 .. Len(unread[c])
        /\ From(unread[c], Len(unread[c]) + 1) = <<>>
    <3>1. unread[c] \in Seq(Part) BY <2>3 DEF Sockets
    <3> QED BY <3>1, FromEnd
  <2>10. /\ Streams' /\ sent' = sent
         /\ answered'[c] = answered[c] + a.answers
         /\ ~ends => unread'[c] = <<>>
         /\ Open' = IF ends THEN Open \ {c} ELSE Open
         /\ \A d \in Conn \ {c} : /\ unread'[d] = unread[d] /\ answered'[d] = answered[d]
                                  /\ fdOf'[d] = fdOf[d]
    BY <2>1, <2>3, <2>4, <2>8, <2>9, ServeStreams
  <2>11. /\ DOMAIN buffers'[i] = DOMAIN buffers[i] \union {fd}
         /\ buffers'[i][fd] = a.rest
         /\ \A g \in DOMAIN buffers[i] \ {fd} : buffers'[i][g] = buffers[i][g]
         /\ \A j \in Sub \ {i} : buffers'[j] = buffers[j]
    BY <2>1 DEF SubsOwn
  <2>12. /\ \A j \in Sub : epfd'[j] \subseteq epfd[j]
         /\ \A j \in Sub \ {i} : fd \notin epfd[j] /\ closing'[j] = closing[j]
         /\ closing'[i] = IF ends THEN fd ELSE 0
    BY <2>1, <2>2 DEF SubsOwn
  <2>13. \A j \in Sub : \A g \in DOMAIN buffers'[j] : buffers'[j][g] \in Seq(Part)
    BY <1>0, <2>8, <2>11
  <2>14. \A j \in Sub, d \in Open \ {c} :
            fdOf'[d] \in epfd'[j] => Whole(d, Content(j, fdOf[d]))'
    <3> SUFFICES ASSUME NEW j \in Sub, NEW d \in Open \ {c}, fdOf'[d] \in epfd'[j]
                 PROVE  Whole(d, Content(j, fdOf[d]))'
      OBVIOUS
    <3>1. PICK g : g = fdOf[d] OBVIOUS
    <3>2. /\ d \in Conn \ {c} /\ g # fd /\ g # 0 /\ g \in epfd[j]
          /\ unread'[d] = unread[d] /\ answered'[d] = answered[d] /\ fdOf'[d] = g
      BY <2>3, <2>10, <2>12, <3>1 DEF Open, Sockets
    <3>3. Content(j, g)' = Content(j, g)
      <4>1. CASE j = i
        <5>1. closing[j] # g /\ closing'[j] # g BY <2>1, <2>12, <3>2, <4>1
        <5>2. BufferOf(j, g)' = BufferOf(j, g) BY <2>11, <3>2, <4>1 DEF BufferOf
        <5> QED BY <5>1, <5>2 DEF Content
      <4>2. CASE j # i BY <2>11, <2>12, <4>2 DEF Content, BufferOf
      <4> QED BY <4>1, <4>2
    <3>4. Content(j, fdOf[d])' = Content(j, g) BY <3>2, <3>3
    <3>5. Whole(d, Content(j, g)) BY <3>1, <3>2 DEF SubsStreams
    <3> QED BY <2>10, <3>2, <3>4, <3>5 DEF Whole
  <2>15. CASE ends BY <2>10, <2>13, <2>14, <2>15 DEF SubsStreams
  <2>16. CASE ~ends
    <3>1. fdOf'[c] = fd /\ unread'[c] = <<>> BY <2>1, <2>3, <2>10, <2>16 DEF Serve
    <3>2. Content(i, fd)' = a.rest
      BY <2>2, <2>11, <2>12, <2>16 DEF Content, BufferOf
    <3>3. Content(i, fdOf[c])' = a.rest BY <3>1, <3>2
    <3>4. Whole(c, Content(i, fdOf[c]))' BY <2>8, <2>10, <3>1, <3>3 DEF Whole
    <3>5. \A j \in Sub : fdOf'[c] \in epfd'[j] => j = i BY <2>12, <3>1
    <3>6. Open' = Open BY <2>10, <2>16
    <3> QED BY <2>10, <2>13, <2>14, <3>4, <3>5, <3>6 DEF SubsStreams
  <2> QED BY <2>15, <2>16
<1>4. ASSUME NEW i \in Sub, EraseBuffer(i) PROVE Streams' /\ SubsStreams'
  <2>1. /\ UNCHANGED sockets /\ epfd' = epfd /\ closing[i] # 0
        /\ DOMAIN buffers'[i] = DOMAIN buffers[i] \ {closing[i]}
        /\ \A g \in DOMAIN buffers'[i] : buffers'[i][g] = buffers[i][g]
        /\ closing'[i] = 0
        /\ \A j \in Sub \ {i} : buffers'[j] = buffers[j] /\ closing'[j] = closing[j]
    BY <1>4 DEF EraseBuffer, SubsOwn
  <2>2. \A j \in Sub, g \in Fds : Content(j, g)' = Content(j, g)
    <3> SUFFICES ASSUME NEW j \in Sub, NEW g \in Fds PROVE Content(j, g)' = Content(j, g)
      OBVIOUS
    <3>1. CASE j # i BY <2>1, <3>1 DEF Content, BufferOf
    <3>2. CASE j = i /\ g = closing[i] BY <1>0, <2>1, <3>2 DEF Content, BufferOf
    <3>3. CASE j = i /\ g # closing[i] BY <1>0, <2>1, <3>3 DEF Content, BufferOf
    <3> QED BY <3>1, <3>2, <3>3
  <2>3. \A c \in Open : fdOf[c] \in Fds BY DEF Sockets, Open
  <2>4. \A j \in Sub : \A g \in DOMAIN buffers'[j] : buffers'[j][g] \in Seq(Part)
    BY <1>0, <2>1
  <2>5. \A j \in Sub, c \in Open : fdOf'[c] \in epfd'[j] => Whole(c, Content(j, fdOf[c]))'
    <3> SUFFICES ASSUME NEW j \in Sub, NEW c \in Open, fdOf'[c] \in epfd'[j]
                 PROVE  Whole(c, Content(j, fdOf[c]))'
      OBVIOUS
    <3>1. fdOf'[c] = fdOf[c] /\ epfd'[j] = epfd[j] BY <2>1 DEF sockets
    <3>2. Content(j, fdOf[c])' = Content(j, fdOf[c]) BY <2>2, <2>3, <3>1
    <3>3. Whole(c, Content(j, fdOf[c])) BY <3>1 DEF SubsStreams
    <3> QED BY <2>1, <3>2, <3>3 DEF Whole, sockets
  <2> QED BY <2>1, <2>4, <2>5, StreamsStay DEF SubsStreams
<1> QED BY <1>1, <1>2, <1>3, <1>4 DEF SubsStep

LEMMA AnswersStep == IInv /\ IInv' /\ AInv /\ [Next]_vars => AInv'
<1> SUFFICES ASSUME IInv, IInv', AInv, [Next]_vars PROVE AInv' OBVIOUS
<1>1. CASE server = "reactor" /\ ReactorStep /\ UNCHANGED <<pool, subs, server>>
  BY <1>1, ReactorAnswers DEF IInv, AInv
<1>2. CASE server = "pool" /\ PoolStep /\ UNCHANGED <<reactor, subs, server>>
  BY <1>2, PoolAnswers DEF IInv, AInv
<1>3. CASE server = "subs" /\ SubsStep /\ UNCHANGED <<reactor, pool, server>>
  BY <1>3, SubsAnswers DEF IInv, AInv
<1>4. CASE Surroundings \/ UNCHANGED vars
  <2>1. /\ UNCHANGED sockets /\ UNCHANGED <<server, conns, crashed, pool, subs>>
    BY <1>4 DEF Surroundings, Tick, onSigint, vars, reactor
  <2>2. /\ \A fd : Input(fd)' = Input(fd)
        /\ \A i, fd : Content(i, fd)' = Content(i, fd)
        /\ Tasks' = Tasks
    BY <2>1 DEF Input, Table, Content, BufferOf, Tasks, pool, subs
  <2>3. ReactorStreams => ReactorStreams'
    BY <2>1, <2>2, StreamsStay DEF ReactorStreams, Table
  <2>4. PoolStreams => PoolStreams' BY <2>1, <2>2, StreamsStay DEF PoolStreams, pool
  <2>5. SubsStreams => SubsStreams' BY <2>1, <2>2, StreamsStay DEF SubsStreams, subs
  <2> QED BY <2>1, <2>3, <2>4, <2>5, StreamsStay DEF AInv
<1>5. CASE Peers
  <2>1. PICK c \in Conn :
           \/ PeerConnects(c)
           \/ \E part \in Part : PeerSends(c, part)
           \/ PeerEnds(c)
    BY <1>5 DEF Peers
  <2>2. UNCHANGED <<reactor, pool, subs, server>> BY <1>5 DEF Peers
  <2>3. Sockets /\ Streams BY DEF IInv, AInv
  <2>4. fdOf' = fdOf /\ Open' = Open
    BY <2>1, <2>3, PeersKeep DEF Open
  <2>5. /\ Streams' /\ answered' = answered
        /\ \A d \in Conn : unread[d] = sent[d] => unread'[d] = sent'[d]
        /\ \A held \in Seq(Part), d \in Conn :
              /\ Whole(d, held) => Whole(d, held)'
              /\ held \o unread[d] = sent[d] => held \o unread'[d] = sent'[d]
    BY <2>1, <2>3, PeersStreams
  <2>6. \A held, d : Whole(d, held) => held \in Seq(Part) BY DEF Whole
  <2>7. Open \subseteq Conn BY DEF Open
  <2>8. ASSUME ReactorStreams PROVE ReactorStreams'
    <3>1. \A d \in Open : Input(fdOf[d])' = Input(fdOf[d])
      BY <2>2, <2>4 DEF Input, Table, reactor
    <3>2. ASSUME NEW d \in Open, ~crashed PROVE Whole(d, Input(fdOf[d]))'
      <4>1. PICK held : held = Input(fdOf[d]) OBVIOUS
      <4>2. Whole(d, held) /\ held \in Seq(Part) /\ d \in Conn
        BY <2>6, <2>7, <2>8, <3>2, <4>1 DEF ReactorStreams
      <4>3. Whole(d, held)' BY <2>5, <4>2
      <4> QED BY <3>1, <4>1, <4>3 DEF Whole
    <3> QED BY <2>2, <2>4, <2>8, <3>2 DEF ReactorStreams, Table, reactor
  <2>9. ASSUME PoolStreams, PoolOwns PROVE PoolStreams'
    <3>1. Tasks' = Tasks /\ watched' = watched BY <2>2 DEF Tasks, pool
    <3>2. \A t \in Tasks : t.data \o unread'[t.conn] = sent'[t.conn]
      <4> SUFFICES ASSUME NEW t \in Tasks PROVE t.data \o unread'[t.conn] = sent'[t.conn]
        OBVIOUS
      <4>1. t.data \in Seq(Part) /\ t.conn \in Conn
        BY <2>9 DEF PoolOwns, Carries, Tasking
      <4>2. t.data \o unread[t.conn] = sent[t.conn] BY <2>9 DEF PoolStreams
      <4> QED BY <2>5, <4>1, <4>2
    <3>3. \A d \in Open :
             answered'[d] = 0 /\ (fdOf'[d] \in watched' => unread'[d] = sent'[d])
      BY <2>4, <2>5, <2>7, <2>9, <3>1 DEF PoolStreams
    <3> QED BY <2>4, <3>1, <3>2, <3>3 DEF PoolStreams
  <2>10. ASSUME SubsStreams PROVE SubsStreams'
    <3>1. \A i, d : Content(i, fdOf[d])' = Content(i, fdOf[d])
      BY <2>2, <2>4 DEF Content, BufferOf, subs
    <3>2. ASSUME NEW i \in Sub, NEW d \in Open, fdOf[d] \in epfd[i]
          PROVE  Whole(d, Content(i, fdOf[d]))'
      <4>1. PICK held : held = Content(i, fdOf[d]) OBVIOUS
      <4>2. Whole(d, held) /\ held \in Seq(Part) /\ d \in Conn
        BY <2>6, <2>7, <2>10, <3>2, <4>1 DEF SubsStreams
      <4>3. Whole(d, held)' BY <2>5, <4>2
      <4> QED BY <3>1, <4>1, <4>3 DEF Whole
    <3> QED BY <2>2, <2>4, <2>10, <3>2 DEF SubsStreams, subs
  <2> QED BY <2>2, <2>5, <2>8, <2>9, <2>10 DEF IInv, AInv
<1> QED BY <1>1, <1>2, <1>3, <1>4, <1>5 DEF Next, ServerStep

\* The invariants are what AnswersOwnRequests asks of each server.
LEMMA InvAnswers == IInv /\ AInv => AnswersOwnRequests
<1> SUFFICES ASSUME IInv, AInv PROVE AnswersOwnRequests OBVIOUS
<1>1. \A c \in Conn : answered[c] <= Requests(sent[c]) BY DEF AInv, Streams
<1>2. ASSUME NEW c \in Conn, state[c] = "open", ~Abandoned(c), ~crashed
      PROVE  Held(c) \o unread[c] = Behind(sent[c], answered[c])
  <2>1. c \in Open /\ fdOf[c] \in Used BY <1>2 DEF Open, Used
  <2>2. CASE server = "reactor"
    <3>1. Whole(c, Input(fdOf[c])) BY <1>2, <2>1, <2>2 DEF AInv, ReactorStreams
    <3>2. Held(c) = Input(fdOf[c]) BY <2>2 DEF Held
    <3> QED BY <3>1, <3>2 DEF Whole
  <2>3. CASE server = "subs"
    <3>1. \E i \in Sub : fdOf[c] \in epfd[i] BY <2>1, <2>3 DEF IInv, SubsOwn
    <3> DEFINE i == CHOOSE i \in Sub : fdOf[c] \in epfd[i]
    <3>2. i \in Sub /\ fdOf[c] \in epfd[i] BY <3>1
    <3>3. Held(c) = Content(i, fdOf[c]) BY <2>3 DEF Held
    <3> HIDE DEF i
    <3>4. Whole(c, Content(i, fdOf[c])) BY <2>1, <2>3, <3>2 DEF AInv, SubsStreams
    <3> QED BY <3>3, <3>4 DEF Whole
  <2>4. CASE server = "pool"
    <3>1. /\ PoolOwns /\ PoolStreams /\ Sockets /\ Streams
      BY <2>4 DEF IInv, AInv
    <3>2. answered[c] = 0 /\ sent[c] \in Seq(Part) /\ unread[c] \in Seq(Part)
      BY <2>1, <3>1 DEF PoolStreams, Streams, Sockets
    <3>3. Behind(sent[c], answered[c]) = sent[c] BY <3>2 DEF Behind
    <3>4. CASE \E t \in Tasks : t.conn = c
      <4> DEFINE t == CHOOSE t \in Tasks : t.conn = c
      <4>1. t \in Tasks /\ t.conn = c BY <3>4
      <4>2. Held(c) = t.data BY <2>4, <3>4 DEF Held
      <4> HIDE DEF t
      <4> QED BY <3>1, <3>3, <4>1, <4>2 DEF PoolStreams
    <3>5. CASE ~\E t \in Tasks : t.conn = c
      <4>1. Held(c) = <<>> BY <2>4, <3>5 DEF Held
      <4>2. fdOf[c] \in watched
        <5>1. fdOf[c] \notin abandoned BY <1>2 DEF Abandoned
        <5>2. \A t \in Tasks : t.fd # fdOf[c]
          <6> SUFFICES ASSUME NEW t \in Tasks, t.fd = fdOf[c] PROVE FALSE OBVIOUS
          <6>1. t.conn \in Conn /\ state[t.conn] = "open" /\ fdOf[t.conn] = fdOf[c]
            BY <3>1 DEF PoolOwns, Carries, Tasking
          <6>2. t.conn = c BY <3>1, <6>1 DEF Sockets
          <6> QED BY <3>5, <6>2
        <5> QED BY <2>1, <3>1, <5>1, <5>2 DEF PoolOwns
      <4>3. unread[c] = sent[c] BY <2>1, <3>1, <4>2 DEF PoolStreams
      <4> QED BY <3>2, <3>3, <4>1, <4>3, ConcatEmptySeq
    <3> QED BY <3>4, <3>5
  <2> QED BY <2>2, <2>3, <2>4 DEF IInv
<1> QED BY <1>1, <1>2 DEF AnswersOwnRequests

\* However the requests of a connection are cut by the reads, and whoever had
\* its descriptor or its buffer before, in each of the three designs a response
\* answers a request of the same connection, in order and once: for any number
\* of connections, requests, workers and sub Reactors (webserver.cpp:77-126,
\* webserver_thread.cpp:24-50, webserver_multithread.cpp:42-72).
THEOREM AnswersCorrect == Spec => []AnswersOwnRequests
<1>1. Init => IInv /\ AInv BY InitInv, AnswersInit
<1>2. IInv /\ AInv /\ [Next]_vars => IInv' /\ AInv' BY StepInv, AnswersStep
<1>3. IInv /\ AInv => AnswersOwnRequests BY InvAnswers
<1> QED BY <1>1, <1>2, <1>3, PTL DEF Spec
=============================================================================
