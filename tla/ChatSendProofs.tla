--------------------------- MODULE ChatSendProofs ---------------------------
(***************************************************************************)
(* Proofs about ChatSend for any number of connections, descriptors and    *)
(* frames, and any size of the send buffer: the two epoll instances, what  *)
(* they are asked for, and what a half-closed connection has been sent.    *)
(***************************************************************************)
EXTENDS ChatSend, TLAPS, SequenceTheorems

\* The entries of an interest list.
Entries == [conn : Conns \union {NoConn}, events : SUBSET {"in", "out"}]

Types ==
    /\ accepted \in 0 .. MaxConns
    /\ adopting \subseteq Conns
    /\ cstate \in [Conns -> {"new", "accepted", "live", "closed", "freed"}]
    /\ fdOf \in [Conns -> Fds \union {NoFd}]
    /\ events \in [Conns -> SUBSET {"in", "out"}]
    /\ out \in [Conns -> Nat]
    /\ kbuf \in [Conns -> 0 .. Cap]
    /\ sent \in [Conns -> Nat] /\ asked \in [Conns -> Nat]
    /\ inq \in [Conns -> Seq({"ask", "bad"})]
    /\ fin \in [Conns -> {"open", "fin", "half", "reset"}]
    /\ reason \in [Conns -> {"none", "error", "fatal", "half", "eof"}]
    /\ closeAfterFlush \subseteq Conns
    /\ channels \in [Threads -> [Fds -> Conns \union {NoConn}]]
    /\ epoll \in [Threads -> [Fds -> Entries]]
    /\ batch \in [Threads -> SUBSET [conn : Conns, event : {"in", "out", "err"}]]

\* An open connection has a descriptor of its own.
Descriptors ==
    /\ \A c \in Conns : Open(c) => fdOf[c] \in Fds
    /\ \A c, d \in Conns : Open(c) /\ Open(d) /\ fdOf[c] = fdOf[d] => c = d
    /\ \A c \in Conns : accepted < c => cstate[c] = "new"
    /\ \A c \in adopting : cstate[c] = "accepted"

\* Both tables of the owner hold the live connections, and nothing else.
SubTables ==
    /\ \A f \in Fds : channels["sub"][f] # NoConn =>
          cstate[channels["sub"][f]] = "live" /\ fdOf[channels["sub"][f]] = f
    /\ \A f \in Fds : epoll["sub"][f] # Unset =>
          /\ epoll["sub"][f].conn \in Conns
          /\ cstate[epoll["sub"][f].conn] = "live" /\ fdOf[epoll["sub"][f].conn] = f
    /\ \A c \in Conns : cstate[c] = "live" =>
          /\ channels["sub"][fdOf[c]] = c
          /\ epoll["sub"][fdOf[c]] = [conn |-> c, events |-> {"in"}]

\* The main loop's interest list holds live connections that have asked for
\* EPOLLOUT once; its channels_ also what earlier connections have left.
MainTables ==
    /\ \A f \in Fds : epoll["main"][f] # Unset =>
          /\ epoll["main"][f].conn \in Conns
          /\ cstate[epoll["main"][f].conn] = "live" /\ fdOf[epoll["main"][f].conn] = f
          /\ channels["main"][f] = epoll["main"][f].conn
          /\ events[epoll["main"][f].conn] = epoll["main"][f].events
    /\ \A f \in Fds : channels["main"][f] # NoConn =>
          cstate[channels["main"][f]] \in {"live", "closed", "freed"}
    /\ \A c \in Conns : cstate[c] = "live" =>
          /\ channels["main"][fdOf[c]] = c =>
                epoll["main"][fdOf[c]] = [conn |-> c, events |-> events[c]]
          /\ channels["main"][fdOf[c]] = NoConn => "out" \notin events[c]

\* Nothing asked for is forgotten, and EPOLLOUT is wanted while frames are left.
Frames ==
    /\ \A c \in Conns : cstate[c] \in {"new", "accepted", "live"} =>
          sent[c] + out[c] + Len(inq[c]) = asked[c]
    /\ \A c \in Conns : cstate[c] \in {"new", "accepted"} => out[c] = 0
    /\ \A c \in Conns : cstate[c] = "live" =>
          "in" \in events[c] /\ (out[c] > 0 <=> "out" \in events[c])
    /\ \A c \in closeAfterFlush : inq[c] = <<>> /\ fin[c] # "open"
    /\ \A c \in Conns : reason[c] = "eof" =>
          cstate[c] \in {"closed", "freed"} /\ sent[c] = asked[c]

IInv == Types /\ Descriptors /\ SubTables /\ MainTables /\ Frames

----------------------------------------------------------------------------
LEMMA Constants ==
    /\ MaxConns \in Nat /\ MaxFd \in Nat /\ Cap \in Nat /\ Cap > 0
    /\ Conns \subseteq Nat /\ NoConn \notin Conns /\ NoFd \notin Fds
    /\ Threads = {"main", "sub"}
BY ConstantsAssumption DEF Conns, Fds, NoConn, NoFd, Threads

LEMMA InitInv == Init => IInv
<1> SUFFICES ASSUME Init PROVE IInv OBVIOUS
<1>1. Types BY Constants, EmptySeq DEF Init, Types, Unset, Entries
<1>2. Descriptors BY DEF Init, Descriptors, Open
<1>3. SubTables BY Constants DEF Init, SubTables
<1>4. MainTables BY Constants DEF Init, MainTables
<1>5. Frames BY EmptySeq DEF Init, Frames
<1> QED BY <1>1, <1>2, <1>3, <1>4, <1>5 DEF IInv

----------------------------------------------------------------------------
(* The tables that Settle leaves *)

\* Table k is table h of both threads, but for what it has under descriptor f.
Sets(h, k, f, a, b) ==
    /\ k["main"][f] = a /\ k["sub"][f] = b
    /\ \A t \in Threads : \A g \in Fds \ {f} : k[t][g] = h[t][g]

Both(h, f, a, b) == [h EXCEPT !["main"][f] = a, !["sub"][f] = b]

LEMMA BothSets ==
    ASSUME NEW G, NEW h \in [Threads -> [Fds -> G]], NEW f \in Fds, NEW a \in G, NEW b \in G
    PROVE  /\ Both(h, f, a, b) \in [Threads -> [Fds -> G]]
           /\ Sets(h, Both(h, f, a, b), f, a, b)
<1> DEFINE k == Both(h, f, a, b)
<1>1. k = [t \in Threads |-> IF t = "main" THEN [h["main"] EXCEPT ![f] = a]
                            ELSE [h["sub"] EXCEPT ![f] = b]]
  BY Constants DEF Both
<1>2. /\ [h["main"] EXCEPT ![f] = a] \in [Fds -> G]
      /\ [h["sub"] EXCEPT ![f] = b] \in [Fds -> G]
  BY Constants
<1>3. k \in [Threads -> [Fds -> G]] BY <1>1, <1>2
<1>4. k["main"] = [h["main"] EXCEPT ![f] = a] /\ k["sub"] = [h["sub"] EXCEPT ![f] = b]
  BY <1>1, Constants
<1> QED BY <1>3, <1>4, Constants DEF Sets

\* The tables after Settle, with the values of the four fields that it may set.
Tables(c, evs, why, f, a, b, p, r) ==
    /\ f = fdOf[c]
    /\ a = IF evs # events[c] /\ UpdateSucceeds("main", f) THEN c ELSE channels["main"][f]
    /\ b = IF why # "none" THEN NoConn ELSE channels["sub"][f]
    /\ p = IF why # "none" THEN Unset
           ELSE IF evs # events[c] /\ UpdateSucceeds("main", f)
                THEN [conn |-> c, events |-> evs] ELSE epoll["main"][f]
    /\ r = IF why # "none" THEN Unset ELSE epoll["sub"][f]
    /\ channels' \in [Threads -> [Fds -> Conns \union {NoConn}]]
    /\ epoll' \in [Threads -> [Fds -> Entries]]
    /\ Sets(channels, channels', f, a, b)
    /\ Sets(epoll, epoll', f, p, r)

LEMMA SettleTables ==
    ASSUME Types, NEW c \in Conns, fdOf[c] \in Fds,
           NEW q, NEW n, NEW evs \in SUBSET {"in", "out"}, NEW why,
           Settle(c, q, n, evs, why)
    PROVE  \E f \in Fds : \E a, b \in Conns \union {NoConn} : \E p, r \in Entries :
              Tables(c, evs, why, f, a, b, p, r)
<1>1. PICK f \in Fds : f = fdOf[c] OBVIOUS
<1>a. channels["main"][f] \in Conns \union {NoConn} /\ channels["sub"][f] \in Conns \union {NoConn}
  BY Constants DEF Types
<1>b. epoll["main"][f] \in Entries /\ epoll["sub"][f] \in Entries BY Constants DEF Types
<1>c. Unset \in Entries /\ [conn |-> c, events |-> evs] \in Entries BY DEF Unset, Entries
<1>2. PICK a \in Conns \union {NoConn} :
        a = IF evs # events[c] /\ UpdateSucceeds("main", f) THEN c ELSE channels["main"][f]
  BY <1>a
<1>3. PICK b \in Conns \union {NoConn} :
        b = IF why # "none" THEN NoConn ELSE channels["sub"][f]
  BY <1>a
<1>4. PICK p \in Entries :
        p = IF why # "none" THEN Unset
            ELSE IF evs # events[c] /\ UpdateSucceeds("main", f)
                 THEN [conn |-> c, events |-> evs] ELSE epoll["main"][f]
  BY <1>b, <1>c
<1>5. PICK r \in Entries : r = IF why # "none" THEN Unset ELSE epoll["sub"][f]
  BY <1>b, <1>c
<1>6. channels' = Both(channels, f, a, b)
  BY <1>1, <1>2, <1>3, Constants DEF Settle, ChannelAfterClose, Both, Types
<1>7. epoll' = Both(epoll, f, p, r)
  BY <1>1, <1>4, <1>5, Constants DEF Settle, EntryAfterClose, Both, Types
<1>8. /\ channels' \in [Threads -> [Fds -> Conns \union {NoConn}]]
      /\ Sets(channels, channels', f, a, b)
  BY <1>6, BothSets DEF Types
<1>9. epoll' \in [Threads -> [Fds -> Entries]] /\ Sets(epoll, epoll', f, p, r)
  BY <1>7, BothSets DEF Types
<1> QED BY <1>1, <1>2, <1>3, <1>4, <1>5, <1>8, <1>9 DEF Tables

----------------------------------------------------------------------------
(* A callback of a live connection *)

\* What a callback of connection c, which leaves s unread, does besides Settle.
Callback(c, q, n, evs, why, s) ==
    /\ cstate[c] = "live"
    /\ q \in Nat /\ n \in 0 .. q /\ kbuf[c] + n <= Cap
    /\ evs \in SUBSET {"in", "out"} /\ "in" \in evs
    /\ why \in {"none", "error", "fatal", "half", "eof"}
    /\ s \in Seq({"ask", "bad"})
    /\ why = "none" => (q > n <=> "out" \in evs) /\ sent[c] + q + Len(s) = asked[c]
    /\ why = "eof" => sent[c] + n = asked[c]
    /\ Settle(c, q, n, evs, why)
    /\ inq' = [inq EXCEPT ![c] = s]
    /\ closeAfterFlush' \subseteq closeAfterFlush \union {c}
    /\ c \in closeAfterFlush' => s = <<>> /\ fin[c] # "open"
    /\ batch' \in [Threads -> SUBSET [conn : Conns, event : {"in", "out", "err"}]]
    /\ UNCHANGED <<accepted, adopting, fin, asked>>

LEMMA CallbackTypes ==
    ASSUME IInv, NEW c \in Conns, NEW q, NEW n, NEW evs, NEW why, NEW s,
           Callback(c, q, n, evs, why, s)
    PROVE  Types'
<1>1. fdOf[c] \in Fds /\ Types BY DEF IInv, Descriptors, Open, Callback
<1>2. /\ channels' \in [Threads -> [Fds -> Conns \union {NoConn}]]
      /\ epoll' \in [Threads -> [Fds -> Entries]]
  BY <1>1, SettleTables DEF Callback, Tables
<1>3. /\ out' \in [Conns -> Nat] /\ sent' \in [Conns -> Nat]
      /\ kbuf' \in [Conns -> 0 .. Cap]
  <2>1. q - n \in Nat /\ n \in Nat /\ q \in Nat BY DEF Callback
  <2>2. sent[c] \in Nat /\ sent[c] + n \in Nat BY <1>1, <2>1 DEF Types
  <2>3. kbuf[c] \in Nat /\ kbuf[c] + n \in 0 .. Cap BY <1>1, <2>1, Constants DEF Types, Callback
  <2>4. /\ out' = [out EXCEPT ![c] = q - n] /\ sent' = [sent EXCEPT ![c] = sent[c] + n]
        /\ kbuf' = [kbuf EXCEPT ![c] = kbuf[c] + n]
    BY DEF Callback, Settle
  <2>5. out \in [Conns -> Nat] /\ sent \in [Conns -> Nat] /\ kbuf \in [Conns -> 0 .. Cap]
    BY <1>1 DEF Types
  <2> QED BY <2>1, <2>2, <2>3, <2>4, <2>5
<1>4. /\ events' \in [Conns -> SUBSET {"in", "out"}]
      /\ cstate' \in [Conns -> {"new", "accepted", "live", "closed", "freed"}]
      /\ fdOf' \in [Conns -> Fds \union {NoFd}]
      /\ reason' \in [Conns -> {"none", "error", "fatal", "half", "eof"}]
  BY <1>1 DEF Callback, Settle, Types
<1>5. inq' \in [Conns -> Seq({"ask", "bad"})] BY <1>1 DEF Callback, Types
<1>6. /\ accepted' \in 0 .. MaxConns /\ adopting' \subseteq Conns
      /\ asked' \in [Conns -> Nat] /\ fin' \in [Conns -> {"open", "fin", "half", "reset"}]
      /\ closeAfterFlush' \subseteq Conns
      /\ batch' \in [Threads -> SUBSET [conn : Conns, event : {"in", "out", "err"}]]
  BY <1>1 DEF Callback, Types
<1> QED BY <1>2, <1>3, <1>4, <1>5, <1>6 DEF Types

LEMMA CallbackDescriptors ==
    ASSUME IInv, NEW c \in Conns, NEW q, NEW n, NEW evs, NEW why, NEW s,
           Callback(c, q, n, evs, why, s)
    PROVE  Descriptors'
<1>1. \A d \in Conns : /\ cstate'[d] = IF d = c /\ why # "none" THEN "closed" ELSE cstate[d]
                       /\ fdOf'[d] = IF d = c /\ why # "none" THEN NoFd ELSE fdOf[d]
  <2>1. /\ cstate' = [cstate EXCEPT ![c] = IF why # "none" THEN "closed" ELSE @]
        /\ fdOf' = [fdOf EXCEPT ![c] = IF why # "none" THEN NoFd ELSE @]
    BY DEF Callback, Settle
  <2>2. DOMAIN cstate = Conns /\ DOMAIN fdOf = Conns BY DEF IInv, Types
  <2> QED BY <2>1, <2>2
<1>2. cstate[c] = "live" /\ UNCHANGED <<accepted, adopting>> BY DEF Callback
<1>3. Descriptors BY DEF IInv
<1>4. ASSUME NEW d \in Conns, Open(d)' PROVE Open(d) /\ fdOf'[d] = fdOf[d]
  BY <1>1, <1>4 DEF Open
<1>5. /\ \A d \in Conns : Open(d)' => fdOf'[d] \in Fds
      /\ \A d, e \in Conns : Open(d)' /\ Open(e)' /\ fdOf'[d] = fdOf'[e] => d = e
  BY <1>3, <1>4 DEF Descriptors
<1>6. \A d \in Conns : accepted' < d => cstate'[d] = "new"
  BY <1>1, <1>2, <1>3 DEF Descriptors
<1>7. \A d \in adopting' : cstate'[d] = "accepted"
  <2>1. \A d \in adopting : d \in Conns /\ d # c
    BY <1>2, <1>3 DEF Descriptors, IInv, Types
  <2> QED BY <1>1, <1>2, <1>3, <2>1 DEF Descriptors
<1> QED BY <1>5, <1>6, <1>7 DEF Descriptors

LEMMA CallbackSubTables ==
    ASSUME IInv, NEW c \in Conns, NEW q, NEW n, NEW evs, NEW why, NEW s,
           Callback(c, q, n, evs, why, s)
    PROVE  SubTables'
<1>1. \A d \in Conns : /\ cstate'[d] = IF d = c /\ why # "none" THEN "closed" ELSE cstate[d]
                       /\ fdOf'[d] = IF d = c /\ why # "none" THEN NoFd ELSE fdOf[d]
  BY DEF IInv, Types, Callback, Settle
<1>2. cstate[c] = "live" /\ fdOf[c] \in Fds /\ Types
  BY DEF Callback, IInv, Descriptors, Open
<1>3. PICK f \in Fds : \E a, b \in Conns \union {NoConn} : \E p, r \in Entries :
        Tables(c, evs, why, f, a, b, p, r)
  BY <1>2, SettleTables DEF Callback
<1>4. \A g \in Fds :
        /\ channels'["sub"][g] = IF g = f /\ why # "none" THEN NoConn ELSE channels["sub"][g]
        /\ epoll'["sub"][g] = IF g = f /\ why # "none" THEN Unset ELSE epoll["sub"][g]
  BY <1>3, Constants DEF Tables, Sets
<1>5. \A d \in Conns : cstate[d] = "live" => fdOf[d] \in Fds /\ (fdOf[d] = f => d = c)
  BY <1>2, <1>3 DEF Tables, IInv, Descriptors, Open
<1>6. f = fdOf[c] BY <1>3 DEF Tables
<1>7. ASSUME NEW g \in Fds, channels'["sub"][g] # NoConn
      PROVE  cstate'[channels'["sub"][g]] = "live" /\ fdOf'[channels'["sub"][g]] = g
  <2>1. channels["sub"][g] \in Conns \union {NoConn} BY <1>2, Constants DEF Types
  <2> QED BY <2>1, <1>1, <1>4, <1>6, <1>7 DEF IInv, SubTables
<1>8. ASSUME NEW g \in Fds, epoll'["sub"][g] # Unset
      PROVE  /\ epoll'["sub"][g].conn \in Conns
             /\ cstate'[epoll'["sub"][g].conn] = "live" /\ fdOf'[epoll'["sub"][g].conn] = g
  BY <1>1, <1>4, <1>6, <1>8 DEF IInv, SubTables
<1>9. ASSUME NEW d \in Conns, cstate'[d] = "live"
      PROVE  /\ channels'["sub"][fdOf'[d]] = d
             /\ epoll'["sub"][fdOf'[d]] = [conn |-> d, events |-> {"in"}]
  BY <1>1, <1>4, <1>5, <1>6, <1>9 DEF IInv, SubTables
<1> QED BY <1>7, <1>8, <1>9 DEF SubTables

LEMMA CallbackMainTables ==
    ASSUME IInv, NEW c \in Conns, NEW q, NEW n, NEW evs, NEW why, NEW s,
           Callback(c, q, n, evs, why, s)
    PROVE  MainTables'
<1>1. \A d \in Conns : /\ cstate'[d] = IF d = c /\ why # "none" THEN "closed" ELSE cstate[d]
                       /\ fdOf'[d] = IF d = c /\ why # "none" THEN NoFd ELSE fdOf[d]
                       /\ events'[d] = IF d = c THEN evs ELSE events[d]
  BY DEF IInv, Types, Callback, Settle
<1>2. cstate[c] = "live" /\ fdOf[c] \in Fds /\ Types
  BY DEF Callback, IInv, Descriptors, Open
<1>3. PICK f \in Fds : \E a, b \in Conns \union {NoConn} : \E p, r \in Entries :
        Tables(c, evs, why, f, a, b, p, r)
  BY <1>2, SettleTables DEF Callback
<1>4. f = fdOf[c] BY <1>3 DEF Tables
<1> DEFINE updated == evs # events[c] /\ UpdateSucceeds("main", f)
<1>5. \A g \in Fds :
        /\ channels'["main"][g] = IF g = f /\ updated THEN c ELSE channels["main"][g]
        /\ epoll'["main"][g] = IF g = f /\ why # "none" THEN Unset
                               ELSE IF g = f /\ updated THEN [conn |-> c, events |-> evs]
                               ELSE epoll["main"][g]
  BY <1>3, Constants DEF Tables, Sets
<1>6. \A d \in Conns : cstate[d] = "live" => fdOf[d] \in Fds /\ (fdOf[d] = f => d = c)
  BY <1>2, <1>4 DEF IInv, Descriptors, Open
\* UpdateSucceeds unless channels_ lists a connection that had the descriptor before.
<1>7. /\ updated <=> evs # events[c] /\ channels["main"][f] \in {c, NoConn}
      /\ epoll["main"][f] # Unset => channels["main"][f] = c
  <2>1. epoll["main"][f] # Unset => channels["main"][f] = c
    BY <1>2, <1>4, <1>6 DEF IInv, MainTables
  <2>2. channels["main"][f] = c => epoll["main"][f] = [conn |-> c, events |-> events[c]]
    BY <1>2, <1>4 DEF IInv, MainTables
  <2>3. c # NoConn BY Constants
  <2> QED BY <2>1, <2>2, <2>3 DEF UpdateSucceeds, Unset
<1> HIDE DEF updated
<1>8. ASSUME NEW g \in Fds, epoll'["main"][g] # Unset
      PROVE  /\ epoll'["main"][g].conn \in Conns
             /\ cstate'[epoll'["main"][g].conn] = "live" /\ fdOf'[epoll'["main"][g].conn] = g
             /\ channels'["main"][g] = epoll'["main"][g].conn
             /\ events'[epoll'["main"][g].conn] = epoll'["main"][g].events
  <2>1. CASE g # f
    <3>1. epoll'["main"][g] = epoll["main"][g] /\ channels'["main"][g] = channels["main"][g]
      BY <1>5, <2>1
    <3>2. /\ epoll["main"][g].conn \in Conns
          /\ cstate[epoll["main"][g].conn] = "live" /\ fdOf[epoll["main"][g].conn] = g
          /\ channels["main"][g] = epoll["main"][g].conn
          /\ events[epoll["main"][g].conn] = epoll["main"][g].events
      BY <1>8, <3>1 DEF IInv, MainTables
    <3>3. epoll["main"][g].conn # c BY <3>2, <2>1, <1>4
    <3> QED BY <1>1, <3>1, <3>2, <3>3
  <2>2. CASE g = f
    <3>1. why = "none" BY <1>5, <1>8, <2>2
    <3>2. CASE updated
      BY <1>1, <1>2, <1>4, <1>5, <2>2, <3>1, <3>2
    <3>3. CASE ~updated
      <4>1. epoll'["main"][f] = epoll["main"][f] /\ channels'["main"][f] = channels["main"][f]
        BY <1>5, <3>1, <3>3
      <4>2. channels["main"][f] = c /\ evs = events[c] BY <1>7, <1>8, <2>2, <3>3, <4>1
      <4>3. epoll["main"][f] = [conn |-> c, events |-> events[c]]
        BY <4>2, <1>2, <1>4 DEF IInv, MainTables
      <4> QED BY <1>1, <1>2, <1>4, <2>2, <3>1, <4>1, <4>2, <4>3
    <3> QED BY <3>2, <3>3
  <2> QED BY <2>1, <2>2
<1>9. ASSUME NEW g \in Fds, channels'["main"][g] # NoConn
      PROVE  cstate'[channels'["main"][g]] \in {"live", "closed", "freed"}
  <2>1. channels["main"][g] \in Conns \union {NoConn} BY <1>2, Constants DEF Types
  <2> QED BY <2>1, <1>1, <1>2, <1>5, <1>9 DEF IInv, MainTables
<1>10. ASSUME NEW d \in Conns, cstate'[d] = "live"
       PROVE  /\ channels'["main"][fdOf'[d]] = d =>
                   epoll'["main"][fdOf'[d]] = [conn |-> d, events |-> events'[d]]
              /\ channels'["main"][fdOf'[d]] = NoConn => "out" \notin events'[d]
  <2>1. CASE d # c
    <3>1. fdOf'[d] = fdOf[d] /\ cstate[d] = "live" /\ events'[d] = events[d]
      BY <1>1, <1>10, <2>1
    <3>2. fdOf[d] \in Fds /\ fdOf[d] # f BY <1>6, <2>1, <3>1
    <3> QED BY <1>5, <3>1, <3>2 DEF IInv, MainTables
  <2>2. CASE d = c
    <3>1. why = "none" /\ fdOf'[c] = f /\ events'[c] = evs BY <1>1, <1>4, <1>10, <2>2
    <3>2. CASE updated BY <1>5, <2>2, <3>1, <3>2, Constants
    <3>3. CASE ~updated
      <4>1. epoll'["main"][f] = epoll["main"][f] /\ channels'["main"][f] = channels["main"][f]
        BY <1>5, <3>1, <3>3
      <4>2. channels["main"][f] \in {c, NoConn} => evs = events[c] BY <1>7, <3>3
      <4> QED BY <1>2, <1>4, <2>2, <3>1, <4>1, <4>2 DEF IInv, MainTables
    <3> QED BY <3>2, <3>3
  <2> QED BY <2>1, <2>2
<1> QED BY <1>8, <1>9, <1>10 DEF MainTables

LEMMA CallbackFrames ==
    ASSUME IInv, NEW c \in Conns, NEW q, NEW n, NEW evs, NEW why, NEW s,
           Callback(c, q, n, evs, why, s)
    PROVE  Frames'
<1>1. \A d \in Conns : /\ cstate'[d] = IF d = c /\ why # "none" THEN "closed" ELSE cstate[d]
                       /\ events'[d] = IF d = c THEN evs ELSE events[d]
                       /\ out'[d] = IF d = c THEN q - n ELSE out[d]
                       /\ sent'[d] = IF d = c THEN sent[c] + n ELSE sent[d]
                       /\ inq'[d] = IF d = c THEN s ELSE inq[d]
                       /\ reason'[d] = IF d = c THEN why ELSE reason[d]
  BY DEF IInv, Types, Callback, Settle
<1>2. /\ asked' = asked /\ fin' = fin /\ cstate[c] = "live"
      /\ q \in Nat /\ n \in 0 .. q /\ "in" \in evs /\ Len(s) \in Nat
      /\ asked[c] \in Nat /\ sent[c] \in Nat
  BY LenProperties DEF Callback, IInv, Types
<1>3. ASSUME NEW d \in Conns, cstate'[d] \in {"new", "accepted", "live"}
      PROVE  sent'[d] + out'[d] + Len(inq'[d]) = asked'[d]
  <2>1. CASE d # c BY <1>1, <1>2, <1>3, <2>1 DEF IInv, Frames
  <2>2. CASE d = c
    <3>1. why = "none" BY <1>1, <1>3, <2>2
    <3>2. sent[c] + q + Len(s) = asked[c] BY <3>1 DEF Callback
    <3>3. sent[c] + n + (q - n) + Len(s) = asked[c] BY <1>2, <3>2
    <3> QED BY <1>1, <1>2, <2>2, <3>3
  <2> QED BY <2>1, <2>2
<1>4. \A d \in Conns : cstate'[d] \in {"new", "accepted"} => out'[d] = 0
  BY <1>1, <1>2 DEF IInv, Frames
<1>5. ASSUME NEW d \in Conns, cstate'[d] = "live"
      PROVE  "in" \in events'[d] /\ (out'[d] > 0 <=> "out" \in events'[d])
  <2>1. CASE d # c BY <1>1, <1>2, <1>5, <2>1 DEF IInv, Frames
  <2>2. CASE d = c
    <3>1. q > n <=> "out" \in evs BY <1>1, <1>5, <2>2 DEF Callback
    <3>2. q - n > 0 <=> q > n BY <1>2
    <3> QED BY <1>1, <1>2, <2>2, <3>1, <3>2
  <2> QED BY <2>1, <2>2
<1>6. \A d \in closeAfterFlush' : inq'[d] = <<>> /\ fin'[d] # "open"
  <2> SUFFICES ASSUME NEW d \in closeAfterFlush' PROVE inq'[d] = <<>> /\ fin'[d] # "open"
    OBVIOUS
  <2>1. d \in Conns BY DEF Callback, IInv, Types
  <2>2. CASE d = c BY <1>1, <1>2, <2>1, <2>2 DEF Callback
  <2>3. CASE d # c BY <1>1, <1>2, <2>1, <2>3 DEF Callback, IInv, Frames
  <2> QED BY <2>2, <2>3
<1>7. ASSUME NEW d \in Conns, reason'[d] = "eof"
      PROVE  cstate'[d] \in {"closed", "freed"} /\ sent'[d] = asked'[d]
  <2>1. CASE d # c BY <1>1, <1>2, <1>7, <2>1 DEF IInv, Frames
  <2>2. CASE d = c
    <3>1. why = "eof" /\ sent[c] + n = asked[c] BY <1>1, <1>7, <2>2 DEF Callback
    <3> QED BY <1>1, <1>2, <2>2, <3>1
  <2> QED BY <2>1, <2>2
<1> QED BY <1>3, <1>4, <1>5, <1>6, <1>7 DEF Frames

LEMMA CallbackInv ==
    ASSUME IInv, NEW c \in Conns, NEW q, NEW n, NEW evs, NEW why, NEW s,
           Callback(c, q, n, evs, why, s)
    PROVE  IInv'
BY CallbackTypes, CallbackDescriptors, CallbackSubTables, CallbackMainTables,
   CallbackFrames DEF IInv

----------------------------------------------------------------------------
(* The callbacks *)

\* What holds of a step of a callback beside what it does to its connection.
Elsewhere ==
    /\ batch' \in [Threads -> SUBSET [conn : Conns, event : {"in", "out", "err"}]]
    /\ UNCHANGED <<accepted, adopting, fin, asked>>

LEMMA MinOfTwo ==
    ASSUME NEW x \in Nat, NEW y \in Nat
    PROVE  Min({x, y}) = IF x <= y THEN x ELSE y
<1> DEFINE m == IF x <= y THEN x ELSE y
<1>1. m \in {x, y} /\ \A z \in {x, y} : m <= z OBVIOUS
<1>2. \A v \in {x, y} : (\A z \in {x, y} : v <= z) => v = m OBVIOUS
<1> QED BY <1>1, <1>2 DEF Min

\* What flush sends fits, and it asks for EPOLLOUT if something is left.
LEMMA FlushFacts ==
    ASSUME IInv, NEW c \in Conns, cstate[c] = "live", NEW q \in Nat
    PROVE  \E n \in 0 .. q : \E evs \in SUBSET {"in", "out"} :
             /\ n = Taken(c, q) /\ evs = Wanted(c, q)
             /\ kbuf[c] + n <= Cap
             /\ "in" \in evs /\ (q > n <=> "out" \in evs)
<1>1. kbuf[c] \in Nat /\ Cap - kbuf[c] \in Nat BY Constants DEF IInv, Types
<1>2. Taken(c, q) = IF q <= Cap - kbuf[c] THEN q ELSE Cap - kbuf[c]
  BY <1>1, MinOfTwo DEF Taken
<1>3. Taken(c, q) \in 0 .. q /\ kbuf[c] + Taken(c, q) <= Cap BY <1>1, <1>2, Constants
<1>4. "in" \in events[c] /\ events[c] \in SUBSET {"in", "out"} BY DEF IInv, Types, Frames
<1>5. /\ Wanted(c, q) \in SUBSET {"in", "out"} /\ "in" \in Wanted(c, q)
      /\ Taken(c, q) < q <=> "out" \in Wanted(c, q)
  BY <1>4 DEF Wanted
<1>6. q > Taken(c, q) <=> Taken(c, q) < q BY <1>3
<1> QED BY <1>3, <1>5, <1>6

LEMMA FlushInv ==
    ASSUME IInv, NEW c \in Conns, cstate[c] = "live", Elsewhere,
           NEW q \in Nat, NEW why \in {"none", "fatal", "half", "eof"},
           Flush(c, q, why), inq' = [inq EXCEPT ![c] = <<>>],
           why \in {"none", "eof"} => sent[c] + q = asked[c],
           why = "eof" => ~(Taken(c, q) < q),
           closeAfterFlush' \subseteq closeAfterFlush \union {c},
           c \in closeAfterFlush' => fin[c] # "open"
    PROVE  IInv'
<1>1. PICK n \in 0 .. q, evs \in SUBSET {"in", "out"} :
        /\ n = Taken(c, q) /\ evs = Wanted(c, q)
        /\ kbuf[c] + n <= Cap
        /\ "in" \in evs /\ (q > n <=> "out" \in evs)
  BY FlushFacts
<1>2. Settle(c, q, n, evs, why) BY <1>1 DEF Flush
<1>3. PICK s : s = <<>> OBVIOUS
<1>4. s \in Seq({"ask", "bad"}) /\ Len(s) = 0 BY <1>3, EmptySeq
<1>5. why = "eof" => n = q BY <1>1
<1>6. sent[c] \in Nat BY DEF IInv, Types
<1>7. Callback(c, q, n, evs, why, s)
  BY <1>1, <1>2, <1>3, <1>4, <1>5, <1>6 DEF Callback, Elsewhere
<1> QED BY <1>7, CallbackInv

LEMMA ErrorInv ==
    ASSUME IInv, NEW c \in Conns, cstate[c] = "live", Elsewhere,
           Close(c, "error"), UNCHANGED inq
    PROVE  IInv'
<1>1. PICK q \in Nat : q = out[c] BY DEF IInv, Types
<1>2. PICK evs \in SUBSET {"in", "out"} : evs = events[c] BY DEF IInv, Types
<1>3. PICK s \in Seq({"ask", "bad"}) : s = inq[c] BY DEF IInv, Types
<1>4. "in" \in evs BY <1>2 DEF IInv, Frames
<1>5. kbuf[c] + 0 <= Cap BY Constants DEF IInv, Types
<1>6. inq' = [inq EXCEPT ![c] = s] BY <1>3 DEF IInv, Types
<1>7. closeAfterFlush' = closeAfterFlush BY DEF Close
<1>8. c \in closeAfterFlush' => s = <<>> /\ fin[c] # "open" BY <1>3, <1>7 DEF IInv, Frames
<1>9. Settle(c, q, 0, evs, "error") BY <1>1, <1>2 DEF Close
<1>10. 0 \in 0 .. q BY <1>1
<1>11. Callback(c, q, 0, evs, "error", s)
  BY <1>4, <1>5, <1>6, <1>7, <1>8, <1>9, <1>10 DEF Callback, Elsewhere
<1> QED BY <1>11, CallbackInv

LEMMA QuietInv ==
    ASSUME IInv, Elsewhere, UNCHANGED <<inq, connVars, tableVars>>
    PROVE  IInv'
<1> USE DEF IInv, Elsewhere, connVars, tableVars
<1>1. Types' BY DEF Types
<1>2. Descriptors' BY DEF Descriptors, Open
<1>3. SubTables' BY DEF SubTables
<1>4. MainTables' BY DEF MainTables
<1>5. Frames' BY DEF Frames
<1> QED BY <1>1, <1>2, <1>3, <1>4, <1>5

\* What a live connection has to answer: what is in out, and what is unread.
LEMMA Account ==
    ASSUME IInv, NEW c \in Conns, cstate[c] = "live"
    PROVE  /\ out[c] \in Nat /\ inq[c] \in Seq({"ask", "bad"}) /\ Len(inq[c]) \in Nat
           /\ sent[c] \in Nat /\ sent[c] + (out[c] + Len(inq[c])) = asked[c]
<1>1. /\ out[c] \in Nat /\ inq[c] \in Seq({"ask", "bad"}) /\ sent[c] \in Nat
  BY DEF IInv, Types
<1>2. Len(inq[c]) \in Nat BY <1>1, LenProperties
<1>3. sent[c] + out[c] + Len(inq[c]) = asked[c] BY DEF IInv, Frames
<1> QED BY <1>1, <1>2, <1>3

LEMMA ReadInv ==
    ASSUME IInv, NEW c \in Conns, cstate[c] = "live", Elsewhere, OnRead(c)
    PROVE  IInv'
<1>1. CASE ReadFails(c) BY <1>1, ErrorInv DEF ReadFails
<1>2. CASE ReadNothing(c) BY <1>2, QuietInv DEF ReadNothing
<1>3. CASE ReadBad(c)
  <2>1. PICK k \in DOMAIN inq[c] : Flush(c, out[c] + k, "fatal") BY <1>3 DEF ReadBad
  <2>2. k \in Nat /\ out[c] + k \in Nat BY Account, LenProperties
  <2>3. PICK q \in Nat : q = out[c] + k BY <2>2
  <2>4. c \in closeAfterFlush' => fin[c] # "open" BY <1>3 DEF ReadBad, IInv, Frames
  <2> QED BY <1>3, <2>1, <2>3, <2>4, FlushInv DEF ReadBad
<1>4. CASE ReadFrames(c)
  <2>1. PICK q \in Nat : q = out[c] + Len(inq[c]) BY Account
  <2>2. sent[c] + q = asked[c] BY <2>1, Account
  <2>3. c \in closeAfterFlush' => fin[c] # "open" BY <1>4 DEF ReadFrames, IInv, Frames
  <2> QED BY <1>4, <2>1, <2>2, <2>3, FlushInv DEF ReadFrames
<1>5. CASE ReadEnd(c)
  <2>1. PICK q \in Nat : q = out[c] + Len(inq[c]) BY Account
  <2>2. sent[c] + q = asked[c] BY <2>1, Account
  <2>3. PICK why \in {"none", "half", "eof"} :
          why = IF fin[c] = "half" THEN "half" ELSE IF Taken(c, q) < q THEN "none" ELSE "eof"
    OBVIOUS
  <2>4. /\ Flush(c, q, why) /\ inq' = [inq EXCEPT ![c] = <<>>]
        /\ closeAfterFlush' \subseteq closeAfterFlush \union {c}
        /\ fin[c] # "open"
    BY <1>5, <2>1, <2>3 DEF ReadEnd
  <2>5. why = "eof" => ~(Taken(c, q) < q) BY <2>3
  <2> QED BY <2>2, <2>4, <2>5, FlushInv
<1> QED BY <1>1, <1>2, <1>3, <1>4, <1>5 DEF OnRead

LEMMA WriteInv ==
    ASSUME IInv, NEW c \in Conns, cstate[c] = "live", Elsewhere, OnWrite(c)
    PROVE  IInv'
<1>1. UNCHANGED <<inq, closeAfterFlush>> BY DEF OnWrite
<1>2. CASE fin[c] = "reset" /\ out[c] > 0
  BY <1>1, <1>2, ErrorInv DEF OnWrite
<1>3. CASE ~(fin[c] = "reset" /\ out[c] > 0)
  <2>1. PICK q \in Nat : q = out[c] BY Account
  <2>2. PICK why \in {"none", "eof"} :
          why = IF c \in closeAfterFlush /\ Taken(c, q) = q THEN "eof" ELSE "none"
    OBVIOUS
  <2>3. PICK n \in 0 .. q, evs \in SUBSET {"in", "out"} :
          /\ n = Taken(c, q) /\ evs = Wanted(c, q)
          /\ kbuf[c] + n <= Cap
          /\ "in" \in evs /\ (q > n <=> "out" \in evs)
    BY FlushFacts
  <2>4. PICK s \in Seq({"ask", "bad"}) : s = inq[c] BY Account
  <2>5. Settle(c, q, n, evs, why) BY <1>3, <2>1, <2>2, <2>3 DEF OnWrite, Flush
  <2>6. inq' = [inq EXCEPT ![c] = s] BY <1>1, <2>4 DEF IInv, Types
  <2>7. c \in closeAfterFlush => s = <<>> /\ fin[c] # "open" BY <2>4 DEF IInv, Frames
  <2>8. sent[c] + q + Len(s) = asked[c] /\ sent[c] \in Nat BY <2>1, <2>4, Account
  <2>9. why = "eof" => sent[c] + n = asked[c]
    <3> SUFFICES ASSUME why = "eof" PROVE sent[c] + n = asked[c] OBVIOUS
    <3>1. c \in closeAfterFlush /\ n = q BY <2>2, <2>3
    <3>2. Len(s) = 0 BY <3>1, <2>7, EmptySeq
    <3> QED BY <2>8, <3>1, <3>2
  <2>10. Callback(c, q, n, evs, why, s)
    BY <1>1, <2>2, <2>3, <2>5, <2>6, <2>7, <2>8, <2>9 DEF Callback, Elsewhere
  <2> QED BY <2>10, CallbackInv
<1> QED BY <1>2, <1>3

LEMMA DispatchInv ==
    ASSUME IInv, NEW t \in Threads, Dispatch(t)
    PROVE  IInv'
<1>1. PICK b \in batch[t] :
        /\ batch' = [batch EXCEPT ![t] = @ \ {b}]
        /\ IF cstate[b.conn] # "live"
           THEN UNCHANGED <<inq, connVars, tableVars>>
           ELSE \/ b.event = "in" /\ OnRead(b.conn)
                \/ b.event = "out" /\ OnWrite(b.conn)
                \/ b.event = "err" /\ Close(b.conn, "error") /\ UNCHANGED inq
        /\ UNCHANGED <<accepted, adopting, phase, fin, asked>>
  BY DEF Dispatch
<1>2. batch \in [Threads -> SUBSET [conn : Conns, event : {"in", "out", "err"}]]
  BY DEF IInv, Types
<1>3. Elsewhere BY <1>1, <1>2 DEF Elsewhere
<1>4. PICK c \in Conns : c = b.conn BY <1>1, <1>2
<1>5. CASE cstate[c] # "live" BY <1>1, <1>3, <1>4, <1>5, QuietInv
<1>6. CASE cstate[c] = "live"
  <2>1. CASE OnRead(c) BY <1>3, <1>6, <2>1, ReadInv
  <2>2. CASE OnWrite(c) BY <1>3, <1>6, <2>2, WriteInv
  <2>3. CASE Close(c, "error") /\ UNCHANGED inq BY <1>3, <1>6, <2>3, ErrorInv
  <2> QED BY <1>1, <1>4, <1>6, <2>1, <2>2, <2>3
<1> QED BY <1>5, <1>6

----------------------------------------------------------------------------
(* The loops, the peers and the accept *)

\* An epoll reports events of connections.
LEMMA ReportedType ==
    ASSUME IInv, NEW t \in Threads
    PROVE  Reported(t) \subseteq [conn : Conns, event : {"in", "out", "err"}]
<1> SUFFICES ASSUME NEW b \in Reported(t)
             PROVE  b \in [conn : Conns, event : {"in", "out", "err"}]
  OBVIOUS
<1>1. PICK f \in Fds :
        /\ epoll[t][f] # Unset
        /\ b \in {[conn |-> epoll[t][f].conn, event |-> v] :
                  v \in (epoll[t][f].events \union {"err"}) \cap Happening(epoll[t][f].conn)}
  BY DEF Reported
<1>2. epoll[t][f].conn \in Conns BY <1>1, Constants DEF IInv, SubTables, MainTables
<1>3. epoll[t][f] \in Entries BY DEF IInv, Types
<1>4. epoll[t][f].events \union {"err"} \subseteq {"in", "out", "err"} BY <1>3 DEF Entries
<1> QED BY <1>1, <1>2, <1>4

LEMMA PollInv ==
    ASSUME IInv, SubPoll \/ MainPoll
    PROVE  IInv'
<1>1. PICK t \in Threads : batch' = [batch EXCEPT ![t] = Reported(t)]
  BY Constants DEF SubPoll, MainPoll
<1>2. batch \in [Threads -> SUBSET [conn : Conns, event : {"in", "out", "err"}]]
  BY DEF IInv, Types
<1>3. batch' \in [Threads -> SUBSET [conn : Conns, event : {"in", "out", "err"}]]
  BY <1>1, <1>2, ReportedType
<1>4. Elsewhere /\ UNCHANGED <<inq, connVars, tableVars>>
  BY <1>3 DEF Elsewhere, SubPoll, MainPoll, sockVars
<1> QED BY <1>4, QuietInv

LEMMA PeerInv ==
    ASSUME IInv, NEW c \in Conns,
           \/ \E frame \in {"ask", "bad"} : PeerSends(c, frame)
           \/ \E how \in {"fin", "half", "reset"} : PeerEnds(c, how)
           \/ PeerReads(c)
    PROVE  IInv'
<1>1. CASE \E frame \in {"ask", "bad"} : PeerSends(c, frame)
  <2>1. PICK frame \in {"ask", "bad"} : PeerSends(c, frame) BY <1>1
  <2> USE <2>1 DEF PeerSends, connVars, tableVars
  <2>2. PICK k \in Nat : k = asked[c] BY DEF IInv, Types
  <2>3. PICK s \in Seq({"ask", "bad"}) : s = inq[c] BY DEF IInv, Types
  <2>4. /\ asked' = [asked EXCEPT ![c] = k + 1]
        /\ inq' = [inq EXCEPT ![c] = Append(s, frame)]
    BY <2>2, <2>3
  <2>5. /\ Append(s, frame) \in Seq({"ask", "bad"})
        /\ Len(s) \in Nat /\ Len(Append(s, frame)) = Len(s) + 1
    BY AppendProperties, LenProperties
  <2>6. Types' BY <2>4, <2>5 DEF IInv, Types
  <2>7. Descriptors' BY DEF IInv, Descriptors, Open
  <2>8. SubTables' BY DEF IInv, SubTables
  <2>9. MainTables' BY DEF IInv, MainTables
  <2>10. \A d \in Conns : cstate'[d] \in {"new", "accepted", "live"} =>
           sent'[d] + out'[d] + Len(inq'[d]) = asked'[d]
    <3> SUFFICES ASSUME NEW d \in Conns, cstate[d] \in {"new", "accepted", "live"}
                 PROVE  sent[d] + out[d] + Len(inq'[d]) = asked'[d]
      OBVIOUS
    <3>1. sent[d] + out[d] + Len(inq[d]) = asked[d] BY DEF IInv, Frames
    <3>2. sent[d] \in Nat /\ out[d] \in Nat BY DEF IInv, Types
    <3>3. CASE d # c BY <2>4, <3>1, <3>3 DEF IInv, Types
    <3>4. CASE d = c
      <4>1. inq'[c] = Append(s, frame) /\ asked'[c] = k + 1 BY <2>4 DEF IInv, Types
      <4> QED BY <2>2, <2>3, <2>5, <3>1, <3>2, <3>4, <4>1
    <3> QED BY <3>3, <3>4
  <2>11. c \notin closeAfterFlush BY DEF IInv, Frames
  <2>12. \A d \in Conns \ {c} : inq'[d] = inq[d] /\ asked'[d] = asked[d]
    BY DEF IInv, Types
  <2>13. closeAfterFlush \subseteq Conns BY DEF IInv, Types
  <2>14. reason[c] # "eof" BY DEF IInv, Frames, Open
  <2>15. Frames' BY <2>10, <2>11, <2>12, <2>13, <2>14 DEF IInv, Frames
  <2> QED BY <2>6, <2>7, <2>8, <2>9, <2>15 DEF IInv
<1>2. CASE \E how \in {"fin", "half", "reset"} : PeerEnds(c, how)
  <2> USE <1>2 DEF PeerEnds, connVars, tableVars
  <2>1. Types' BY DEF IInv, Types
  <2>2. Descriptors' BY DEF IInv, Descriptors, Open
  <2>3. SubTables' BY DEF IInv, SubTables
  <2>4. MainTables' BY DEF IInv, MainTables
  <2>5. \A d \in Conns : fin'[d] = fin[d] \/ fin'[d] # "open" BY DEF IInv, Types
  <2>6. closeAfterFlush \subseteq Conns BY DEF IInv, Types
  <2>7. Frames' BY <2>5, <2>6 DEF IInv, Frames
  <2> QED BY <2>1, <2>2, <2>3, <2>4, <2>7 DEF IInv
<1>3. CASE PeerReads(c)
  <2> USE <1>3 DEF PeerReads, sockVars, tableVars
  <2>1. kbuf' \in [Conns -> 0 .. Cap]
    <3>1. kbuf[c] \in 0 .. Cap /\ kbuf[c] > 0 BY DEF IInv, Types
    <3>2. kbuf[c] - 1 \in 0 .. Cap BY <3>1, Constants
    <3> QED BY <3>2 DEF IInv, Types
  <2>2. Types' BY <2>1 DEF IInv, Types
  <2>3. Descriptors' BY DEF IInv, Descriptors, Open
  <2>4. SubTables' BY DEF IInv, SubTables
  <2>5. MainTables' BY DEF IInv, MainTables
  <2>6. Frames' BY DEF IInv, Frames
  <2> QED BY <2>2, <2>3, <2>4, <2>5, <2>6 DEF IInv
<1> QED BY <1>1, <1>2, <1>3

LEMMA AcceptInv == ASSUME IInv, OnAccept PROVE IInv'
<1>1. PICK c : c = accepted + 1 OBVIOUS
<1>2. PICK f \in Fds \ UsedFds : fdOf' = [fdOf EXCEPT ![c] = f] BY <1>1 DEF OnAccept
<1>3. c \in Conns /\ accepted \in Nat BY <1>1, Constants DEF OnAccept, Conns, IInv, Types
<1>4. cstate[c] = "new" BY <1>1, <1>3 DEF IInv, Descriptors
<1>5. \A d \in Conns : Open(d) => fdOf[d] # f BY <1>2 DEF UsedFds
<1>6. /\ accepted' = c /\ adopting' = adopting \union {c}
      /\ cstate' = [cstate EXCEPT ![c] = "accepted"]
      /\ UNCHANGED <<batch, tableVars, sockVars, events, out, closeAfterFlush, kbuf, sent, reason>>
  BY <1>1 DEF OnAccept
<1>7. \A d \in Conns : /\ cstate'[d] = IF d = c THEN "accepted" ELSE cstate[d]
                       /\ fdOf'[d] = IF d = c THEN f ELSE fdOf[d]
  BY <1>2, <1>6 DEF IInv, Types
<1> USE <1>6 DEF tableVars, sockVars
<1>8. Types'
  <2>1. accepted' \in 0 .. MaxConns BY <1>3, Constants DEF Conns
  <2> QED BY <2>1, <1>2, <1>3 DEF IInv, Types
<1>9. Descriptors'
  <2>1. \A d \in Conns : accepted' < d => cstate'[d] = "new"
    BY <1>1, <1>3, <1>7, Constants DEF IInv, Descriptors
  <2>2. \A d \in Conns : Open(d)' => fdOf'[d] \in Fds
    BY <1>2, <1>7 DEF IInv, Descriptors, Open
  <2>3. \A d, e \in Conns : Open(d)' /\ Open(e)' /\ fdOf'[d] = fdOf'[e] => d = e
    BY <1>5, <1>7 DEF IInv, Descriptors, Open
  <2>4. \A d \in adopting' : cstate'[d] = "accepted"
    BY <1>3, <1>7 DEF IInv, Descriptors, Types
  <2> QED BY <2>1, <2>2, <2>3, <2>4 DEF Descriptors
<1>10. SubTables'
  <2>1. ASSUME NEW g \in Fds, channels["sub"][g] # NoConn
        PROVE  cstate'[channels["sub"][g]] = "live" /\ fdOf'[channels["sub"][g]] = g
    <3>1. channels["sub"][g] \in Conns \ {c}
      BY <1>4, <2>1, Constants DEF IInv, SubTables, Types
    <3> QED BY <1>7, <2>1, <3>1 DEF IInv, SubTables
  <2> QED BY <1>4, <1>7, <2>1 DEF IInv, SubTables
<1>11. MainTables'
  <2>1. ASSUME NEW g \in Fds, channels["main"][g] # NoConn
        PROVE  cstate'[channels["main"][g]] \in {"live", "closed", "freed"}
    <3>1. channels["main"][g] \in Conns \ {c}
      BY <1>4, <2>1, Constants DEF IInv, MainTables, Types
    <3> QED BY <1>7, <2>1, <3>1 DEF IInv, MainTables
  <2> QED BY <1>4, <1>7, <2>1 DEF IInv, MainTables
<1>12. Frames' BY <1>4, <1>7 DEF IInv, Frames
<1> QED BY <1>8, <1>9, <1>10, <1>11, <1>12 DEF IInv

\* The descriptors of queued connections are free in the tables of the owner,
\* so that every EPOLL_CTL_ADD succeeds.
LEMMA AdoptTables ==
    ASSUME IInv, Adopt
    PROVE  /\ \A c \in adopting :
                channels'["sub"][fdOf[c]] = c /\ epoll'["sub"][fdOf[c]] = [conn |-> c, events |-> {"in"}]
           /\ \A f \in Fds : (\A c \in adopting : fdOf[c] # f) =>
                channels'["sub"][f] = channels["sub"][f] /\ epoll'["sub"][f] = epoll["sub"][f]
           /\ channels'["main"] = channels["main"] /\ epoll'["main"] = epoll["main"]
           /\ channels' \in [Threads -> [Fds -> Conns \union {NoConn}]]
           /\ epoll' \in [Threads -> [Fds -> Entries]]
<1> DEFINE New == {c \in adopting : UpdateSucceeds("sub", fdOf[c])}
           Newcomer(f) == {c \in New : fdOf[c] = f}
           ch == [f \in Fds |-> IF Newcomer(f) = {} THEN channels["sub"][f] ELSE Min(Newcomer(f))]
           ep == [f \in Fds |-> IF Newcomer(f) = {} THEN epoll["sub"][f]
                                ELSE [conn |-> Min(Newcomer(f)), events |-> {"in"}]]
<1>1. \A c \in adopting : c \in Conns /\ c \in Nat /\ cstate[c] = "accepted" /\ fdOf[c] \in Fds
  BY Constants DEF IInv, Types, Descriptors, Open
<1>2. ASSUME NEW c \in adopting PROVE UpdateSucceeds("sub", fdOf[c])
  <2>1. channels["sub"][fdOf[c]] = NoConn
    <3> SUFFICES ASSUME channels["sub"][fdOf[c]] # NoConn PROVE FALSE OBVIOUS
    <3>1. channels["sub"][fdOf[c]] \in Conns BY <1>1, Constants DEF IInv, Types
    <3> QED BY <1>1, <3>1 DEF IInv, SubTables, Descriptors, Open
  <2>2. epoll["sub"][fdOf[c]] = Unset BY <1>1 DEF IInv, SubTables, Descriptors, Open
  <2> QED BY <2>1, <2>2 DEF UpdateSucceeds
<1>3. New = adopting BY <1>2
<1>4. ASSUME NEW c \in adopting PROVE Newcomer(fdOf[c]) = {c} /\ Min(Newcomer(fdOf[c])) = c
  <2>1. Newcomer(fdOf[c]) = {c} BY <1>1, <1>3 DEF IInv, Descriptors, Open
  <2>2. Min({c}) = c BY <1>1 DEF Min
  <2> QED BY <2>1, <2>2
<1>5. \A f \in Fds : (\A c \in adopting : fdOf[c] # f) => Newcomer(f) = {} BY <1>3
<1>6. \A f \in Fds : Newcomer(f) # {} => \E c \in adopting : fdOf[c] = f BY <1>3
<1>7. channels' = [channels EXCEPT !["sub"] = ch] /\ epoll' = [epoll EXCEPT !["sub"] = ep]
  BY Constants DEF Adopt, IInv, Types
<1>8. ch \in [Fds -> Conns \union {NoConn}]
  <2> SUFFICES ASSUME NEW f \in Fds PROVE ch[f] \in Conns \union {NoConn} OBVIOUS
  <2>1. channels["sub"][f] \in Conns \union {NoConn} BY Constants DEF IInv, Types
  <2> QED BY <1>1, <1>4, <1>6, <2>1
<1>9. ep \in [Fds -> Entries]
  <2> SUFFICES ASSUME NEW f \in Fds PROVE ep[f] \in Entries OBVIOUS
  <2>1. epoll["sub"][f] \in Entries BY Constants DEF IInv, Types
  <2>2. \A c \in adopting : [conn |-> c, events |-> {"in"}] \in Entries BY <1>1 DEF Entries
  <2> QED BY <1>4, <1>6, <2>1, <2>2
<1>10. \A c \in adopting : ch[fdOf[c]] = c /\ ep[fdOf[c]] = [conn |-> c, events |-> {"in"}]
  BY <1>1, <1>4
<1>11. \A f \in Fds : (\A c \in adopting : fdOf[c] # f) =>
         ch[f] = channels["sub"][f] /\ ep[f] = epoll["sub"][f]
  BY <1>5
<1>12. channels \in [Threads -> [Fds -> Conns \union {NoConn}]] /\ epoll \in [Threads -> [Fds -> Entries]]
  BY DEF IInv, Types
<1> HIDE DEF ch, ep
<1>13. /\ channels'["sub"] = ch /\ channels'["main"] = channels["main"]
       /\ epoll'["sub"] = ep /\ epoll'["main"] = epoll["main"]
  BY <1>7, <1>12, Constants
<1> QED BY <1>7, <1>8, <1>9, <1>10, <1>11, <1>12, <1>13

LEMMA AdoptInv == ASSUME IInv, Adopt PROVE IInv'
<1>1. adopting \subseteq Conns /\ \A c \in adopting : cstate[c] = "accepted" /\ fdOf[c] \in Fds
  BY DEF IInv, Types, Descriptors, Open
<1>2. \A c \in Conns : /\ cstate'[c] = IF c \in adopting THEN "live" ELSE cstate[c]
                       /\ events'[c] = IF c \in adopting THEN {"in"} ELSE events[c]
  BY DEF Adopt
<1>3. /\ adopting' = {}
      /\ UNCHANGED <<accepted, batch, inq, fin, asked, fdOf, out, closeAfterFlush, kbuf, sent, reason>>
  BY DEF Adopt, sockVars
<1> USE <1>3
<1>4. Types'
  <2>1. cstate' \in [Conns -> {"new", "accepted", "live", "closed", "freed"}]
        /\ events' \in [Conns -> SUBSET {"in", "out"}]
    BY DEF Adopt, IInv, Types
  <2> QED BY <2>1, AdoptTables DEF IInv, Types
<1>5. Descriptors' BY <1>1, <1>2 DEF IInv, Descriptors, Open
<1>6. SubTables'
  <2>1. ASSUME NEW f \in Fds, NEW c \in adopting, fdOf[c] = f
        PROVE  /\ channels'["sub"][f] = c /\ epoll'["sub"][f] = [conn |-> c, events |-> {"in"}]
               /\ cstate'[c] = "live" /\ fdOf'[c] = f /\ c \in Conns
    BY <1>1, <1>2, <2>1, AdoptTables
  <2>2. ASSUME NEW f \in Fds, \A c \in adopting : fdOf[c] # f
        PROVE  channels'["sub"][f] = channels["sub"][f] /\ epoll'["sub"][f] = epoll["sub"][f]
    BY <2>2, AdoptTables
  <2>3. ASSUME NEW f \in Fds, channels'["sub"][f] # NoConn
        PROVE  cstate'[channels'["sub"][f]] = "live" /\ fdOf'[channels'["sub"][f]] = f
    <3>1. CASE \E c \in adopting : fdOf[c] = f
      <4>1. PICK c \in adopting : fdOf[c] = f BY <3>1
      <4>2. channels'["sub"][f] = c /\ cstate'[c] = "live" /\ fdOf'[c] = f BY <2>1, <4>1
      <4> QED BY <4>2
    <3>2. CASE \A c \in adopting : fdOf[c] # f
      <4>1. channels["sub"][f] \in Conns BY <2>2, <2>3, <3>2, Constants DEF IInv, Types
      <4> QED BY <1>1, <1>2, <2>2, <2>3, <3>2, <4>1 DEF IInv, SubTables
    <3> QED BY <3>1, <3>2
  <2>4. ASSUME NEW f \in Fds, epoll'["sub"][f] # Unset
        PROVE  /\ epoll'["sub"][f].conn \in Conns
               /\ cstate'[epoll'["sub"][f].conn] = "live" /\ fdOf'[epoll'["sub"][f].conn] = f
    <3>1. CASE \E c \in adopting : fdOf[c] = f
      <4>1. PICK c \in adopting : fdOf[c] = f BY <3>1
      <4>2. /\ epoll'["sub"][f] = [conn |-> c, events |-> {"in"}]
            /\ cstate'[c] = "live" /\ fdOf'[c] = f /\ c \in Conns
        BY <2>1, <4>1
      <4> QED BY <4>2
    <3>2. CASE \A c \in adopting : fdOf[c] # f
      BY <1>1, <1>2, <2>2, <2>4, <3>2 DEF IInv, SubTables
    <3> QED BY <3>1, <3>2
  <2>5. ASSUME NEW c \in Conns, cstate'[c] = "live"
        PROVE  /\ channels'["sub"][fdOf'[c]] = c
               /\ epoll'["sub"][fdOf'[c]] = [conn |-> c, events |-> {"in"}]
    <3>1. CASE c \in adopting BY <1>1, <2>1, <3>1
    <3>2. CASE c \notin adopting
      <4>1. cstate[c] = "live" BY <1>2, <2>5, <3>2
      <4>2. fdOf[c] \in Fds /\ \A d \in adopting : fdOf[d] # fdOf[c]
        BY <1>1, <3>2, <4>1 DEF IInv, Descriptors, Open
      <4> QED BY <2>2, <4>1, <4>2 DEF IInv, SubTables
    <3> QED BY <3>1, <3>2
  <2> QED BY <2>3, <2>4, <2>5 DEF SubTables
<1>7. MainTables'
  <2>1. channels'["main"] = channels["main"] /\ epoll'["main"] = epoll["main"] BY AdoptTables
  <2>2. ASSUME NEW f \in Fds, channels["main"][f] # NoConn
        PROVE  cstate'[channels["main"][f]] \in {"live", "closed", "freed"}
    <3>1. channels["main"][f] \in Conns BY <2>2, Constants DEF IInv, Types
    <3> QED BY <1>2, <2>2, <3>1 DEF IInv, MainTables
  <2>3. ASSUME NEW c \in Conns, cstate'[c] = "live"
        PROVE  /\ channels["main"][fdOf[c]] = c =>
                     epoll["main"][fdOf[c]] = [conn |-> c, events |-> events'[c]]
               /\ channels["main"][fdOf[c]] = NoConn => "out" \notin events'[c]
    <3>1. CASE c \in adopting
      <4>1. fdOf[c] \in Fds /\ cstate[c] = "accepted" /\ c # NoConn BY <1>1, <3>1, Constants
      <4>2. channels["main"][fdOf[c]] # c BY <4>1 DEF IInv, MainTables
      <4> QED BY <1>2, <3>1, <4>2
    <3>2. CASE c \notin adopting BY <1>2, <2>3, <3>2 DEF IInv, MainTables
    <3> QED BY <3>1, <3>2
  <2> QED BY <1>1, <1>2, <2>1, <2>2, <2>3 DEF IInv, MainTables
<1>8. Frames'
  <2>1. \A c \in Conns : out[c] \in Nat BY DEF IInv, Types
  <2>2. \A c \in adopting : out[c] = 0 BY <1>1 DEF IInv, Frames
  <2> QED BY <1>1, <1>2, <2>1, <2>2 DEF IInv, Frames
<1> QED BY <1>4, <1>5, <1>6, <1>7, <1>8 DEF IInv

LEMMA SafePointInv == ASSUME IInv, SafePoint PROVE IInv'
<1> USE DEF SafePoint, tableVars, sockVars
<1>1. \A c \in Conns : cstate'[c] = IF cstate[c] = "closed" THEN "freed" ELSE cstate[c]
  OBVIOUS
<1>2. Types' BY DEF IInv, Types
<1>3. Descriptors' BY <1>1 DEF IInv, Types, Descriptors, Open
<1>4. SubTables'
  <2>1. \A f \in Fds : channels["sub"][f] \in Conns \union {NoConn} BY Constants DEF IInv, Types
  <2> QED BY <1>1, <2>1 DEF IInv, SubTables
<1>5. MainTables'
  <2>1. \A f \in Fds : channels["main"][f] \in Conns \union {NoConn} BY Constants DEF IInv, Types
  <2> QED BY <1>1, <2>1 DEF IInv, MainTables
<1>6. Frames' BY <1>1 DEF IInv, Frames
<1> QED BY <1>2, <1>3, <1>4, <1>5, <1>6 DEF IInv

LEMMA StepInv == IInv /\ [Next]_vars => IInv'
<1> SUFFICES ASSUME IInv, [Next]_vars PROVE IInv' OBVIOUS
<1>1. CASE UNCHANGED vars \/ SubEventsDone
  <2>1. Elsewhere /\ UNCHANGED <<inq, connVars, tableVars>>
    BY <1>1 DEF vars, SubEventsDone, Elsewhere, sockVars, IInv, Types
  <2> QED BY <2>1, QuietInv
<1>2. CASE \E c \in Conns :
        \/ PeerSends(c, "ask") \/ PeerSends(c, "bad")
        \/ PeerEnds(c, "fin") \/ PeerEnds(c, "half") \/ PeerEnds(c, "reset")
        \/ PeerReads(c)
  BY <1>2, PeerInv
<1>3. CASE OnAccept BY <1>3, AcceptInv
<1>4. CASE SubPoll \/ MainPoll BY <1>4, PollInv
<1>5. CASE \E t \in Threads : Dispatch(t) BY <1>5, DispatchInv
<1>6. CASE Adopt BY <1>6, AdoptInv
<1>7. CASE SafePoint BY <1>7, SafePointInv
<1> QED BY <1>1, <1>2, <1>3, <1>4, <1>5, <1>6, <1>7 DEF Next

LEMMA Inductive == Spec => []IInv
BY InitInv, StepInv, PTL DEF Spec

----------------------------------------------------------------------------
\* The interest lists of both loops hold live connections under their own
\* descriptors only, and every live connection is registered for reading with
\* its owner (chat_server.cpp:570-571 and 1027-1029).
THEOREM EpollsCorrect == Spec => []EpollsMatch
<1>1. IInv => EpollsMatch
  BY Constants DEF IInv, SubTables, MainTables, EpollsMatch, SubRegistered, NoDanglingEntry
<1> QED BY <1>1, Inductive, PTL

\* A connection closed because its peer closed its direction has been sent
\* every answer, in any mix of full buffers, partial sends and late frames
\* (chat_server.cpp:651-752 and 1119-1124).
THEOREM HalfCloseCorrect == Spec => []HalfCloseAnswersAll
<1>1. IInv => HalfCloseAnswersAll BY DEF IInv, Frames, HalfCloseAnswersAll
<1> QED BY <1>1, Inductive, PTL

\* Output that is left waits for a writable event, unless an earlier connection
\* on the descriptor is still in the main loop's channels_ (Poller.hpp:32).
THEOREM ArmedCorrect == Spec => []OutputArmedUnlessReused
<1>1. ASSUME IInv PROVE OutputArmedUnlessReused
  <2> SUFFICES ASSUME NEW c \in Conns, cstate[c] = "live", out[c] > 0,
                      channels["main"][fdOf[c]] \in {NoConn, c}
               PROVE  epoll["main"][fdOf[c]] = [conn |-> c, events |-> {"in", "out"}]
    BY DEF OutputArmedUnlessReused
  <2>1. events[c] = {"in", "out"} BY <1>1 DEF IInv, Types, Frames
  <2>2. channels["main"][fdOf[c]] = c BY <1>1, <2>1 DEF IInv, MainTables
  <2> QED BY <1>1, <2>1, <2>2 DEF IInv, MainTables
<1> QED BY <1>1, Inductive, PTL

\* No epoll is asked for writable events of a connection with nothing to write
\* (chat_server.cpp:1083-1084 and 1114-1118).
THEOREM IdleCorrect == Spec => []NoIdleWritable
<1>1. ASSUME IInv PROVE NoIdleWritable
  <2> SUFFICES ASSUME NEW t \in Threads, NEW f \in Fds, "out" \in epoll[t][f].events
               PROVE  out[epoll[t][f].conn] > 0
    BY DEF NoIdleWritable
  <2>1. epoll[t][f] # Unset BY DEF Unset
  <2>2. CASE t = "sub"
    <3>1. /\ epoll["sub"][f].conn \in Conns
          /\ cstate[epoll["sub"][f].conn] = "live" /\ fdOf[epoll["sub"][f].conn] = f
      BY <1>1, <2>1, <2>2 DEF IInv, SubTables
    <3>2. PICK c \in Conns : c = epoll["sub"][f].conn BY <3>1
    <3>3. epoll["sub"][f] = [conn |-> c, events |-> {"in"}]
      BY <1>1, <3>1, <3>2 DEF IInv, SubTables
    <3> QED BY <2>2, <3>3
  <2>3. CASE t = "main" BY <1>1, <2>1, <2>3 DEF IInv, MainTables, Frames
  <2> QED BY <2>2, <2>3, Constants
<1> QED BY <1>1, Inductive, PTL
============================================================================
