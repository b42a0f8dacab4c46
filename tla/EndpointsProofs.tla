-------------------------- MODULE EndpointsProofs --------------------------
(***************************************************************************)
(* Proofs about the two ends of a chat connection: the client writes whole *)
(* frames (StreamAligned) and loses none of the server's (ReceivedExactly),*)
(* its window shows the state of the connection (WindowTruthful), the      *)
(* server handles the frames of any stream however it is cut               *)
(* (EveryFrameHandled), and from one end to the other the frames handled   *)
(* are those the client reported as queued (HandledAsReported).            *)
(*                                                                         *)
(* Streams are compared through Reads and Behind, so a proof needs what    *)
(* FlattenSeq does to one frame more.  FlattenSeq is a recursive function; *)
(* instead of an induction, the lemmas look at the least length for which  *)
(* the fact would fail.                                                    *)
(***************************************************************************)
EXTENDS Endpoints, TLAPS, SequenceTheorems, WellFoundedInduction

----------------------------------------------------------------------------
(* FlattenSeq *)
\* A set of numbers has a least one: what takes the place of induction.
LEMMA Least ==
    ASSUME NEW T \in SUBSET Nat, T # {}
    PROVE  \E k \in T : \A m \in T : k <= m
<1> DEFINE less == {p \in Nat \X Nat : p[1] < p[2]}
<1>1. IsWellFoundedOn(less, Nat) BY NatLessThanWellFounded DEF OpToRel
<1>2. \E k \in T : \A m \in T : <<m, k>> \notin less
  <2> HIDE DEF less
  <2> QED BY <1>1, WFMin
<1>3. PICK k \in T : \A m \in T : <<m, k>> \notin less BY <1>2
<1>4. \A m \in T : ~(m < k)
  <2> SUFFICES ASSUME NEW m \in T, m < k PROVE FALSE OBVIOUS
  <2>1. <<m, k>> \in Nat \X Nat /\ <<m, k>>[1] < <<m, k>>[2] OBVIOUS
  <2>2. <<m, k>> \in less BY <2>1, Zenon
  <2> QED BY <1>3, <2>2
<1> QED BY <1>4

\* The function FlattenSeq is built from, up to the n-th sequence.
Flat(s, n, f) == f = [i \in 1 .. n |-> IF i = 1 THEN s[i] ELSE f[i - 1] \o s[i]]

LEMMA FlatFacts ==
    ASSUME NEW s, NEW n \in Nat, NEW f, Flat(s, n, f)
    PROVE  /\ DOMAIN f = 1 .. n
           /\ n # 0 => f[1] = s[1]
           /\ \A i \in 1 .. n : i # 1 => f[i] = f[i - 1] \o s[i]
<1>1. PICK g : g = [i \in 1 .. n |-> IF i = 1 THEN s[i] ELSE f[i - 1] \o s[i]]
  OBVIOUS
<1>2. f = g BY <1>1, Zenon DEF Flat
<1>3. DOMAIN g = 1 .. n BY <1>1
<1>4. \A i \in 1 .. n : g[i] = IF i = 1 THEN s[i] ELSE f[i - 1] \o s[i]
  BY <1>1
<1>5. n # 0 => 1 \in 1 .. n OBVIOUS
<1> QED BY <1>2, <1>3, <1>4, <1>5

LEMMA FlatFirst ==
    ASSUME NEW s, NEW n \in Nat, n # 0, NEW f, Flat(s, n, f)
    PROVE  f[1] = s[1]
<1>1. PICK g : g = [i \in 1 .. n |-> IF i = 1 THEN s[i] ELSE f[i - 1] \o s[i]]
  OBVIOUS
<1>2. f = g BY <1>1, Zenon DEF Flat
<1>3. 1 \in 1 .. n OBVIOUS
<1>4. g[1] = s[1] BY <1>1, <1>3
<1> QED BY <1>2, <1>4

LEMMA FlatExists ==
    ASSUME NEW s, NEW n \in Nat
    PROVE  \E f : Flat(s, n, f)
<1> DEFINE T == {k \in Nat : ~\E f : Flat(s, k, f)}
<1>1. ASSUME NEW k \in T, \A m \in T : k <= m PROVE FALSE
  <2>1. CASE k = 0
    <3>1. PICK e : e = [i \in 1 .. 0 |-> s[i]] OBVIOUS
    <3>2. Flat(s, 0, e) BY <3>1 DEF Flat
    <3> QED BY <2>1, <3>2
  <2>2. CASE k # 0
    <3>1. k - 1 \in Nat /\ k - 1 \notin T BY <1>1, <2>2
    <3>2. PICK f : Flat(s, k - 1, f) BY <3>1
    <3>3. DOMAIN f = 1 .. k - 1
          /\ \A i \in 1 .. k - 1 : f[i] = IF i = 1 THEN s[i] ELSE f[i - 1] \o s[i]
      BY <3>1, <3>2 DEF Flat
    <3>4. PICK g : g = [i \in 1 .. k |-> IF i # k THEN f[i]
                                         ELSE IF i = 1 THEN s[i] ELSE f[i - 1] \o s[i]]
      OBVIOUS
    <3>5. \A i \in 1 .. k - 1 : i \in 1 .. k /\ i # k /\ g[i] = f[i] BY <3>4
    <3>6. ASSUME NEW i \in 1 .. k
          PROVE  g[i] = IF i = 1 THEN s[i] ELSE g[i - 1] \o s[i]
      <4>1. CASE i = k
        <5>1. k # 1 => k - 1 \in 1 .. k - 1 OBVIOUS
        <5>2. k # 1 => g[k - 1] = f[k - 1] BY <3>5, <5>1
        <5> QED BY <3>4, <4>1, <5>2
      <4>2. CASE i # k
        <5>1. i \in 1 .. k - 1 BY <4>2
        <5>2. i # 1 => i - 1 \in 1 .. k - 1 BY <5>1
        <5> QED BY <3>3, <3>5, <5>1, <5>2
      <4> QED BY <4>1, <4>2
    <3>7. g = [i \in 1 .. k |-> IF i = 1 THEN s[i] ELSE g[i - 1] \o s[i]]
      BY <3>4, <3>6
    <3>8. Flat(s, k, g) BY <3>7 DEF Flat
    <3> QED BY <3>8
  <2> QED BY <2>1, <2>2
<1>2. T \in SUBSET Nat OBVIOUS
<1>3. T = {}
  <2> HIDE DEF T
  <2> QED BY <1>1, <1>2, Least
<1> QED BY <1>3

LEMMA Flattened ==
    ASSUME NEW W, NEW s \in Seq(Seq(W)), Len(s) # 0
    PROVE  \E f : Flat(s, Len(s), f) /\ FlattenSeq(s) = f[Len(s)]
<1> DEFINE g == CHOOSE f : Flat(s, Len(s), f)
<1>1. Flat(s, Len(s), g)
  <2>1. Len(s) \in Nat OBVIOUS
  <2> QED BY <2>1, FlatExists
<1>2. FlattenSeq(s) = g[Len(s)] BY DEF FlattenSeq, Flat
<1> QED BY <1>1, <1>2

LEMMA FlatTyped ==
    ASSUME NEW W, NEW s \in Seq(Seq(W)), NEW f, Flat(s, Len(s), f)
    PROVE  \A i \in 1 .. Len(s) : f[i] \in Seq(W)
<1> DEFINE T == {i \in 1 .. Len(s) : f[i] \notin Seq(W)}
<1>1. Len(s) \in Nat /\ \A i \in 1 .. Len(s) : s[i] \in Seq(W) OBVIOUS
<1>2. /\ Len(s) # 0 => f[1] = s[1]
      /\ \A i \in 1 .. Len(s) : i # 1 => f[i] = f[i - 1] \o s[i]
  <2>1. PICK n \in Nat : n = Len(s) BY <1>1
  <2>2. Flat(s, n, f) BY <2>1
  <2>3. /\ DOMAIN f = 1 .. n
        /\ n # 0 => f[1] = s[1]
        /\ \A i \in 1 .. n : i # 1 => f[i] = f[i - 1] \o s[i]
    BY <2>2, FlatFacts, Zenon
  <2> QED BY <2>1, <2>3
<1>3. ASSUME NEW k \in T, \A m \in T : k <= m PROVE FALSE
  <2>1. CASE k = 1 BY <1>1, <1>2, <2>1
  <2>2. CASE k # 1
    <3>1. k - 1 \in 1 .. Len(s) /\ k - 1 < k BY <1>1, <2>2
    <3>2. f[k - 1] \in Seq(W) BY <1>3, <3>1
    <3>3. f[k] = f[k - 1] \o s[k] /\ s[k] \in Seq(W) BY <1>1, <1>2, <2>2
    <3>4. f[k] \in Seq(W) BY <3>2, <3>3, ConcatProperties
    <3> QED BY <3>4
  <2> QED BY <2>1, <2>2
<1>4. T \in SUBSET Nat OBVIOUS
<1>5. T = {}
  <2> HIDE DEF T
  <2> QED BY <1>3, <1>4, Least
<1> QED BY <1>5

\* Two sequences that begin alike are flattened alike.
Alike(s, r, n) == \A i \in 1 .. n : r[i] = s[i]

LEMMA FlatAgree ==
    ASSUME NEW s, NEW r, NEW n \in Nat, NEW f, NEW g,
           Flat(s, n, f), Flat(r, n + 1, g), Alike(s, r, n)
    PROVE  \A i \in 1 .. n : g[i] = f[i]
<1> DEFINE T == {i \in 1 .. n : g[i] # f[i]}
<1>1. /\ n # 0 => f[1] = s[1] /\ g[1] = r[1]
      /\ \A i \in 1 .. n : i # 1 => f[i] = f[i - 1] \o s[i] /\ g[i] = g[i - 1] \o r[i]
  <2>1. /\ DOMAIN f = 1 .. n
        /\ n # 0 => f[1] = s[1]
        /\ \A i \in 1 .. n : i # 1 => f[i] = f[i - 1] \o s[i]
    BY FlatFacts, Zenon
  <2>2. /\ DOMAIN g = 1 .. n + 1
        /\ n + 1 # 0 => g[1] = r[1]
        /\ \A i \in 1 .. n + 1 : i # 1 => g[i] = g[i - 1] \o r[i]
    <3>1. n + 1 \in Nat OBVIOUS
    <3> QED BY <3>1, FlatFacts, Zenon
  <2>3. n + 1 # 0 OBVIOUS
  <2>4. \A i \in 1 .. n : i \in 1 .. n + 1 OBVIOUS
  <2>5. n # 0 => f[1] = s[1] /\ g[1] = r[1]
    <3>1. n # 0 => 1 \in 1 .. n OBVIOUS
    <3> QED BY <2>1, <2>2, <2>3
  <2>6. ASSUME NEW i \in 1 .. n, i # 1
        PROVE  f[i] = f[i - 1] \o s[i] /\ g[i] = g[i - 1] \o r[i]
    BY <2>1, <2>2, <2>4, <2>6, Zenon
  <2> QED BY <2>5, <2>6
<1>2. ASSUME NEW k \in T, \A j \in T : k <= j PROVE FALSE
  <2>1. CASE k = 1 BY <1>1, <2>1 DEF Alike
  <2>2. CASE k # 1
    <3>1. k - 1 \in 1 .. n /\ k - 1 < k BY <2>2
    <3>2. g[k - 1] = f[k - 1] BY <1>2, <3>1
    <3> QED BY <1>1, <2>2, <3>2 DEF Alike
  <2> QED BY <2>1, <2>2
<1>3. T \in SUBSET Nat OBVIOUS
<1>4. T = {}
  <2> HIDE DEF T
  <2> QED BY <1>2, <1>3, Least
<1> QED BY <1>4

LEMMA FlattenTyped ==
    ASSUME NEW W, NEW s \in Seq(Seq(W))
    PROVE  FlattenSeq(s) \in Seq(W)
<1>1. CASE Len(s) = 0
  <2>1. s = <<>> BY <1>1
  <2> QED BY <1>1, <2>1 DEF FlattenSeq
<1>2. CASE Len(s) # 0
  <2>1. PICK f : Flat(s, Len(s), f) /\ FlattenSeq(s) = f[Len(s)] BY <1>2, Flattened
  <2>2. Len(s) \in 1 .. Len(s) BY <1>2
  <2> QED BY <2>1, <2>2, FlatTyped
<1> QED BY <1>1, <1>2

LEMMA FlattenEmpty == FlattenSeq(<<>>) = <<>>
BY DEF FlattenSeq

\* One sequence more.
LEMMA FlattenAppend ==
    ASSUME NEW W, NEW s \in Seq(Seq(W)), NEW x \in Seq(W)
    PROVE  /\ Append(s, x) \in Seq(Seq(W))
           /\ FlattenSeq(Append(s, x)) = FlattenSeq(s) \o x
<1>1. PICK r \in Seq(Seq(W)) :
        /\ r = Append(s, x) /\ Len(r) = Len(s) + 1 /\ r[Len(s) + 1] = x
        /\ \A i \in 1 .. Len(s) : r[i] = s[i]
  <2>1. /\ Append(s, x) \in Seq(Seq(W))
        /\ Append(s, x) # <<>>
        /\ Len(Append(s, x)) = Len(s)+1
        /\ \A i \in 1.. Len(s) : Append(s, x)[i] = s[i]
        /\ Append(s, x)[Len(s)+1] = x
    BY AppendProperties, Zenon
  <2> QED BY <2>1, Zenon
<1>2. PICK n \in Nat : n = Len(s) OBVIOUS
<1>3. PICK g : Flat(r, n + 1, g) /\ FlattenSeq(r) = g[n + 1]
  <2>1. Len(r) # 0 BY <1>1
  <2> QED BY <1>1, <1>2, <2>1, Flattened
<1>4. CASE n = 0
  <2>1. s = <<>> BY <1>2, <1>4, EmptySeq
  <2>2. FlattenSeq(s) = <<>> BY <2>1, FlattenEmpty
  <2>3. PICK m \in Nat : m = n + 1 /\ m # 0 BY <1>2
  <2>4. g[1] = r[1]
    <3>1. Flat(r, m, g) BY <1>3, <2>3
    <3> QED BY <2>3, <3>1, FlatFirst
  <2> QED BY <1>1, <1>2, <1>3, <1>4, <2>2, <2>4
<1>5. CASE n # 0
  <2>1. PICK f : Flat(s, n, f) /\ FlattenSeq(s) = f[n] BY <1>2, <1>5, Flattened
  <2>2. \A i \in 1 .. n : g[i] = f[i]
    <3>1. Alike(s, r, n) BY <1>1, <1>2 DEF Alike
    <3>2. Flat(s, n, f) /\ Flat(r, n + 1, g) BY <1>3, <2>1
    <3>3. ASSUME NEW i \in 1 .. n PROVE g[i] = f[i] BY <3>1, <3>2, FlatAgree
    <3> QED BY <3>3
  <2>3. g[n + 1] = g[n] \o r[n + 1]
    <3>1. n + 1 \in Nat /\ n + 1 \in 1 .. n + 1 /\ n + 1 # 1 /\ (n + 1) - 1 = n BY <1>5
    <3>2. \A i \in 1 .. n + 1 : i # 1 => g[i] = g[i - 1] \o r[i] BY <1>3, <3>1, FlatFacts, Zenon
    <3> QED BY <3>1, <3>2
  <2>4. g[n] = f[n] BY <1>5, <2>2
  <2> QED BY <1>1, <1>2, <1>3, <2>1, <2>3, <2>4
<1> QED BY <1>1, <1>4, <1>5

----------------------------------------------------------------------------
(* Parts of sequences *)
\* What a beginning of a sequence leaves of it.
LEMMA PrefixRest ==
    ASSUME NEW s \in Seq(Nat), NEW t \in Seq(Nat)
    PROVE  IsPrefix(s, t) <=> \E r \in Seq(Nat) : t = s \o r
<1>1. Len(s) \in Nat /\ Len(t) \in Nat BY LenProperties
<1>2. ASSUME IsPrefix(s, t) PROVE \E r \in Seq(Nat) : t = s \o r
  <2>1. Len(s) <= Len(t) /\ SubSeq(s, 1, Len(s)) = SubSeq(t, 1, Len(s))
    BY <1>2 DEF IsPrefix
  <2>2. SubSeq(s, 1, Len(s)) = s BY SubSeqFull
  <2>3. SubSeq(t, 1, Len(s)) \o SubSeq(t, Len(s) + 1, Len(t)) = SubSeq(t, 1, Len(t))
    <3>1. 1 \in 1 .. Len(t) + 1 /\ Len(s) \in 1 - 1 .. Len(t) /\ Len(t) \in Len(s) .. Len(t)
      BY <1>1, <2>1
    <3> QED BY <3>1, ConcatAdjacentSubSeq
  <2>4. SubSeq(t, 1, Len(t)) = t BY SubSeqFull
  <2>5. SubSeq(t, Len(s) + 1, Len(t)) \in Seq(Nat)
    <3>1. \A i \in Len(s) + 1 .. Len(t) : t[i] \in Nat BY <1>1, <2>1
    <3> QED BY <1>1, <3>1, SubSeqProperties
  <2> QED BY <2>1, <2>2, <2>3, <2>4, <2>5
<1>3. ASSUME NEW r \in Seq(Nat), t = s \o r PROVE IsPrefix(s, t)
  <2>1. /\ Len(s) <= Len(t)
        /\ \A i \in 1 .. Len(s) : t[i] = s[i]
    BY <1>1, <1>3, ConcatProperties
  <2>2. /\ SubSeq(t, 1, Len(s)) \in Seq(Nat)
        /\ Len(SubSeq(t, 1, Len(s))) = Len(s)
        /\ \A i \in 1 .. Len(s) : SubSeq(t, 1, Len(s))[i] = t[i]
    <3>1. \A i \in 1 .. Len(s) : t[i] \in Nat BY <1>1, <2>1
    <3> QED BY <1>1, <3>1, SubSeqProperties
  <2>3. SubSeq(t, 1, Len(s)) = s BY <2>1, <2>2, SeqEqual
  <2>4. SubSeq(s, 1, Len(s)) = s BY SubSeqFull
  <2> QED BY <2>1, <2>3, <2>4 DEF IsPrefix
<1> QED BY <1>2, <1>3

\* A part of a sequence, and the two halves of one.
LEMMA Part ==
    ASSUME NEW s \in Seq(Nat), NEW m \in Nat \ {0}, NEW n \in Nat, n <= Len(s)
    PROVE  /\ SubSeq(s, m, n) \in Seq(Nat)
           /\ Len(SubSeq(s, m, n)) = IF m <= n THEN n - m + 1 ELSE 0
           /\ \A i \in 1 .. n - m + 1 : SubSeq(s, m, n)[i] = s[m + i - 1]
<1>1. Len(s) \in Nat /\ m \in Int /\ n \in Int BY LenProperties
<1>2. \A i \in m .. n : s[i] \in Nat
  <2>1. \A i \in m .. n : i \in 1 .. Len(s) BY <1>1
  <2> QED BY <2>1, ElementOfSeq
<1> QED BY <1>1, <1>2, SubSeqProperties

LEMMA Halves ==
    ASSUME NEW s \in Seq(Nat), NEW n \in Nat, n <= Len(s)
    PROVE  s = SubSeq(s, 1, n) \o SubSeq(s, n + 1, Len(s))
<1>1. Len(s) \in Nat BY LenProperties
<1>2. 1 \in 1 .. Len(s) + 1 /\ n \in 1 - 1 .. Len(s) /\ Len(s) \in n .. Len(s)
  BY <1>1
<1>3. SubSeq(s, 1, n) \o SubSeq(s, n + 1, Len(s)) = SubSeq(s, 1, Len(s))
  BY <1>2, ConcatAdjacentSubSeq
<1> QED BY <1>3, SubSeqFull

\* What stands behind the frames in a stream that begins with them.
LEMMA BehindRest ==
    ASSUME NEW frames \in Seq(Seq(Nat)), NEW rest \in Seq(Nat),
           NEW stream, stream = FlattenSeq(frames) \o rest
    PROVE  /\ stream \in Seq(Nat)
           /\ Behind(frames, stream) = rest
           /\ IsPrefix(FlattenSeq(frames), stream)
<1>1. PICK s \in Seq(Nat) : s = FlattenSeq(frames) BY FlattenTyped
<1>2. PICK t \in Seq(Nat) : t = s \o rest BY ConcatProperties
<1>3. Len(s) \in Nat /\ Len(rest) \in Nat /\ Len(t) = Len(s) + Len(rest)
  BY <1>2, LenProperties, ConcatProperties
<1>4. PICK n \in Nat : n = Len(s) /\ n <= Len(t) BY <1>3
<1>5. t = SubSeq(t, 1, n) \o SubSeq(t, n + 1, Len(t))
  BY <1>4, Halves
<1>9. IsPrefix(s, t) BY <1>2, PrefixRest
<1>6. SubSeq(t, 1, n) = s
  <2>1. SubSeq(s, 1, n) = SubSeq(t, 1, n) BY <1>4, <1>9 DEF IsPrefix
  <2> QED BY <1>4, <2>1, SubSeqFull
<1>7. SubSeq(t, n + 1, Len(t)) \in Seq(Nat)
  <2>1. n + 1 \in Nat \ {0} /\ Len(t) \in Nat /\ Len(t) <= Len(t) BY <1>3
  <2> QED BY <2>1, Part
<1>8. SubSeq(t, n + 1, Len(t)) = rest
  BY <1>2, <1>5, <1>6, <1>7, ConcatSimplifications
<1> QED BY <1>1, <1>2, <1>4, <1>8, <1>9 DEF Behind

\* Three sequences one behind the other.
LEMMA Together ==
    ASSUME NEW s \in Seq(Nat), NEW t \in Seq(Nat), NEW u \in Seq(Nat)
    PROVE  (s \o t) \o u = s \o (t \o u)
BY ConcatAssociative, Z3

\* Concatenation as an operator that the provers leave alone.
Join(s, t) == s \o t

LEMMA JoinFacts ==
    ASSUME NEW s \in Seq(Nat), NEW t \in Seq(Nat), NEW u \in Seq(Nat)
    PROVE  Join(s, t) \in Seq(Nat) /\ Join(Join(s, t), u) = Join(s, Join(t, u))
BY Together, ConcatProperties DEF Join

LEMMA Regroup ==
    ASSUME NEW s \in Seq(Nat), NEW i \in Seq(Nat), NEW x \in Seq(Nat), NEW y \in Seq(Nat)
    PROVE  Join(Join(s, Join(i, x)), y) = Join(Join(s, i), Join(x, y))
<1>1. Join(s, i) \in Seq(Nat) /\ Join(Join(s, i), x) = Join(s, Join(i, x)) BY JoinFacts
<1>2. Join(Join(Join(s, i), x), y) = Join(Join(s, i), Join(x, y)) BY <1>1, JoinFacts
<1> QED BY <1>1, <1>2

----------------------------------------------------------------------------
(* The two decoders *)
\* A stream of one more word than the frame needs holds the frame.
LEMMA FrontIsFrame ==
    ASSUME NEW s \in Seq(Nat), Len(s) >= 2, LengthOK(s[1]), s[2] = Magic,
           Len(s) >= s[1] + 1
    PROVE  /\ SubSeq(s, 1, s[1] + 1) \in Seq(Nat)
           /\ IsFrame(SubSeq(s, 1, s[1] + 1))
           /\ SubSeq(s, s[1] + 2, Len(s)) \in Seq(Nat)
           /\ s = SubSeq(s, 1, s[1] + 1) \o SubSeq(s, s[1] + 2, Len(s))
<1>1. Len(s) \in Nat /\ s[1] \in Nat BY LenProperties, ElementOfSeq
<1>2. PICK n \in Nat : n = s[1] + 1 BY <1>1
<1>3. n <= Len(s) /\ n >= 3 /\ n <= MaxPayload + 3
  BY <1>1, <1>2, FramingAssumption DEF LengthOK, FramingAssumption
<1>4. PICK f : f = SubSeq(s, 1, n) OBVIOUS
<1>5. /\ f \in Seq(Nat) /\ Len(f) = n
      /\ \A i \in 1 .. n : f[i] = s[i]
  <2>1. 1 \in Nat \ {0} OBVIOUS
  <2>2. \A i \in 1 .. n - 1 + 1 : f[i] = s[1 + i - 1] BY <1>3, <1>4, <2>1, Part
  <2>3. f \in Seq(Nat) /\ Len(f) = n BY <1>3, <1>4, <2>1, Part
  <2> QED BY <2>2, <2>3
<1>6. IsFrame(f)
  <2>1. f[1] = s[1] /\ f[2] = s[2] BY <1>3, <1>5
  <2>2. f[1] = Len(f) - 1 /\ f[2] = Magic BY <1>1, <1>2, <1>5, <2>1
  <2>3. Len(f) >= HeaderSize /\ Len(f) <= MaxFrameSize
    BY <1>3, <1>5, FramingAssumption DEF HeaderSize, MaxFrameSize, FramingAssumption
  <2> QED BY <2>2, <2>3 DEF IsFrame
<1>7. SubSeq(s, n + 1, Len(s)) \in Seq(Nat)
  <2>1. n + 1 \in Nat \ {0} /\ Len(s) \in Nat /\ Len(s) <= Len(s) BY <1>1
  <2> QED BY <2>1, Part
<1>8. s = SubSeq(s, 1, n) \o SubSeq(s, n + 1, Len(s)) BY <1>3, Halves
<1>9. n + 1 = s[1] + 2 BY <1>1, <1>2
<1> QED BY <1>2, <1>4, <1>5, <1>6, <1>7, <1>8, <1>9

\* No frame begins where the length asks for more words than there are.
LEMMA TooShort ==
    ASSUME NEW s \in Seq(Nat), Len(s) >= 1 => Len(s) < s[1] + 1
    PROVE  ~StartsWithFrame(s)
<1> SUFFICES ASSUME NEW n \in 1 .. Len(s), IsFrame(SubSeq(s, 1, n)) PROVE FALSE
  BY DEF StartsWithFrame
<1>1. Len(s) \in Nat /\ n \in Nat /\ n <= Len(s) /\ 1 <= n BY LenProperties
<1>2. PICK f : f = SubSeq(s, 1, n) OBVIOUS
<1>3. Len(f) = n /\ f[1] = s[1]
  <2>1. 1 \in Nat \ {0} OBVIOUS
  <2>2. \A i \in 1 .. n - 1 + 1 : f[i] = s[1 + i - 1] BY <1>1, <1>2, <2>1, Part
  <2>3. Len(f) = n BY <1>1, <1>2, <2>1, Part
  <2> QED BY <1>1, <2>2, <2>3
<1>4. s[1] = n - 1 BY <1>2, <1>3 DEF IsFrame
<1> QED BY <1>1, <1>4

\* Wire::take hands out the frame the buffer begins with.
LEMMA TakeTaken ==
    ASSUME NEW b \in Seq(Nat), Take(b).kind = "frame"
    PROVE  /\ Take(b).frame \in Seq(Nat) /\ IsFrame(Take(b).frame)
           /\ Take(b).rest \in Seq(Nat)
           /\ b = Take(b).frame \o Take(b).rest
<1>1. Len(b) \in Nat /\ (Len(b) >= 1 => b[1] \in Nat) BY LenProperties, ElementOfSeq
<1>2. /\ Len(b) >= 2 /\ LengthOK(b[1]) /\ b[2] = Magic /\ Len(b) >= b[1] + 1
      /\ Take(b) = Taken(SubSeq(b, 1, b[1] + 1), SubSeq(b, b[1] + 2, Len(b)))
  <2>1. CASE Len(b) < 1 BY <2>1 DEF Take, More
  <2>2. CASE Len(b) >= 1 /\ ~LengthOK(b[1]) BY <1>1, <2>2 DEF Take, Error
  <2>3. CASE Len(b) = 1 /\ LengthOK(b[1]) BY <2>3 DEF Take, More
  <2>4. CASE Len(b) >= 2 /\ LengthOK(b[1])
    <3>1. Take(b) = IF b[2] # Magic THEN Error(b)
                    ELSE IF Len(b) < b[1] + 1 THEN More(b)
                    ELSE Taken(SubSeq(b, 1, b[1] + 1), SubSeq(b, b[1] + 2, Len(b)))
      BY <1>1, <2>4 DEF Take
    <3>2. b[2] = Magic BY <3>1 DEF Error
    <3>3. ~(Len(b) < b[1] + 1) BY <3>1, <3>2 DEF More
    <3> QED BY <1>1, <2>4, <3>1, <3>2, <3>3
  <2>5. \A n \in Nat : n < 1 \/ (n >= 1 /\ n = 1) \/ (n >= 1 /\ n >= 2) OBVIOUS
  <2> QED BY <1>1, <2>1, <2>2, <2>3, <2>4, <2>5, Zenon
<1>3. /\ Take(b).frame = SubSeq(b, 1, b[1] + 1)
      /\ Take(b).rest = SubSeq(b, b[1] + 2, Len(b))
  <2>1. PICK f, r : f = SubSeq(b, 1, b[1] + 1) /\ r = SubSeq(b, b[1] + 2, Len(b))
    OBVIOUS
  <2>2. Take(b) = Taken(f, r) BY <1>2, <2>1, Zenon
  <2>3. Take(b).frame = f /\ Take(b).rest = r BY <2>2 DEF Taken
  <2> QED BY <2>1, <2>3, Zenon
<1> QED BY <1>2, <1>3, FrontIsFrame

\* It waits only for the rest of one frame that the buffer has room for.
LEMMA TakeWaits ==
    ASSUME NEW b \in Seq(Nat), Take(b).kind = "more"
    PROVE  MayBeFrame(b) /\ ~StartsWithFrame(b) /\ Len(b) < MaxFrameSize
<1>1. Len(b) \in Nat /\ (Len(b) >= 1 => b[1] \in Nat) BY LenProperties, ElementOfSeq
<1>2. /\ Len(b) >= 1 => LengthOK(b[1])
      /\ Len(b) >= 2 => b[2] = Magic /\ Len(b) < b[1] + 1
  <2>1. CASE Len(b) < 1 BY <1>1, <2>1
  <2>2. CASE Len(b) >= 1 /\ ~LengthOK(b[1]) BY <1>1, <2>2 DEF Take, Error
  <2>3. CASE Len(b) = 1 /\ LengthOK(b[1]) BY <2>3
  <2>4. CASE Len(b) >= 2 /\ LengthOK(b[1])
    <3>1. Take(b) = IF b[2] # Magic THEN Error(b)
                    ELSE IF Len(b) < b[1] + 1 THEN More(b)
                    ELSE Taken(SubSeq(b, 1, b[1] + 1), SubSeq(b, b[1] + 2, Len(b)))
      BY <1>1, <2>4 DEF Take
    <3>2. b[2] = Magic BY <3>1 DEF Error
    <3>3. Len(b) < b[1] + 1 BY <3>1, <3>2 DEF Taken
    <3> QED BY <2>4, <3>2, <3>3
  <2> QED BY <1>1, <2>1, <2>2, <2>3, <2>4
<1>3. Len(b) >= 1 => b[1] >= 2 /\ b[1] <= MaxPayload + 2
  BY <1>1, <1>2, FramingAssumption DEF LengthOK, FramingAssumption
<1>4. Len(b) >= 1 => Len(b) < b[1] + 1 BY <1>1, <1>2, <1>3
<1>5. Len(b) < MaxFrameSize
  BY <1>1, <1>3, <1>4, FramingAssumption DEF MaxFrameSize, HeaderSize, FramingAssumption
<1> QED BY <1>2, <1>4, <1>5, TooShort DEF MayBeFrame

\* The two indices of a Buffer.
BufferOK(b) ==
    /\ b \in [data : Seq(Nat), readIndex : Nat, writeIndex : Nat]
    /\ b.readIndex <= b.writeIndex /\ b.writeIndex <= Len(b.data)

LEMMA PeekOK ==
    ASSUME NEW b, BufferOK(b)
    PROVE  /\ Peek(b) \in Seq(Nat) /\ Len(Peek(b)) = ReadableBytes(b)
           /\ ReadableBytes(b) \in Nat
           /\ \A i \in 1 .. ReadableBytes(b) : Peek(b)[i] = b.data[b.readIndex + i]
<1>1. PICK d \in Seq(Nat), r \in Nat, w \in Nat :
        /\ b.data = d /\ b.readIndex = r /\ b.writeIndex = w
        /\ r <= w /\ w <= Len(d)
  BY DEF BufferOK
<1>2. PICK p : p = SubSeq(d, r + 1, w) OBVIOUS
<1>3. /\ p \in Seq(Nat) /\ Len(p) = IF r + 1 <= w THEN w - (r + 1) + 1 ELSE 0
      /\ \A i \in 1 .. w - (r + 1) + 1 : p[i] = d[r + 1 + i - 1]
  <2>1. r + 1 \in Nat \ {0} BY <1>1
  <2> QED BY <1>1, <1>2, <2>1, Part
<1>4. Len(p) = w - r /\ w - r \in Nat BY <1>1, <1>3
<1>5. ASSUME NEW i \in 1 .. w - r PROVE p[i] = d[r + i]
  <2>1. i \in 1 .. w - (r + 1) + 1 /\ r + 1 + i - 1 = r + i BY <1>4
  <2> QED BY <1>3, <2>1
<1>6. Peek(b) = p /\ ReadableBytes(b) = w - r BY <1>1, <1>2 DEF Peek, ReadableBytes
<1>7. Peek(b) \in Seq(Nat) /\ Len(Peek(b)) = ReadableBytes(b) BY <1>3, <1>4, <1>6
<1>8. ReadableBytes(b) \in Nat BY <1>4, <1>6
<1>9. ASSUME NEW i \in 1 .. ReadableBytes(b) PROVE Peek(b)[i] = b.data[b.readIndex + i]
  <2>1. p[i] = d[r + i] BY <1>5, <1>6
  <2> QED BY <1>1, <1>6, <2>1
<1> QED BY <1>7, <1>8, <1>9

LEMMA EmptyOK == BufferOK(EmptyBuffer) /\ Peek(EmptyBuffer) = <<>>
<1>1. <<>> \in Seq(Nat) /\ Len(<<>>) = 0 BY EmptySeq
<1>2. BufferOK(EmptyBuffer) BY <1>1 DEF BufferOK, EmptyBuffer
<1>3. ReadableBytes(EmptyBuffer) = 0 BY DEF ReadableBytes, EmptyBuffer
<1>4. Peek(EmptyBuffer) \in Seq(Nat) /\ Len(Peek(EmptyBuffer)) = 0
  BY <1>2, <1>3, PeekOK
<1> QED BY <1>2, <1>4, EmptySeq

\* append() puts the words behind what is there to read.
LEMMA Appended ==
    ASSUME NEW b, BufferOK(b), NEW words \in Seq(Nat)
    PROVE  /\ BufferOK(BufferAppend(b, words))
           /\ Peek(BufferAppend(b, words)) = Peek(b) \o words
<1>1. PICK d \in Seq(Nat), r \in Nat, w \in Nat :
        /\ b.data = d /\ b.readIndex = r /\ b.writeIndex = w
        /\ r <= w /\ w <= Len(d)
  BY DEF BufferOK
<1>2. Len(d) \in Nat /\ Len(words) \in Nat BY LenProperties
<1>3. PICK head \in Seq(Nat) :
        /\ head = SubSeq(d, 1, w) /\ Len(head) = w
        /\ \A i \in 1 .. w : head[i] = d[i]
  <2>1. /\ SubSeq(d, 1, w) \in Seq(Nat)
        /\ Len(SubSeq(d, 1, w)) = IF 1 <= w THEN w - 1 + 1 ELSE 0
        /\ \A i \in 1 .. w - 1 + 1 : SubSeq(d, 1, w)[i] = d[1 + i - 1]
    <3>1. 1 \in Nat \ {0} OBVIOUS
    <3> QED BY <1>1, <3>1, Part
  <2>2. Len(SubSeq(d, 1, w)) = w BY <2>1
  <2>3. \A i \in 1 .. w : SubSeq(d, 1, w)[i] = d[i] BY <2>1
  <2> QED BY <2>1, <2>2, <2>3
<1>4. PICK stale \in Seq(Nat) : stale = SubSeq(d, w + Len(words) + 1, Len(d))
  <2>1. w + Len(words) + 1 \in Nat \ {0} /\ Len(d) <= Len(d) BY <1>2
  <2> QED BY <1>2, <2>1, Part
<1>5. PICK front \in Seq(Nat) :
        /\ front = head \o words /\ Len(front) = w + Len(words)
        /\ \A i \in 1 .. w + Len(words) :
              front[i] = IF i <= w THEN head[i] ELSE words[i - w]
  <2>1. /\ head \o words \in Seq(Nat)
        /\ Len(head \o words) = Len(head) + Len(words)
        /\ \A i \in 1 .. Len(head) + Len(words) :
              (head \o words)[i] = IF i <= Len(head) THEN head[i] ELSE words[i - Len(head)]
    BY ConcatProperties
  <2>2. Len(head \o words) = w + Len(words) BY <1>3, <2>1
  <2>3. ASSUME NEW i \in 1 .. w + Len(words)
        PROVE  (head \o words)[i] = IF i <= w THEN head[i] ELSE words[i - w]
    BY <1>3, <2>1
  <2> QED BY <2>1, <2>2, <2>3, Zenon
<1>6. PICK new \in Seq(Nat) :
        /\ new = front \o stale /\ Len(new) = w + Len(words) + Len(stale)
        /\ \A i \in 1 .. w + Len(words) : new[i] = front[i]
  <2>1. Len(stale) \in Nat BY LenProperties
  <2>2. \A i \in 1 .. w + Len(words) : i \in 1 .. Len(front) + Len(stale) /\ i <= Len(front)
    BY <1>2, <1>5, <2>1
  <2>3. /\ front \o stale \in Seq(Nat)
        /\ Len(front \o stale) = Len(front) + Len(stale)
        /\ \A i \in 1 .. Len(front) + Len(stale) :
              (front \o stale)[i] = IF i <= Len(front) THEN front[i] ELSE stale[i - Len(front)]
    BY ConcatProperties
  <2>4. Len(front \o stale) = w + Len(words) + Len(stale) BY <1>5, <2>3
  <2>5. \A i \in 1 .. w + Len(words) : (front \o stale)[i] = front[i]
    BY <2>2, <2>3, Zenon
  <2> QED BY <2>3, <2>4, <2>5, Zenon
<1>7. PICK a : /\ a = BufferAppend(b, words)
               /\ a \in [data : Seq(Nat), readIndex : Nat, writeIndex : Nat]
               /\ a.data = new /\ a.readIndex = r /\ a.writeIndex = w + Len(words)
  <2>1. BufferAppend(b, words)
        = [b EXCEPT !.data = SubSeq(d, 1, w) \o words \o SubSeq(d, w + Len(words) + 1, Len(d)),
                    !.writeIndex = w + Len(words)]
    BY <1>1 DEF BufferAppend
  <2>2. BufferAppend(b, words) = [b EXCEPT !.data = new, !.writeIndex = w + Len(words)]
    BY <1>3, <1>4, <1>5, <1>6, <2>1, Zenon
  <2>3. b \in [data : Seq(Nat), readIndex : Nat, writeIndex : Nat] BY DEF BufferOK
  <2>4. w + Len(words) \in Nat BY <1>2
  <2> QED BY <1>1, <2>2, <2>3, <2>4
<1>8. BufferOK(a)
  <2>1. Len(stale) \in Nat BY LenProperties
  <2>2. r <= w + Len(words) /\ w + Len(words) <= Len(new) /\ w + Len(words) \in Nat
    BY <1>1, <1>2, <1>6, <2>1
  <2> QED BY <1>7, <2>2 DEF BufferOK
<1>9. Peek(a) = Peek(b) \o words
  <2>1. PICK p \in Seq(Nat) :
          /\ p = Peek(a) /\ Len(p) = w + Len(words) - r
          /\ \A i \in 1 .. w + Len(words) - r : p[i] = new[r + i]
    <3>1. a.data = new /\ a.readIndex = r /\ a.writeIndex = w + Len(words) BY <1>7
    <3>2. ReadableBytes(a) = w + Len(words) - r BY <3>1 DEF ReadableBytes
    <3>3. /\ Peek(a) \in Seq(Nat) /\ Len(Peek(a)) = ReadableBytes(a)
          /\ ReadableBytes(a) \in Nat
          /\ \A i \in 1 .. ReadableBytes(a) : Peek(a)[i] = a.data[a.readIndex + i]
      BY <1>8, PeekOK
    <3> QED BY <3>1, <3>2, <3>3, Zenon
  <2>2. PICK q \in Seq(Nat) :
          /\ q = Peek(b) /\ Len(q) = w - r
          /\ \A i \in 1 .. w - r : q[i] = d[r + i]
    BY <1>1, PeekOK DEF ReadableBytes
  <2>3. PICK qw \in Seq(Nat) :
          /\ qw = q \o words /\ Len(qw) = w - r + Len(words)
          /\ \A i \in 1 .. w - r + Len(words) :
                qw[i] = IF i <= w - r THEN q[i] ELSE words[i - (w - r)]
    <3>1. /\ q \o words \in Seq(Nat)
          /\ Len(q \o words) = Len(q) + Len(words)
          /\ \A i \in 1 .. Len(q) + Len(words) :
                (q \o words)[i] = IF i <= Len(q) THEN q[i] ELSE words[i - Len(q)]
      BY ConcatProperties
    <3>2. Len(q \o words) = w - r + Len(words) BY <2>2, <3>1
    <3>3. ASSUME NEW i \in 1 .. w - r + Len(words)
          PROVE  (q \o words)[i] = IF i <= w - r THEN q[i] ELSE words[i - (w - r)]
      BY <2>2, <3>1
    <3> QED BY <3>1, <3>2, <3>3, Zenon
  <2>4. ASSUME NEW i \in 1 .. Len(p) PROVE p[i] = qw[i]
    <3>1. i \in Nat /\ 1 <= i /\ i <= w + Len(words) - r BY <1>1, <1>2, <2>1
    <3>2. r + i \in 1 .. w + Len(words) BY <1>1, <1>2, <3>1
    <3>3. p[i] = IF r + i <= w THEN head[r + i] ELSE words[r + i - w]
      <4>1. p[i] = new[r + i] BY <2>1
      <4>2. new[r + i] = front[r + i] BY <1>6, <3>2
      <4>3. front[r + i] = IF r + i <= w THEN head[r + i] ELSE words[r + i - w]
        BY <1>5, <3>2
      <4> QED BY <4>1, <4>2, <4>3, Zenon
    <3>4. CASE i <= w - r
      <4>1. r + i <= w /\ r + i \in 1 .. w /\ i \in 1 .. w - r BY <1>1, <3>1, <3>4
      <4>2. p[i] = d[r + i] BY <1>3, <3>3, <4>1
      <4>3. i \in 1 .. w - r + Len(words) BY <1>1, <1>2, <3>1
      <4>4. qw[i] = q[i] BY <2>3, <3>4, <4>3
      <4> QED BY <2>2, <4>1, <4>2, <4>4
    <3>5. CASE ~(i <= w - r)
      <4>1. ~(r + i <= w) /\ r + i - w = i - (w - r) BY <1>1, <3>1, <3>5
      <4>2. i \in 1 .. w - r + Len(words) BY <1>1, <1>2, <3>1
      <4>3. qw[i] = words[i - (w - r)] BY <2>3, <3>5, <4>2, Zenon
      <4> QED BY <3>3, <4>1, <4>3
    <3> QED BY <3>4, <3>5
  <2>5. Len(p) = Len(qw) BY <1>1, <1>2, <2>1, <2>3
  <2> QED BY <2>1, <2>2, <2>3, <2>4, <2>5, SeqEqual
<1> QED BY <1>7, <1>8, <1>9

\* retrieve() leaves what stands behind.
LEMMA Retrieved ==
    ASSUME NEW b, BufferOK(b), NEW n \in Nat, n <= ReadableBytes(b)
    PROVE  /\ BufferOK(Retrieve(b, n))
           /\ Peek(Retrieve(b, n)) = SubSeq(Peek(b), n + 1, Len(Peek(b)))
<1>1. PICK d \in Seq(Nat), r \in Nat, w \in Nat :
        /\ b.data = d /\ b.readIndex = r /\ b.writeIndex = w
        /\ r <= w /\ w <= Len(d)
  BY DEF BufferOK
<1>2. b \in [data : Seq(Nat), readIndex : Nat, writeIndex : Nat] BY DEF BufferOK
<1>3. ReadableBytes(b) = w - r /\ n <= w - r BY <1>1 DEF ReadableBytes
<1>4. PICK q \in Seq(Nat) :
        /\ q = Peek(b) /\ Len(q) = w - r
        /\ \A i \in 1 .. w - r : q[i] = d[r + i]
  <2>1. /\ Peek(b) \in Seq(Nat) /\ Len(Peek(b)) = ReadableBytes(b)
        /\ \A i \in 1 .. ReadableBytes(b) : Peek(b)[i] = b.data[b.readIndex + i]
    BY PeekOK
  <2> QED BY <1>1, <1>3, <2>1, Zenon
<1>5. PICK p \in Seq(Nat) :
        /\ p = SubSeq(q, n + 1, w - r) /\ Len(p) = w - r - n
        /\ \A i \in 1 .. w - r - n : p[i] = q[n + i]
  <2>1. n + 1 \in Nat \ {0} /\ w - r \in Nat /\ w - r <= Len(q) BY <1>1, <1>4
  <2>2. /\ SubSeq(q, n + 1, w - r) \in Seq(Nat)
        /\ Len(SubSeq(q, n + 1, w - r))
             = IF n + 1 <= w - r THEN w - r - (n + 1) + 1 ELSE 0
        /\ \A i \in 1 .. w - r - (n + 1) + 1 :
              SubSeq(q, n + 1, w - r)[i] = q[n + 1 + i - 1]
    BY <2>1, Part
  <2>3. Len(SubSeq(q, n + 1, w - r)) = w - r - n BY <1>1, <1>3, <2>2
  <2>4. w - r - (n + 1) + 1 = w - r - n BY <1>1
  <2>5. ASSUME NEW i \in 1 .. w - r - n
        PROVE  SubSeq(q, n + 1, w - r)[i] = q[n + i]
    <3>1. n + 1 + i - 1 = n + i BY <1>1
    <3> QED BY <2>2, <2>4, <3>1
  <2> QED BY <2>2, <2>3, <2>5, Zenon
<1>6. PICK a : a = Retrieve(b, n) OBVIOUS
<1>7. CASE n >= w - r
  <2>1. a = [b EXCEPT !.readIndex = 0, !.writeIndex = 0]
    BY <1>3, <1>6, <1>7 DEF Retrieve
  <2>2. /\ a \in [data : Seq(Nat), readIndex : Nat, writeIndex : Nat]
        /\ a.data = d /\ a.readIndex = 0 /\ a.writeIndex = 0
    BY <1>1, <1>2, <2>1
  <2>3. BufferOK(a)
    <3>1. Len(d) \in Nat BY LenProperties
    <3> QED BY <2>2, <3>1 DEF BufferOK
  <2>4. ReadableBytes(a) = 0 BY <2>2 DEF ReadableBytes
  <2>5. Peek(a) \in Seq(Nat) /\ Len(Peek(a)) = 0 BY <2>3, <2>4, PeekOK
  <2>6. Len(p) = 0 BY <1>1, <1>3, <1>5, <1>7
  <2>7. Peek(a) = p BY <2>5, <2>6, EmptySeq
  <2> QED BY <1>4, <1>5, <1>6, <2>3, <2>7
<1>8. CASE ~(n >= w - r)
  <2>1. a = [b EXCEPT !.readIndex = r + n]
    BY <1>1, <1>3, <1>6, <1>8 DEF Retrieve
  <2>2. r + n \in Nat BY <1>1
  <2>3. /\ a \in [data : Seq(Nat), readIndex : Nat, writeIndex : Nat]
        /\ a.data = d /\ a.readIndex = r + n /\ a.writeIndex = w
    BY <1>1, <1>2, <2>1, <2>2
  <2>4. BufferOK(a) BY <1>1, <1>3, <2>2, <2>3 DEF BufferOK
  <2>5. ReadableBytes(a) = w - r - n BY <1>1, <2>3 DEF ReadableBytes
  <2>6. /\ Peek(a) \in Seq(Nat) /\ Len(Peek(a)) = w - r - n
        /\ \A i \in 1 .. w - r - n : Peek(a)[i] = d[r + n + i]
    <3>1. /\ Peek(a) \in Seq(Nat) /\ Len(Peek(a)) = ReadableBytes(a)
          /\ ReadableBytes(a) \in Nat
          /\ \A i \in 1 .. ReadableBytes(a) : Peek(a)[i] = a.data[a.readIndex + i]
      BY <2>4, PeekOK
    <3> QED BY <2>3, <2>5, <3>1
  <2>7. ASSUME NEW i \in 1 .. Len(p) PROVE Peek(a)[i] = p[i]
    <3>1. i \in 1 .. w - r - n BY <1>5
    <3>2. n + i \in 1 .. w - r BY <1>1, <1>3, <3>1
    <3>3. p[i] = q[n + i] BY <1>5, <3>1
    <3>4. q[n + i] = d[r + (n + i)] BY <1>4, <3>2
    <3>5. r + (n + i) = r + n + i BY <1>1
    <3> QED BY <2>6, <3>1, <3>3, <3>4, <3>5
  <2>8. Peek(a) = p
    <3>1. Len(Peek(a)) = Len(p) BY <1>5, <2>6
    <3> QED BY <2>6, <2>7, <3>1, SeqEqual
  <2> QED BY <1>4, <1>5, <1>6, <2>4, <2>8
<1> QED BY <1>7, <1>8

\* A round of the frame loop, as the words it sees.
LEMMA BufferRound ==
    ASSUME NEW b, BufferOK(b),
           NEW p \in Seq(Nat), p = Peek(b)
    PROVE  /\ Len(p) \in Nat /\ ReadableBytes(b) = Len(p)
           /\ Len(p) >= 1 => p[1] \in Nat
           /\ Len(p) < HeaderSize => TakeFromBuffer(b) = More(b)
           /\ Len(p) >= HeaderSize =>
                TakeFromBuffer(b) =
                  IF ~LengthOK(p[1]) THEN Error(b)
                  ELSE IF Len(p) < p[1] + 1 THEN More(b)
                  ELSE IF p[2] # Magic THEN Error(Retrieve(b, p[1] + 1))
                  ELSE Taken(SubSeq(p, 1, p[1] + 1), Retrieve(b, p[1] + 1))
<1>1. Len(p) \in Nat /\ ReadableBytes(b) = Len(p) BY PeekOK, LenProperties
<1>2. Len(p) >= 1 => p[1] \in Nat BY <1>1, ElementOfSeq
<1>3. CASE Len(p) < HeaderSize
  <2>1. TakeFromBuffer(b) = More(b) BY <1>1, <1>3 DEF TakeFromBuffer
  <2> QED BY <1>1, <1>2, <1>3, <2>1 DEF HeaderSize
<1>4. CASE ~(Len(p) < HeaderSize)
  <2>1. TakeFromBuffer(b) =
                  IF ~LengthOK(p[1]) THEN Error(b)
                  ELSE IF Len(p) < p[1] + 1 THEN More(b)
                  ELSE IF p[2] # Magic THEN Error(Retrieve(b, p[1] + 1))
                  ELSE Taken(SubSeq(p, 1, p[1] + 1), Retrieve(b, p[1] + 1))
    BY <1>1, <1>4 DEF TakeFromBuffer
  <2> QED BY <1>1, <1>2, <1>4, <2>1
<1> QED BY <1>3, <1>4

\* What a round of the frame loop takes, waits for and refuses.
LEMMA BufferTaken ==
    ASSUME NEW b, BufferOK(b), TakeFromBuffer(b).kind = "frame"
    PROVE  /\ TakeFromBuffer(b).frame \in Seq(Nat) /\ IsFrame(TakeFromBuffer(b).frame)
           /\ BufferOK(TakeFromBuffer(b).rest)
           /\ Peek(b) = TakeFromBuffer(b).frame \o Peek(TakeFromBuffer(b).rest)
<1>1. PICK p \in Seq(Nat) : p = Peek(b) BY PeekOK
<1>2. /\ Len(p) \in Nat /\ ReadableBytes(b) = Len(p)
      /\ Len(p) >= 1 => p[1] \in Nat
  BY <1>1, BufferRound
<1>3. /\ Len(p) >= HeaderSize /\ LengthOK(p[1]) /\ p[2] = Magic /\ ~(Len(p) < p[1] + 1)
      /\ TakeFromBuffer(b) = Taken(SubSeq(p, 1, p[1] + 1), Retrieve(b, p[1] + 1))
  <2>1. CASE Len(p) < HeaderSize
    <3>1. TakeFromBuffer(b) = More(b) BY <1>1, <2>1, BufferRound
    <3> QED BY <3>1 DEF More
  <2>2. CASE Len(p) >= HeaderSize
    <3>1. TakeFromBuffer(b) =
            IF ~LengthOK(p[1]) THEN Error(b)
            ELSE IF Len(p) < p[1] + 1 THEN More(b)
            ELSE IF p[2] # Magic THEN Error(Retrieve(b, p[1] + 1))
            ELSE Taken(SubSeq(p, 1, p[1] + 1), Retrieve(b, p[1] + 1))
      BY <1>1, <2>2, BufferRound
    <3>2. LengthOK(p[1]) BY <3>1 DEF Error
    <3>3. ~(Len(p) < p[1] + 1) BY <3>1, <3>2 DEF More
    <3>4. p[2] = Magic BY <3>1, <3>2, <3>3 DEF Error
    <3> QED BY <2>2, <3>1, <3>2, <3>3, <3>4
  <2> QED BY <1>2, <2>1, <2>2 DEF HeaderSize
<1>4. PICK f, r : f = SubSeq(p, 1, p[1] + 1) /\ r = Retrieve(b, p[1] + 1) OBVIOUS
<1>5. TakeFromBuffer(b).frame = f /\ TakeFromBuffer(b).rest = r
  <2>1. TakeFromBuffer(b) = Taken(f, r) BY <1>3, <1>4, Zenon
  <2> QED BY <2>1 DEF Taken
<1>6. Len(p) >= 2 /\ Len(p) >= 1 /\ p[1] \in Nat /\ Len(p) >= p[1] + 1
  BY <1>2, <1>3 DEF HeaderSize
<1>7. /\ f \in Seq(Nat) /\ IsFrame(f)
      /\ p = f \o SubSeq(p, p[1] + 2, Len(p))
  BY <1>3, <1>4, <1>6, FrontIsFrame
<1>8. BufferOK(r) /\ Peek(r) = SubSeq(p, p[1] + 2, Len(p))
  <2>1. PICK n \in Nat : n = p[1] + 1 /\ n <= ReadableBytes(b) /\ n + 1 = p[1] + 2
    BY <1>2, <1>6
  <2>2. r = Retrieve(b, n) BY <1>4, <2>1
  <2>3. BufferOK(r) /\ Peek(r) = SubSeq(p, n + 1, Len(p))
    BY <1>1, <2>1, <2>2, Retrieved
  <2> QED BY <2>1, <2>3
<1> QED BY <1>1, <1>5, <1>7, <1>8

LEMMA BufferWaits ==
    ASSUME NEW b, BufferOK(b), TakeFromBuffer(b).kind = "more"
    PROVE  ~StartsWithFrame(Peek(b))
<1>1. PICK p \in Seq(Nat) : p = Peek(b) BY PeekOK
<1>2. /\ Len(p) \in Nat
      /\ Len(p) >= 1 => p[1] \in Nat
  BY <1>1, BufferRound
<1>3. CASE Len(p) < HeaderSize
  <2>1. SUFFICES ASSUME NEW n \in 1 .. Len(p), IsFrame(SubSeq(p, 1, n)) PROVE FALSE
    BY <1>1 DEF StartsWithFrame
  <2>2. n \in Nat /\ n <= Len(p) /\ 1 \in Nat \ {0} BY <1>2
  <2>3. Len(SubSeq(p, 1, n)) = IF 1 <= n THEN n - 1 + 1 ELSE 0 BY <2>2, Part
  <2>4. Len(SubSeq(p, 1, n)) = n BY <2>2, <2>3
  <2> QED BY <1>2, <1>3, <2>1, <2>2, <2>4 DEF IsFrame, HeaderSize
<1>4. CASE Len(p) >= HeaderSize
  <2>1. TakeFromBuffer(b) =
            IF ~LengthOK(p[1]) THEN Error(b)
            ELSE IF Len(p) < p[1] + 1 THEN More(b)
            ELSE IF p[2] # Magic THEN Error(Retrieve(b, p[1] + 1))
            ELSE Taken(SubSeq(p, 1, p[1] + 1), Retrieve(b, p[1] + 1))
    BY <1>1, <1>4, BufferRound
  <2>2. LengthOK(p[1]) BY <2>1 DEF Error
  <2>3. Len(p) < p[1] + 1 BY <2>1, <2>2 DEF Error, Taken
  <2> QED BY <1>1, <2>3, TooShort
<1> QED BY <1>2, <1>3, <1>4 DEF HeaderSize

LEMMA BufferRefuses ==
    ASSUME NEW b, BufferOK(b), TakeFromBuffer(b).kind = "error"
    PROVE  ~MayBeFrame(Peek(b)) /\ BufferOK(TakeFromBuffer(b).rest)
<1>1. PICK p \in Seq(Nat) : p = Peek(b) BY PeekOK
<1>2. /\ Len(p) \in Nat /\ ReadableBytes(b) = Len(p)
      /\ Len(p) >= 1 => p[1] \in Nat
  BY <1>1, BufferRound
<1>3. Len(p) >= HeaderSize
  <2>1. CASE Len(p) < HeaderSize
    <3>1. TakeFromBuffer(b) = More(b) BY <1>1, <2>1, BufferRound
    <3> QED BY <3>1 DEF More
  <2> QED BY <1>2, <2>1 DEF HeaderSize
<1>4. TakeFromBuffer(b) =
            IF ~LengthOK(p[1]) THEN Error(b)
            ELSE IF Len(p) < p[1] + 1 THEN More(b)
            ELSE IF p[2] # Magic THEN Error(Retrieve(b, p[1] + 1))
            ELSE Taken(SubSeq(p, 1, p[1] + 1), Retrieve(b, p[1] + 1))
  BY <1>1, <1>3, BufferRound
<1>5. Len(p) >= 2 /\ Len(p) >= 1 BY <1>2, <1>3 DEF HeaderSize
<1>6. CASE ~LengthOK(p[1])
  <2>1. TakeFromBuffer(b).rest = b BY <1>4, <1>6 DEF Error
  <2> QED BY <1>1, <1>5, <1>6, <2>1 DEF MayBeFrame
<1>7. CASE LengthOK(p[1])
  <2>1. ~(Len(p) < p[1] + 1) BY <1>4, <1>7 DEF More
  <2>2. p[2] # Magic BY <1>4, <1>7, <2>1 DEF Taken
  <2>3. PICK r : r = Retrieve(b, p[1] + 1) OBVIOUS
  <2>4. TakeFromBuffer(b) = Error(r) BY <1>4, <1>7, <2>1, <2>2, <2>3, Zenon
  <2>5. TakeFromBuffer(b).rest = r BY <2>4 DEF Error
  <2>6. PICK n \in Nat : n = p[1] + 1 /\ n <= ReadableBytes(b) BY <1>2, <1>5, <2>1
  <2>7. BufferOK(r) BY <2>3, <2>6, Retrieved
  <2> QED BY <1>1, <1>5, <2>2, <2>5, <2>7 DEF MayBeFrame
<1> QED BY <1>6, <1>7

\* The server's module and this one read the same definitions.
LEMMA SameOperators ==
    /\ \A b : Server!TakeFromBuffer(b) = TakeFromBuffer(b)
    /\ \A b, w : Server!BufferAppend(b, w) = BufferAppend(b, w)
    /\ Server!EmptyBuffer = EmptyBuffer
<1>1. \A b : Server!TakeFromBuffer(b) = TakeFromBuffer(b)
  BY DEF Server!TakeFromBuffer, TakeFromBuffer, Server!ReadableBytes, ReadableBytes,
         Server!Peek, Peek, Server!HeaderSize, HeaderSize, Server!LengthOK, LengthOK,
         Server!More, More, Server!Error, Error, Server!Taken, Taken,
         Server!Retrieve, Retrieve
<1>2. \A b, w : Server!BufferAppend(b, w) = BufferAppend(b, w)
  BY DEF Server!BufferAppend, BufferAppend
<1>3. Server!EmptyBuffer = EmptyBuffer BY DEF Server!EmptyBuffer, EmptyBuffer
<1> QED BY <1>1, <1>2, <1>3

----------------------------------------------------------------------------
(* Frames read from a stream *)
\* More words behind a stream, and one frame more read from it.
LEMMA ReadsMore ==
    ASSUME NEW frames \in Seq(Seq(Nat)), NEW stream \in Seq(Nat), NEW more \in Seq(Nat),
           Reads(frames, stream)
    PROVE  /\ Behind(frames, stream) \in Seq(Nat)
           /\ stream = FlattenSeq(frames) \o Behind(frames, stream)
           /\ stream \o more \in Seq(Nat) /\ Reads(frames, stream \o more)
           /\ Behind(frames, stream \o more) = Behind(frames, stream) \o more
<1>1. PICK s \in Seq(Nat) : s = FlattenSeq(frames) BY FlattenTyped
<1>2. IsPrefix(s, stream) BY <1>1 DEF Reads
<1>3. PICK r \in Seq(Nat) : stream = s \o r BY <1>2, PrefixRest
<1>4. Behind(frames, stream) = r BY <1>1, <1>3, BehindRest
<1>5. r \o more \in Seq(Nat) BY ConcatProperties
<1>6. stream \o more = s \o (r \o more)
  <2>1. (s \o r) \o more = s \o (r \o more) BY Together, Zenon
  <2> QED BY <1>3, <2>1
<1>7. /\ stream \o more \in Seq(Nat)
      /\ Behind(frames, stream \o more) = r \o more
      /\ IsPrefix(FlattenSeq(frames), stream \o more)
  BY <1>1, <1>5, <1>6, BehindRest
<1>8. Reads(frames, stream \o more) BY <1>7 DEF Reads
<1> QED BY <1>1, <1>3, <1>4, <1>7, <1>8

LEMMA ReadsFrame ==
    ASSUME NEW frames \in Seq(Seq(Nat)), NEW stream \in Seq(Nat),
           NEW f \in Seq(Nat), NEW rest \in Seq(Nat),
           Reads(frames, stream), IsFrame(f), Behind(frames, stream) = f \o rest
    PROVE  /\ Append(frames, f) \in Seq(Seq(Nat))
           /\ Reads(Append(frames, f), stream)
           /\ Behind(Append(frames, f), stream) = rest
<1>1. PICK s \in Seq(Nat) : s = FlattenSeq(frames) BY FlattenTyped
<1>2. <<>> \in Seq(Nat) BY EmptySeq
<1>3. stream = s \o (f \o rest)
  <2>1. stream = FlattenSeq(frames) \o Behind(frames, stream) BY <1>2, ReadsMore
  <2> QED BY <1>1, <2>1
<1>4. PICK new \in Seq(Seq(Nat)) :
        /\ new = Append(frames, f) /\ FlattenSeq(new) = s \o f
  BY <1>1, FlattenAppend
<1>5. stream = FlattenSeq(new) \o rest
  <2>1. (s \o f) \o rest = s \o (f \o rest) BY Together, Zenon
  <2> QED BY <1>3, <1>4, <2>1
<1>6. Behind(new, stream) = rest /\ IsPrefix(FlattenSeq(new), stream)
  BY <1>5, BehindRest
<1>7. ASSUME NEW k \in DOMAIN new PROVE IsFrame(new[k])
  <2>1. /\ Len(new) = Len(frames) + 1 /\ Len(frames) \in Nat
        /\ DOMAIN new = 1 .. Len(new) /\ DOMAIN frames = 1 .. Len(frames)
        /\ \A i \in 1 .. Len(frames) : new[i] = frames[i]
        /\ new[Len(frames) + 1] = f
    <3>1. /\ Append(frames, f) \in Seq(Seq(Nat))
          /\ Append(frames, f) # <<>>
          /\ Len(Append(frames, f)) = Len(frames) + 1
          /\ \A i \in 1 .. Len(frames) : Append(frames, f)[i] = frames[i]
          /\ Append(frames, f)[Len(frames) + 1] = f
      BY AppendProperties, Zenon
    <3>2. /\ Len(frames) \in Nat /\ DOMAIN new = 1 .. Len(new)
          /\ DOMAIN frames = 1 .. Len(frames)
      BY LenProperties
    <3> QED BY <1>4, <3>1, <3>2, Zenon
  <2>2. k \in 1 .. Len(frames) \/ k = Len(frames) + 1 BY <2>1
  <2>3. \A i \in 1 .. Len(frames) : IsFrame(frames[i]) BY <2>1 DEF Reads
  <2> QED BY <2>1, <2>2, <2>3, Zenon
<1> QED BY <1>4, <1>6, <1>7 DEF Reads

\* Nothing read of nothing.
LEMMA ReadsNothing ==
    ASSUME NEW stream \in Seq(Nat)
    PROVE  /\ <<>> \in Seq(Seq(Nat)) /\ Reads(<<>>, stream)
           /\ Behind(<<>>, stream) = stream
<1>1. <<>> \in Seq(Seq(Nat)) /\ <<>> \in Seq(Nat) BY EmptySeq
<1>2. stream = FlattenSeq(<<>>) \o stream BY FlattenEmpty, ConcatEmptySeq
<1>3. Behind(<<>>, stream) = stream /\ IsPrefix(FlattenSeq(<<>>), stream)
  BY <1>1, <1>2, BehindRest
<1>4. \A k \in DOMAIN <<>> : IsFrame(<<>>[k]) OBVIOUS
<1> QED BY <1>1, <1>3, <1>4 DEF Reads

\* The same, with the concatenations hidden.
LEMMA ReadsOn ==
    ASSUME NEW frames \in Seq(Seq(Nat)), NEW stream \in Seq(Nat), NEW more \in Seq(Nat),
           Reads(frames, stream)
    PROVE  /\ Reads(frames, Join(stream, more))
           /\ Behind(frames, Join(stream, more)) = Join(Behind(frames, stream), more)
<1>1. /\ Reads(frames, stream \o more)
      /\ Behind(frames, stream \o more) = Behind(frames, stream) \o more
  BY ReadsMore
<1> QED BY <1>1 DEF Join

\* One whole frame written and reported.
LEMMA OneMore ==
    ASSUME NEW raw \in Seq(Nat), NEW frames \in Seq(Seq(Nat)), NEW stream \in Seq(Nat),
           IsFrame(raw), Reads(frames, stream), Behind(frames, stream) = <<>>
    PROVE  /\ stream \o raw \in Seq(Nat) /\ Append(frames, raw) \in Seq(Seq(Nat))
           /\ Reads(Append(frames, raw), stream \o raw)
           /\ Behind(Append(frames, raw), stream \o raw) = <<>>
<1>1. PICK e \in Seq(Nat) : e = <<>> BY EmptySeq
<1>2. raw \o e = raw /\ e \o raw = raw BY <1>1, ConcatEmptySeq
<1>3. PICK t \in Seq(Nat) : t = stream \o raw BY ConcatProperties
<1>4. Reads(frames, t) /\ Behind(frames, t) = Behind(frames, stream) \o raw
  <2>1. /\ Reads(frames, Join(stream, raw))
        /\ Behind(frames, Join(stream, raw)) = Join(Behind(frames, stream), raw)
    BY ReadsOn
  <2> QED BY <1>3, <2>1 DEF Join
<1>5. Behind(frames, t) = raw \o e BY <1>1, <1>2, <1>4
<1>6. /\ Append(frames, raw) \in Seq(Seq(Nat))
      /\ Reads(Append(frames, raw), t)
      /\ Behind(Append(frames, raw), t) = e
  <2>1. Reads(frames, t) BY <1>4
  <2> QED BY <1>5, <2>1, ReadsFrame
<1> QED BY <1>1, <1>3, <1>6

LEMMA TwiceBehind ==
    ASSUME NEW S, NEW s \in Seq(S), NEW t \in Seq(S)
    PROVE  (s \o t) \o t = s \o (t \o t)
BY ConcatAssociative

\* sendFrame() with one copy of a frame, or the duplicates of two.
LEMMA Copies ==
    ASSUME NEW raw \in Seq(Nat), NEW c,
           NEW frames \in Seq(Seq(Nat)), NEW stream \in Seq(Nat),
           IsFrame(raw), Reads(frames, stream), Behind(frames, stream) = <<>>,
           \E copies \in {1, 2} : c = [k \in 1 .. copies |-> raw]
    PROVE  /\ FlattenSeq(c) \in Seq(Nat) /\ stream \o FlattenSeq(c) \in Seq(Nat)
           /\ frames \o c \in Seq(Seq(Nat))
           /\ Reads(frames \o c, stream \o FlattenSeq(c))
           /\ Behind(frames \o c, stream \o FlattenSeq(c)) = <<>>
<1>1. PICK copies \in {1, 2} : c = [k \in 1 .. copies |-> raw] OBVIOUS
<1>2. PICK words : words = FlattenSeq(c) OBVIOUS
<1>3. <<>> \in Seq(Nat) /\ <<>> \in Seq(Seq(Nat)) BY EmptySeq
<1>4. PICK one \in Seq(Seq(Nat)) : one = <<raw>> /\ FlattenSeq(one) = raw
  <2>1. /\ Append(<<>>, raw) \in Seq(Seq(Nat))
        /\ FlattenSeq(Append(<<>>, raw)) = FlattenSeq(<<>>) \o raw
    BY <1>3, FlattenAppend
  <2>2. FlattenSeq(<<>>) \o raw = raw BY FlattenEmpty, ConcatEmptySeq
  <2>3. Append(<<>>, raw) = <<raw>> OBVIOUS
  <2> QED BY <2>1, <2>2, <2>3
<1>5. PICK more \in Seq(Seq(Nat)) :
        /\ more = Append(frames, raw) /\ frames \o one = more
        /\ Reads(more, stream \o raw) /\ Behind(more, stream \o raw) = <<>>
  <2>1. frames \o <<raw>> = Append(frames, raw) BY AppendIsConcat
  <2> QED BY <1>4, <2>1, OneMore
<1>6. CASE copies = 1
  <2>1. c = one
    <3>1. [k \in 1 .. 1 |-> raw] = <<raw>> OBVIOUS
    <3> QED BY <1>4, <1>6, <1>1, <3>1
  <2>2. words = raw BY <1>4, <1>2, <2>1
  <2>3. stream \o raw \in Seq(Nat) BY ConcatProperties
  <2> QED BY <1>5, <1>2, <2>1, <2>2, <2>3
<1>7. CASE copies = 2
  <2>1. PICK two \in Seq(Seq(Nat)) : two = Append(one, raw) /\ two = one \o one
    <3>1. Append(one, raw) \in Seq(Seq(Nat)) BY AppendProperties
    <3>2. Append(one, raw) = one \o <<raw>> BY AppendIsConcat
    <3> QED BY <1>4, <3>1, <3>2
  <2>2. FlattenSeq(two) = raw \o raw
    <3>1. FlattenSeq(Append(one, raw)) = FlattenSeq(one) \o raw BY FlattenAppend
    <3> QED BY <1>4, <2>1, <3>1
  <2>3. c = two
    <3>1. PICK pair : pair = [k \in 1 .. 2 |-> raw] OBVIOUS
    <3>2. pair \in Seq(Seq(Nat))
      <4>1. PICK S : S = Seq(Nat) OBVIOUS
      <4>2. raw \in S BY <4>1
      <4>3. pair \in Seq(S) BY <3>1, <4>2
      <4> QED BY <4>1, <4>3
    <3>3. Len(one) = 1 /\ one[1] = raw BY <1>4
    <3>4. Len(two) = 2 /\ two[1] = raw /\ two[2] = raw
      <4>1. /\ Len(Append(one, raw)) = Len(one) + 1
            /\ \A i \in 1 .. Len(one) : Append(one, raw)[i] = one[i]
            /\ Append(one, raw)[Len(one) + 1] = raw
        BY AppendProperties
      <4> QED BY <2>1, <3>3, <4>1
    <3>5. Len(pair) = 2 /\ pair[1] = raw /\ pair[2] = raw
      <4>1. DOMAIN pair = 1 .. 2 /\ Len(pair) \in Nat /\ DOMAIN pair = 1 .. Len(pair)
        BY <3>1, <3>2, LenProperties
      <4>2. Len(pair) = 2 BY <4>1
      <4> QED BY <3>1, <4>2
    <3>6. ASSUME NEW i \in 1 .. Len(two) PROVE two[i] = pair[i] BY <3>4, <3>5
    <3>7. two = pair
      <4>1. PICK S : S = Seq(Nat) OBVIOUS
      <4>2. two \in Seq(S) /\ pair \in Seq(S) /\ Len(two) = Len(pair)
        BY <3>2, <3>4, <3>5, <4>1
      <4> QED BY <3>6, <4>2, SeqEqual
    <3> QED BY <1>7, <1>1, <3>1, <3>2, <3>7
  <2>4. words = raw \o raw BY <1>2, <2>2, <2>3
  <2>5. (stream \o raw) \o raw = stream \o (raw \o raw)
    BY TwiceBehind
  <2>6. PICK t \in Seq(Nat) : t = stream \o raw BY ConcatProperties
  <2>7. frames \o two = Append(more, raw)
    <3>1. (frames \o one) \o one = frames \o (one \o one)
      BY TwiceBehind
    <3>2. more \o <<raw>> = Append(more, raw) BY AppendIsConcat
    <3> QED BY <1>4, <1>5, <2>1, <3>1, <3>2
  <2>8. /\ t \o raw \in Seq(Nat) /\ Append(more, raw) \in Seq(Seq(Nat))
        /\ Reads(Append(more, raw), t \o raw)
        /\ Behind(Append(more, raw), t \o raw) = <<>>
    BY <1>5, <2>6, OneMore
  <2>9. raw \o raw \in Seq(Nat) BY ConcatProperties
  <2> QED BY <1>2, <2>3, <2>4, <2>5, <2>6, <2>7, <2>8, <2>9
<1> QED BY <1>6, <1>7, <1>1

----------------------------------------------------------------------------
(* The window shows the connection *)
\* The flags and the window's widgets as functions of the socket, at every
\* moment: inside receive() and the slots it calls as well.
Agree ==
    /\ socket \in {"none", "connecting", "connected", "closing"}
    /\ {connecting, closing, splitPending, sendEnabled} \subseteq BOOLEAN
    /\ shown = IF socket = "none" THEN "idle" ELSE socket
    /\ sendEnabled <=> socket = "connected" /\ ~splitPending
    /\ connecting <=> socket = "connecting"
    /\ closing <=> socket = "closing"

\* What a step may do to these variables.
Kept == UNCHANGED <<socket, connecting, closing, splitPending, shown, sendEnabled>>

----------------------------------------------------------------------------
LEMMA KeptAgree == Agree /\ Kept => Agree'
BY DEF Agree, Kept

LEMMA DisconnectedAgree == Disconnected => Agree'
BY DEF Disconnected, ReleaseSocket, CancelSplit, Agree

\* Without a second half on its way, the send button is the connection.
LEMMA SplitEndsAgree ==
    ASSUME Agree, Connected, splitPending' = FALSE, sendEnabled' = TRUE,
           UNCHANGED <<socket, connecting, closing, shown>>
    PROVE  Agree'
BY DEF Agree, Connected

LEMMA InitAgree == Init => Agree
BY DEF Init, Agree

----------------------------------------------------------------------------
\* The network and the server (tcpclient.cpp:79-112).
LEMMA NetworkAgree ==
    ASSUME Agree, Established \/ SocketEnds \/ Drain \/ ServerWrites
    PROVE  Agree'
<1>1. CASE Established BY <1>1 DEF Established, Agree, splitVars
<1>2. CASE SocketEnds BY <1>2, DisconnectedAgree DEF SocketEnds
<1>3. CASE Drain
  <2>1. Disconnected \/ UNCHANGED <<socket, session, flags, input, splitVars, arriving, ui>>
    BY <1>3 DEF Drain
  <2> QED BY <2>1, DisconnectedAgree, KeptAgree DEF flags, splitVars, ui, Kept
<1>4. CASE ServerWrites
  BY <1>4, KeptAgree DEF ServerWrites, flags, splitVars, ui, Kept
<1> QED BY <1>1, <1>2, <1>3, <1>4

\* connectTo() and disconnectFrom() (tcpclient.cpp:65-152).
LEMMA CallAgree ==
    ASSUME Agree, ConnectTo \/ DisconnectFrom
    PROVE  Agree'
<1>1. CASE ConnectTo BY <1>1 DEF ConnectTo, ReleaseSocket, CancelSplit, Agree
<1>2. CASE DisconnectFrom
  <2>1. CASE Disconnected BY <2>1, DisconnectedAgree
  <2>2. CASE /\ socket' = "closing" /\ closing' = TRUE /\ connecting' = FALSE
             /\ CancelSplit /\ shown' = "closing" /\ sendEnabled' = FALSE
    BY <2>2 DEF CancelSplit, Agree
  <2> QED BY <1>2, <2>1, <2>2 DEF DisconnectFrom
<1> QED BY <1>1, <1>2

\* sendFrame(), whole and split (tcpclient.cpp:191-246).
LEMMA SendAgree ==
    ASSUME Agree, NEW raw \in Frames, NEW copies \in {1, 2},
           SendAtOnce(raw, copies) \/ SendSplit(raw)
    PROVE  Agree'
<1>1. CASE SendAtOnce(raw, copies)
  <2>1. Disconnected \/ UNCHANGED <<socket, session, flags, input, splitVars, arriving, ui>>
    BY <1>1 DEF SendAtOnce, AcceptPart
  <2> QED BY <2>1, DisconnectedAgree, KeptAgree DEF flags, splitVars, ui, Kept
<1>2. CASE SendSplit(raw)
  <2>1. Connected BY <1>2 DEF SendSplit, MaySend
  <2>2. CASE Disconnected BY <2>2, DisconnectedAgree
  <2>3. CASE /\ splitPending' = TRUE /\ sendEnabled' = FALSE
             /\ UNCHANGED <<socket, session, flags, input, arriving, shown>>
    BY <2>1, <2>3 DEF Agree, Connected, flags
  <2> QED BY <1>2, <2>2, <2>3 DEF SendSplit, AcceptPart
<1> QED BY <1>1, <1>2

\* The timers, of this session or an earlier one (tcpclient.cpp:115-118, 143-151
\* and 226-237).
LEMMA TimeoutAgree ==
    ASSUME Agree, NEW t \in timers, Timeout(t)
    PROVE  Agree'
<1>1. Stale => Agree' BY KeptAgree DEF Stale, flags, splitVars, ui, Kept
<1>2. CASE ConnectTimeout(t)
  BY <1>1, <1>2, DisconnectedAgree DEF ConnectTimeout
<1>3. CASE DisconnectTimeout(t)
  BY <1>1, <1>3, DisconnectedAgree DEF DisconnectTimeout
<1>4. CASE SplitTimeout(t)
  <2>1. CASE ~Current(t) BY <1>1, <1>4, <2>1 DEF SplitTimeout
  <2>2. CASE Current(t)
    <3>1. Connected BY <2>2 DEF Current
    <3>2. CASE Disconnected BY <3>2, DisconnectedAgree
    <3>3. CASE /\ CancelSplit /\ sendEnabled' = TRUE
               /\ UNCHANGED <<socket, session, flags, input, arriving, shown>>
      BY <3>1, <3>3, SplitEndsAgree DEF CancelSplit, flags
    <3> QED BY <1>4, <2>2, <3>2, <3>3 DEF SplitTimeout, AcceptPart
  <2> QED BY <2>1, <2>2
<1> QED BY <1>2, <1>3, <1>4 DEF Timeout

\* receive() (tcpclient.cpp:248-281).
LEMMA ReceiveAgree ==
    ASSUME Agree, Receive \/ Reading
    PROVE  Agree'
<1> USE DEF flags, splitVars, ui, Kept
<1>1. CASE Receive BY <1>1, KeptAgree DEF Receive
<1>2. CASE ReadSocket
  <2>1. Disconnected \/ UNCHANGED <<socket, session, flags, splitVars, queue, ui>>
    BY <1>2 DEF ReadSocket
  <2> QED BY <2>1, DisconnectedAgree, KeptAgree
<1>3. CASE TakeFrame BY <1>3, KeptAgree DEF TakeFrame
<1>4. CASE SlotReturns BY <1>4, KeptAgree DEF SlotReturns
<1>5. CASE ProtocolError BY <1>5, DisconnectedAgree DEF ProtocolError
<1>6. CASE Return BY <1>6, KeptAgree DEF Return
<1> QED BY <1>1, <1>2, <1>3, <1>4, <1>5, <1>6 DEF Reading

LEMMA AgreeStep == Agree /\ [Next]_vars => Agree'
<1> SUFFICES ASSUME Agree, [Next]_vars PROVE Agree'
  OBVIOUS
<1>1. CASE ConnectTo \/ DisconnectFrom BY <1>1, CallAgree
<1>2. ASSUME NEW raw \in Frames, SendAtOnce(raw, 1) \/ SendAtOnce(raw, 2) \/ SendSplit(raw)
      PROVE  Agree'
  BY <1>2, SendAgree
<1>3. CASE Established \/ SocketEnds \/ Drain \/ ServerWrites BY <1>3, NetworkAgree
<1>4. ASSUME NEW t \in timers, Timeout(t) PROVE Agree'
  BY <1>4, TimeoutAgree
<1>5. CASE Receive \/ Reading BY <1>5, ReceiveAgree
<1>6. CASE UNCHANGED vars
  BY <1>6, KeptAgree DEF vars, flags, splitVars, ui, Kept
<1> QED BY <1>1, <1>2, <1>3, <1>4, <1>5, <1>6 DEF Next, Local

----------------------------------------------------------------------------
\* Between two events, and also inside receive(), the window shows the state of
\* the connection and the send button is enabled exactly when sendFrame() would
\* take a frame (mainwindow.cpp:889-904, tcpclient.cpp:40-63 and 121-152).
THEOREM WindowCorrect == Spec => []WindowTruthful
<1>1. Agree => WindowTruthful
  BY DEF Agree, WindowTruthful, Connected
<1> QED BY <1>1, InitAgree, AgreeStep, PTL DEF Spec

----------------------------------------------------------------------------
(* The stream the client writes *)
\* What the connection carries: the reported frames and, while the second half
\* of a frame is still to be written, its first half.  That second half fits
\* into the queue, because sendFrame() asked for the room of the whole frame.
Carried ==
    /\ reported \in Seq(Seq(Nat)) /\ written \in Seq(Nat) /\ queue \in Seq(Nat)
    /\ Reads(reported, written)
    /\ socket \in {"connecting", "connected"}
       => Behind(reported, written) = IF splitPending THEN FirstHalf(splitFrame) ELSE <<>>
    /\ splitPending
       => /\ splitFrame \in Seq(Nat) /\ IsFrame(splitFrame)
          /\ Len(queue) + Len(SecondHalf(splitFrame)) <= MaxQueuedBytes

LEMMA FramesOK ==
    ASSUME NEW raw \in Frames
    PROVE  raw \in Seq(Nat) /\ IsFrame(raw)
<1>1. PICK p \in Payloads : raw = <<2 + Len(p), Magic, 1>> \o p
  <2>1. PICK t \in {1}, p \in Payloads : raw = Pack(t, p) BY DEF Frames, Types
  <2>2. raw = <<2 + Len(p), Magic, 1>> \o p BY <2>1 DEF Pack
  <2> QED BY <2>2
<1>2. p \in Seq(Nat) /\ Len(p) <= MaxPayload BY TcpAssumption DEF TcpAssumption
<1>3. PICK head \in Seq(Nat) :
        head = <<2 + Len(p), Magic, 1>> /\ Len(head) = 3
        /\ head[1] = 2 + Len(p) /\ head[2] = Magic
  <2>1. Len(p) \in Nat /\ Magic \in Nat
    BY <1>2, LenProperties, FramingAssumption DEF FramingAssumption
  <2>2. <<2 + Len(p), Magic, 1>> \in Seq(Nat) BY <2>1
  <2> QED BY <2>2
<1>4. Len(p) \in Nat BY <1>2, LenProperties
<1>5. /\ head \o p \in Seq(Nat) /\ Len(head \o p) = Len(head) + Len(p)
      /\ \A i \in 1 .. Len(head) + Len(p) :
            (head \o p)[i] = IF i <= Len(head) THEN head[i] ELSE p[i - Len(head)]
  BY <1>2, ConcatProperties
<1>6. (head \o p)[1] = head[1] /\ (head \o p)[2] = head[2]
  <2>1. 1 \in 1 .. Len(head) + Len(p) /\ 2 \in 1 .. Len(head) + Len(p)
        /\ 1 <= Len(head) /\ 2 <= Len(head)
    BY <1>3, <1>4
  <2> QED BY <1>5, <2>1, Zenon
<1>7. raw \in Seq(Nat) /\ Len(raw) = 3 + Len(p) /\ raw[1] = 2 + Len(p) /\ raw[2] = Magic
  BY <1>1, <1>3, <1>5, <1>6
<1> QED BY <1>2, <1>4, <1>7, FramingAssumption
        DEF IsFrame, HeaderSize, MaxFrameSize, FramingAssumption

LEMMA TwoHalves ==
    ASSUME NEW raw \in Seq(Nat)
    PROVE  /\ FirstHalf(raw) \in Seq(Nat) /\ SecondHalf(raw) \in Seq(Nat)
           /\ raw = FirstHalf(raw) \o SecondHalf(raw)
           /\ Len(raw) = Len(FirstHalf(raw)) + Len(SecondHalf(raw))
<1>1. Len(raw) \in Nat BY LenProperties
<1>2. PICK n \in Nat : n = Len(raw) \div 2 /\ n <= Len(raw) BY <1>1
<1>3. SubSeq(raw, 1, n) \in Seq(Nat) /\ SubSeq(raw, n + 1, Len(raw)) \in Seq(Nat)
  <2>1. 1 \in Nat \ {0} /\ n + 1 \in Nat \ {0} /\ Len(raw) <= Len(raw) BY <1>1
  <2> QED BY <1>1, <1>2, <2>1, Part
<1>4. raw = SubSeq(raw, 1, n) \o SubSeq(raw, n + 1, Len(raw)) BY <1>2, Halves
<1>5. /\ FirstHalf(raw) = SubSeq(raw, 1, n)
      /\ SecondHalf(raw) = SubSeq(raw, n + 1, Len(raw))
  BY <1>2 DEF FirstHalf, SecondHalf
<1>6. Len(raw) = Len(SubSeq(raw, 1, n)) + Len(SubSeq(raw, n + 1, Len(raw)))
  BY <1>3, <1>4, ConcatProperties
<1> QED BY <1>3, <1>4, <1>5, <1>6

----------------------------------------------------------------------------
\* Steps that write nothing: the queue may drain, the connection may end.
LEMMA NothingWritten ==
    ASSUME Carried, UNCHANGED <<reported, written>>,
           socket' \in {"connecting", "connected"}
           => /\ socket \in {"connecting", "connected"}
              /\ UNCHANGED <<splitFrame, splitPending>>,
           splitPending' => UNCHANGED <<splitFrame, splitPending>>,
           queue' \in Seq(Nat), Len(queue') <= Len(queue)
    PROVE  Carried'
<1>1. /\ reported' \in Seq(Seq(Nat)) /\ written' \in Seq(Nat)
      /\ Reads(reported', written')
      /\ Behind(reported', written') = Behind(reported, written)
  BY DEF Carried
<1>2. socket' \in {"connecting", "connected"}
      => Behind(reported', written')
         = IF splitPending' THEN FirstHalf(splitFrame') ELSE <<>>
  BY <1>1 DEF Carried
<1>3. ASSUME splitPending'
      PROVE  /\ splitFrame' \in Seq(Nat) /\ IsFrame(splitFrame')
             /\ Len(queue') + Len(SecondHalf(splitFrame')) <= MaxQueuedBytes
  <2>1. splitPending /\ splitFrame' = splitFrame BY <1>3
  <2>2. /\ splitFrame \in Seq(Nat) /\ IsFrame(splitFrame)
        /\ Len(queue) + Len(SecondHalf(splitFrame)) <= MaxQueuedBytes
    BY <2>1 DEF Carried
  <2>3. PICK h \in Nat : h = Len(SecondHalf(splitFrame))
    BY <2>2, TwoHalves, LenProperties
  <2>4. Len(queue) \in Nat /\ Len(queue') \in Nat BY LenProperties DEF Carried
  <2>5. MaxQueuedBytes \in Nat BY TcpAssumption DEF TcpAssumption
  <2>6. Len(queue') + h <= MaxQueuedBytes BY <2>2, <2>3, <2>4, <2>5
  <2> QED BY <2>1, <2>2, <2>3, <2>6
<1> QED BY <1>1, <1>2, <1>3 DEF Carried

\* The end of a connection, whatever the socket took before.
LEMMA EndWrites ==
    ASSUME NEW more \in Seq(Nat), Carried, Disconnected,
           reported' = reported, written' = written \o more
    PROVE  Carried'
<1>1. reported \in Seq(Seq(Nat)) /\ written \in Seq(Nat) /\ Reads(reported, written)
  BY DEF Carried
<1>2. written \o more \in Seq(Nat) /\ Reads(reported, written \o more)
  BY <1>1, ReadsMore
<1>3. <<>> \in Seq(Nat) BY EmptySeq
<1> QED BY <1>1, <1>2, <1>3
        DEF Carried, Disconnected, ReleaseSocket, CancelSplit

LEMMA EndOnly ==
    ASSUME Carried, Disconnected, UNCHANGED <<reported, written>>
    PROVE  Carried'
<1>1. <<>> \in Seq(Nat) BY EmptySeq
<1>2. written' = written \o <<>> BY <1>1, ConcatEmptySeq DEF Carried
<1> QED BY <1>1, <1>2, EndWrites

\* A write that is cut short ends the connection.
LEMMA PartWritten ==
    ASSUME NEW words \in Seq(Nat), Carried, AcceptPart(words), reported' = reported
    PROVE  Carried'
<1>1. Len(words) \in Nat BY LenProperties
<1>2. PICK n \in 0 .. Len(words) - 1 : written' = written \o SubSeq(words, 1, n)
  BY DEF AcceptPart
<1>3. n \in Nat /\ n <= Len(words) /\ 1 \in Nat \ {0} BY <1>1
<1>4. SubSeq(words, 1, n) \in Seq(Nat) BY <1>3, Part
<1> QED BY <1>2, <1>4, EndWrites DEF AcceptPart

LEMMA InitCarried == Init => Carried
<1> SUFFICES ASSUME Init PROVE Carried OBVIOUS
<1>1. <<>> \in Seq(Nat) BY EmptySeq
<1>2. /\ <<>> \in Seq(Seq(Nat)) /\ Reads(<<>>, <<>>) /\ Behind(<<>>, <<>>) = <<>>
  BY <1>1, ReadsNothing
<1> QED BY <1>1, <1>2 DEF Init, Carried

\* The network, the server and the end of a connection (tcpclient.cpp:79-152).
LEMMA NetworkCarried ==
    ASSUME Carried, Established \/ SocketEnds \/ Drain \/ ServerWrites
    PROVE  Carried'
<1>1. queue \in Seq(Nat) /\ Len(queue) \in Nat BY LenProperties DEF Carried
<1>2. CASE Established
  BY <1>1, <1>2, NothingWritten DEF Established, splitVars, past
<1>3. CASE SocketEnds BY <1>3, EndOnly DEF SocketEnds, past
<1>4. CASE Drain
  <2>1. UNCHANGED <<reported, written>> BY <1>4 DEF Drain, past
  <2>2. CASE Disconnected BY <2>1, <2>2, EndOnly
  <2>3. CASE /\ queue' = Tail(queue)
             /\ UNCHANGED <<socket, session, flags, input, splitVars, arriving, ui>>
    <3>1. queue # <<>> BY <1>4 DEF Drain
    <3>2. Tail(queue) \in Seq(Nat) /\ Len(Tail(queue)) = Len(queue) - 1
      BY <1>1, <3>1, HeadTailProperties
    <3>3. queue' \in Seq(Nat) /\ Len(queue') <= Len(queue) BY <1>1, <2>3, <3>2
    <3> QED BY <2>1, <2>3, <3>3, NothingWritten DEF splitVars
  <2> QED BY <1>4, <2>2, <2>3 DEF Drain
<1>5. CASE ServerWrites
  BY <1>1, <1>5, NothingWritten DEF ServerWrites, splitVars, past
<1> QED BY <1>2, <1>3, <1>4, <1>5

\* connectTo() and disconnectFrom() (tcpclient.cpp:65-152).
LEMMA CallCarried ==
    ASSUME Carried, ConnectTo \/ DisconnectFrom
    PROVE  Carried'
<1>1. CASE ConnectTo
  <2>1. <<>> \in Seq(Nat) BY EmptySeq
  <2>2. /\ <<>> \in Seq(Seq(Nat)) /\ Reads(<<>>, <<>>) /\ Behind(<<>>, <<>>) = <<>>
    BY <2>1, ReadsNothing
  <2>3. /\ reported' = <<>> /\ written' = <<>> /\ queue' = <<>>
        /\ splitPending' = FALSE
    BY <1>1 DEF ConnectTo, ReleaseSocket, CancelSplit
  <2> QED BY <2>1, <2>2, <2>3 DEF Carried
<1>2. CASE DisconnectFrom
  <2>1. UNCHANGED <<reported, written>> BY <1>2 DEF DisconnectFrom, past
  <2>2. CASE Disconnected BY <2>1, <2>2, EndOnly
  <2>3. CASE /\ socket' = "closing" /\ CancelSplit
             /\ UNCHANGED <<session, input, queue, arriving>>
    <3>1. queue \in Seq(Nat) /\ Len(queue) \in Nat BY LenProperties DEF Carried
    <3>2. socket' = "closing" /\ splitPending' = FALSE /\ queue' = queue
      BY <2>3 DEF CancelSplit
    <3> QED BY <2>1, <3>1, <3>2, NothingWritten
  <2> QED BY <1>2, <2>2, <2>3 DEF DisconnectFrom
<1> QED BY <1>1, <1>2

\* sendFrame() writes whole frames (tcpclient.cpp:191-246).
LEMMA SendCarried ==
    ASSUME NEW raw \in Frames, NEW copies \in {1, 2},
           Agree, Carried, SendAtOnce(raw, copies)
    PROVE  Carried'
<1>1. raw \in Seq(Nat) /\ IsFrame(raw) BY FramesOK
<1>2. /\ reported \in Seq(Seq(Nat)) /\ written \in Seq(Nat) /\ queue \in Seq(Nat)
      /\ Reads(reported, written)
  BY DEF Carried
<1>3. Connected /\ ~splitPending BY DEF SendAtOnce, MaySend
<1>4. Behind(reported, written) = <<>> BY <1>3 DEF Carried, Connected
<1>5. PICK c, words :
        /\ c = [k \in 1 .. copies |-> raw] /\ words = FlattenSeq(c)
        /\ \E n \in {1, 2} : c = [k \in 1 .. n |-> raw]
  OBVIOUS
<1>6. /\ words \in Seq(Nat) /\ written \o words \in Seq(Nat)
      /\ reported \o c \in Seq(Seq(Nat))
      /\ Reads(reported \o c, written \o words)
      /\ Behind(reported \o c, written \o words) = <<>>
  <2>1. PICK frames \in Seq(Seq(Nat)), stream \in Seq(Nat) :
          frames = reported /\ stream = written
    BY <1>2
  <2>2. Reads(frames, stream) /\ Behind(frames, stream) = <<>> BY <1>2, <1>4, <2>1
  <2>3. /\ words \in Seq(Nat) /\ stream \o words \in Seq(Nat)
        /\ frames \o c \in Seq(Seq(Nat))
        /\ Reads(frames \o c, stream \o words)
        /\ Behind(frames \o c, stream \o words) = <<>>
    BY <1>1, <1>5, <2>2, Copies
  <2> QED BY <2>1, <2>3
<1>7. CASE /\ Accept(words) /\ reported' = reported \o c
           /\ UNCHANGED splitVars
  <2>1. /\ written' = written \o words /\ queue' = queue \o words
        /\ splitPending' = splitPending
    BY <1>7 DEF Accept, splitVars
  <2>2. queue' \in Seq(Nat) BY <1>2, <1>6, <2>1, ConcatProperties
  <2>3. /\ reported' \in Seq(Seq(Nat)) /\ written' \in Seq(Nat)
        /\ Reads(reported', written') /\ Behind(reported', written') = <<>>
    BY <1>6, <1>7, <2>1
  <2>4. ~splitPending' BY <1>3, <2>1
  <2> QED BY <2>2, <2>3, <2>4 DEF Carried
<1>8. CASE AcceptPart(words) /\ reported' = reported
  BY <1>6, <1>8, PartWritten
<1> QED BY <1>5, <1>7, <1>8 DEF SendAtOnce

\* The first half of a split send, with room for the second.
LEMMA SplitCarried ==
    ASSUME NEW raw \in Frames, Agree, Carried, SendSplit(raw)
    PROVE  Carried'
<1>1. raw \in Seq(Nat) /\ IsFrame(raw) BY FramesOK
<1>2. /\ reported \in Seq(Seq(Nat)) /\ written \in Seq(Nat) /\ queue \in Seq(Nat)
      /\ Reads(reported, written)
  BY DEF Carried
<1>3. Connected /\ ~splitPending /\ Fits(raw) BY DEF SendSplit, MaySend
<1>4. Behind(reported, written) = <<>> BY <1>3 DEF Carried, Connected
<1>5. PICK h \in Seq(Nat), r \in Seq(Nat) :
        h = FirstHalf(raw) /\ r = SecondHalf(raw) /\ Len(raw) = Len(h) + Len(r)
  BY <1>1, TwoHalves
<1>6. reported' = reported BY DEF SendSplit
<1>7. CASE Accept(FirstHalf(raw)) /\ splitFrame' = raw /\ splitPending' = TRUE
  <2>1. written' = written \o h /\ queue' = queue \o h BY <1>5, <1>7 DEF Accept
  <2>2. /\ written \o h \in Seq(Nat) /\ Reads(reported, written \o h)
        /\ Behind(reported, written \o h) = Behind(reported, written) \o h
    BY <1>2, ReadsMore
  <2>3. <<>> \o h = h BY ConcatEmptySeq
  <2>4. Behind(reported', written') = FirstHalf(splitFrame')
    BY <1>4, <1>5, <1>6, <1>7, <2>1, <2>2, <2>3
  <2>5. queue' \in Seq(Nat) /\ Len(queue') = Len(queue) + Len(h)
    BY <1>2, <2>1, ConcatProperties
  <2>6. Len(queue') + Len(r) <= MaxQueuedBytes
    <3>1. Len(queue) \in Nat /\ Len(h) \in Nat /\ Len(r) \in Nat
      BY <1>2, LenProperties
    <3>2. Len(queue) + Len(raw) <= MaxQueuedBytes BY <1>3 DEF Fits
    <3>3. MaxQueuedBytes \in Nat BY TcpAssumption DEF TcpAssumption
    <3> QED BY <1>5, <2>5, <3>1, <3>2, <3>3
  <2>7. Len(queue') + Len(SecondHalf(splitFrame')) <= MaxQueuedBytes
    BY <1>5, <1>7, <2>6
  <2>8. /\ splitFrame' \in Seq(Nat) /\ IsFrame(splitFrame')
        /\ reported' \in Seq(Seq(Nat)) /\ written' \in Seq(Nat)
        /\ Reads(reported', written')
    BY <1>1, <1>2, <1>6, <1>7, <2>1, <2>2
  <2> QED BY <1>7, <2>4, <2>5, <2>7, <2>8 DEF Carried
<1>8. CASE AcceptPart(FirstHalf(raw))
  BY <1>5, <1>6, <1>8, PartWritten
<1> QED BY <1>7, <1>8 DEF SendSplit

\* The timers; the second half makes the frame whole (tcpclient.cpp:115-118,
\* 143-151 and 226-237).
LEMMA TimeoutCarried ==
    ASSUME NEW t \in timers, Agree, Carried, Timeout(t)
    PROVE  Carried'
<1>1. queue \in Seq(Nat) /\ Len(queue) \in Nat BY LenProperties DEF Carried
<1>2. CASE Stale BY <1>1, <1>2, NothingWritten DEF Stale, splitVars, past
<1>3. CASE Disconnected /\ UNCHANGED past BY <1>3, EndOnly DEF past
<1>4. CASE SplitTimeout(t) /\ Current(t)
  <2>1. splitPending /\ socket = "connected" BY <1>4 DEF Current, Connected
  <2>2. PICK raw \in Seq(Nat) : raw = splitFrame /\ IsFrame(raw) BY <2>1 DEF Carried
  <2>3. PICK h \in Seq(Nat), r \in Seq(Nat) :
          h = FirstHalf(raw) /\ r = SecondHalf(raw) /\ raw = h \o r
    BY <2>2, TwoHalves
  <2>4. Fits(SecondHalf(splitFrame)) BY <2>1 DEF Carried, Fits
  <2>5. CASE /\ Accept(r) /\ CancelSplit /\ reported' = Append(reported, raw)
    <3>1. /\ reported \in Seq(Seq(Nat)) /\ written \in Seq(Nat)
          /\ Reads(reported, written)
      BY DEF Carried
    <3>2. Behind(reported, written) = h BY <2>1, <2>2, <2>3 DEF Carried
    <3>3. /\ written \o r \in Seq(Nat) /\ Reads(reported, written \o r)
          /\ Behind(reported, written \o r) = Behind(reported, written) \o r
      BY <3>1, ReadsMore
    <3>4. PICK e \in Seq(Nat) : e = <<>> BY EmptySeq
    <3>5. Behind(reported, written \o r) = raw \o e
      BY <2>3, <3>2, <3>3, <3>4, ConcatEmptySeq
    <3>6. /\ Append(reported, raw) \in Seq(Seq(Nat))
          /\ Reads(Append(reported, raw), written \o r)
          /\ Behind(Append(reported, raw), written \o r) = e
      BY <2>2, <3>1, <3>3, <3>5, ReadsFrame
    <3>7. /\ written' = written \o r /\ queue' = queue \o r
          /\ splitPending' = FALSE
      BY <2>5 DEF Accept, CancelSplit
    <3>8. queue' \in Seq(Nat) BY <1>1, <3>7, ConcatProperties
    <3> QED BY <2>5, <3>3, <3>4, <3>6, <3>7, <3>8 DEF Carried
  <2>6. CASE AcceptPart(r) /\ reported' = reported BY <2>6, PartWritten
  <2> QED BY <1>4, <2>2, <2>3, <2>4, <2>5, <2>6 DEF SplitTimeout
<1>5. CASE SplitTimeout(t) /\ ~Current(t) BY <1>2, <1>5 DEF SplitTimeout
<1>6. CASE ConnectTimeout(t) \/ DisconnectTimeout(t)
  BY <1>2, <1>3, <1>6 DEF ConnectTimeout, DisconnectTimeout
<1> QED BY <1>4, <1>5, <1>6 DEF Timeout

\* receive() writes nothing; it may end the connection (tcpclient.cpp:248-281).
LEMMA ReceiveCarried ==
    ASSUME Carried, Receive \/ Reading
    PROVE  Carried'
<1>1. queue \in Seq(Nat) /\ Len(queue) \in Nat BY LenProperties DEF Carried
<1>2. UNCHANGED <<reported, written>>
  BY DEF Receive, Reading, ReadSocket, TakeFrame, SlotReturns, ProtocolError, Return, past
<1>3. Disconnected \/ UNCHANGED <<socket, splitVars, queue>>
  BY DEF Receive, Reading, ReadSocket, TakeFrame, SlotReturns, ProtocolError, Return
<1>4. CASE Disconnected BY <1>2, <1>4, EndOnly
<1>5. CASE UNCHANGED <<socket, splitVars, queue>>
  BY <1>1, <1>2, <1>5, NothingWritten DEF splitVars
<1> QED BY <1>3, <1>4, <1>5

LEMMA CarriedStep == Agree /\ Carried /\ [Next]_vars => Carried'
<1> SUFFICES ASSUME Agree, Carried, [Next]_vars PROVE Carried'
  OBVIOUS
<1>1. CASE ConnectTo \/ DisconnectFrom BY <1>1, CallCarried
<1>2. ASSUME NEW raw \in Frames, SendAtOnce(raw, 1) \/ SendAtOnce(raw, 2) \/ SendSplit(raw)
      PROVE  Carried'
  BY <1>2, SendCarried, SplitCarried
<1>3. CASE Established \/ SocketEnds \/ Drain \/ ServerWrites BY <1>3, NetworkCarried
<1>4. ASSUME NEW t \in timers, Timeout(t) PROVE Carried'
  BY <1>4, TimeoutCarried
<1>5. CASE Receive \/ Reading BY <1>5, ReceiveCarried
<1>6. CASE UNCHANGED vars
  BY <1>6 DEF vars, splitVars, past, Carried
<1> QED BY <1>1, <1>2, <1>3, <1>4, <1>5, <1>6 DEF Next, Local

\* What a connection carries is the reported frames, whole and in order, and a
\* first half of a frame only while its second half is still to be written or
\* when the connection is over (tcpclient.cpp:160-175 and 191-246).
THEOREM StreamCorrect == Spec => []StreamAligned
<1>1. Carried => StreamAligned
  BY DEF Carried, StreamAligned, Connected
<1> QED BY <1>1, InitAgree, AgreeStep, InitCarried, CarriedStep, PTL DEF Spec

----------------------------------------------------------------------------
(* The stream the client reads *)
\* What was read of the server's stream.  A receive() whose connection is over
\* has an empty input_, and one that returns has taken every whole frame.
Received ==
    /\ session \in Nat /\ receiving \in Nat
    /\ input \in Seq(Nat) /\ arriving \in Seq(Nat) /\ reply \in Seq(Nat)
    /\ received \in Seq(Seq(Nat))
    /\ \A k \in DOMAIN received : IsFrame(received[k])
    /\ IsPrefix(FlattenSeq(received) \o input \o arriving, reply)
    /\ rpc = "idle" /\ socket # "none" => Take(input).kind = "more"
    /\ rpc # "idle" => /\ receiving <= session
                       /\ receiving # session => input = <<>>

\* The empty input waits for words.
LEMMA NothingWaits == Take(<<>>).kind = "more"
<1>1. Len(<<>>) = 0 BY EmptySeq
<1> QED BY <1>1 DEF Take, More

\* Less of a beginning is a beginning.
LEMMA PrefixOf ==
    ASSUME NEW s \in Seq(Nat), NEW a \in Seq(Nat), NEW t \in Seq(Nat),
           IsPrefix(Join(s, a), t)
    PROVE  IsPrefix(s, t)
<1>1. PICK h \in Seq(Nat) : h = Join(s, a) BY JoinFacts
<1>2. PICK r \in Seq(Nat) : t = h \o r BY <1>1, PrefixRest
<1>3. Join(Join(s, a), r) = Join(s, Join(a, r)) BY JoinFacts
<1>4. PICK x \in Seq(Nat) : x = Join(a, r) BY JoinFacts
<1>5. t = Join(h, r) /\ Join(h, r) = Join(s, x) BY <1>1, <1>2, <1>3, <1>4 DEF Join
<1>6. t = s \o x BY <1>5 DEF Join
<1> QED BY <1>6, PrefixRest

\* The received frames are the beginning of the answer.
LEMMA ReceivedBegins ==
    ASSUME Received
    PROVE  FlattenSeq(received) \in Seq(Nat) /\ IsPrefix(FlattenSeq(received), reply)
<1>1. /\ received \in Seq(Seq(Nat)) /\ reply \in Seq(Nat)
      /\ IsPrefix(FlattenSeq(received) \o input \o arriving, reply)
  BY DEF Received
<1>2. PICK s \in Seq(Nat) : s = FlattenSeq(received) BY <1>1, FlattenTyped
<1>3. PICK i \in Seq(Nat), a \in Seq(Nat) : i = input /\ a = arriving BY DEF Received
<1>4. PICK h \in Seq(Nat) : h = Join(s, i) BY JoinFacts
<1>5. IsPrefix(Join(h, a), reply) BY <1>1, <1>2, <1>3, <1>4 DEF Join
<1>6. IsPrefix(h, reply) BY <1>1, <1>5, PrefixOf
<1>7. IsPrefix(s, reply) BY <1>1, <1>4, <1>6, PrefixOf
<1> QED BY <1>2, <1>7

----------------------------------------------------------------------------
\* Steps that read nothing and leave the connection; steps that end it.
LEMMA NothingRead ==
    ASSUME Received,
           UNCHANGED <<session, receiving, input, arriving, reply, received, rpc>>,
           socket' # "none" => socket # "none"
    PROVE  Received'
BY DEF Received

LEMMA EndReads ==
    ASSUME Received, Disconnected, UNCHANGED <<receiving, reply, received>>,
           rpc' = rpc \/ rpc' = "idle"
    PROVE  Received'
<1>1. /\ received \in Seq(Seq(Nat)) /\ input \in Seq(Nat) /\ arriving \in Seq(Nat)
      /\ reply \in Seq(Nat) /\ session \in Nat /\ receiving \in Nat
  BY DEF Received
<1>2. PICK s \in Seq(Nat) : s = FlattenSeq(received) /\ IsPrefix(s, reply)
  BY ReceivedBegins
<1>3. IsPrefix(s, reply) BY <1>2
<1>4. <<>> \in Seq(Nat) /\ (s \o <<>>) \o <<>> = s BY EmptySeq, ConcatEmptySeq
<1>5. /\ session' = session + 1 /\ input' = <<>> /\ arriving' = <<>>
      /\ socket' = "none"
  BY DEF Disconnected, ReleaseSocket
<1>6. IsPrefix(FlattenSeq(received') \o input' \o arriving', reply')
  BY <1>2, <1>3, <1>4, <1>5
<1>7. rpc' # "idle" => receiving' <= session' /\ receiving' # session'
  BY <1>1, <1>5 DEF Received
<1> QED BY <1>1, <1>4, <1>5, <1>6, <1>7 DEF Received

LEMMA InitReceived == Init => Received
<1> SUFFICES ASSUME Init PROVE Received OBVIOUS
<1>1. <<>> \in Seq(Nat) /\ <<>> \in Seq(Seq(Nat)) BY EmptySeq
<1>2. \A k \in DOMAIN <<>> : IsFrame(<<>>[k]) OBVIOUS
<1>3. (FlattenSeq(<<>>) \o <<>>) \o <<>> = <<>> BY <1>1, FlattenEmpty, ConcatEmptySeq
<1>4. IsPrefix(<<>>, <<>>)
  <2>1. <<>> \o <<>> = <<>> BY <1>1, ConcatEmptySeq
  <2> QED BY <1>1, <2>1, PrefixRest
<1>5. IsPrefix(FlattenSeq(received) \o input \o arriving, reply)
  BY <1>3, <1>4 DEF Init
<1> QED BY <1>1, <1>2, <1>5 DEF Init, Received

\* A new connection has read nothing of its stream.
LEMMA ConnectReceived ==
    ASSUME Received, ConnectTo
    PROVE  Received'
<1>1. <<>> \in Seq(Nat) /\ <<>> \in Seq(Seq(Nat)) BY EmptySeq
<1>2. reply' \in Seq(Nat) BY TcpAssumption DEF ConnectTo, TcpAssumption
<1>3. /\ session' = session + 1 /\ input' = <<>> /\ arriving' = <<>> /\ received' = <<>>
      /\ rpc' = rpc /\ receiving' = receiving
  BY DEF ConnectTo, ReleaseSocket, reader
<1>4. \A k \in DOMAIN received' : IsFrame(received'[k]) BY <1>3
<1>5. IsPrefix(FlattenSeq(received') \o input' \o arriving', reply')
  <2>1. (FlattenSeq(<<>>) \o <<>>) \o <<>> = <<>> BY <1>1, FlattenEmpty, ConcatEmptySeq
  <2>2. <<>> \o reply' = reply' BY <1>2, ConcatEmptySeq
  <2>3. IsPrefix(<<>>, reply') BY <1>1, <1>2, <2>2, PrefixRest
  <2> QED BY <1>3, <2>1, <2>3
<1>6. session \in Nat /\ receiving \in Nat BY DEF Received
<1>7. rpc' # "idle" => receiving' <= session' BY <1>3, <1>6 DEF Received
<1> QED BY <1>1, <1>2, <1>3, <1>4, <1>5, <1>6, <1>7, NothingWaits DEF Received

\* A part more of a stream, and words that move from one side to the other.
LEMMA PartMore ==
    ASSUME NEW s \in Seq(Nat), NEW t \in Seq(Nat), NEW n \in Nat,
           IsPrefix(s, t), Len(s) < n, n <= Len(t)
    PROVE  /\ SubSeq(t, Len(s) + 1, n) \in Seq(Nat)
           /\ IsPrefix(s \o SubSeq(t, Len(s) + 1, n), t)
<1>1. Len(s) \in Nat /\ Len(t) \in Nat BY LenProperties
<1>2. SubSeq(t, Len(s) + 1, n) \in Seq(Nat)
  <2>1. Len(s) + 1 \in Nat \ {0} BY <1>1
  <2> QED BY <2>1, Part
<1>3. SubSeq(t, 1, Len(s)) = s
  <2>1. SubSeq(s, 1, Len(s)) = SubSeq(t, 1, Len(s)) BY DEF IsPrefix
  <2> QED BY <2>1, SubSeqFull
<1>4. SubSeq(t, 1, Len(s)) \o SubSeq(t, Len(s) + 1, n) = SubSeq(t, 1, n)
  <2>1. 1 \in 1 .. Len(t) + 1 /\ Len(s) \in 1 - 1 .. Len(t) /\ n \in Len(s) .. Len(t)
    BY <1>1
  <2> QED BY <2>1, ConcatAdjacentSubSeq
<1>5. t = SubSeq(t, 1, n) \o SubSeq(t, n + 1, Len(t)) BY Halves
<1>6. SubSeq(t, 1, n) \in Seq(Nat) /\ SubSeq(t, n + 1, Len(t)) \in Seq(Nat)
  <2>1. 1 \in Nat \ {0} /\ n + 1 \in Nat \ {0} /\ Len(t) <= Len(t) BY <1>1
  <2> QED BY <1>1, <2>1, Part
<1>7. IsPrefix(SubSeq(t, 1, n), t) BY <1>5, <1>6, PrefixRest
<1> QED BY <1>2, <1>3, <1>4, <1>7

\* The least of three numbers.
LEMMA MinOfThree ==
    ASSUME NEW a \in Nat, NEW b \in Nat, NEW c \in Nat
    PROVE  Min({a, b, c}) \in Nat /\ Min({a, b, c}) <= c
<1>1. PICK T \in SUBSET Nat : T = {a, b, c} OBVIOUS
<1>2. \E k \in T : \A m \in T : k <= m
  <2>1. T # {} BY <1>1
  <2> QED BY <2>1, Least
<1>3. Min(T) \in T /\ \A m \in T : Min(T) <= m BY <1>2 DEF Min
<1> QED BY <1>1, <1>3

----------------------------------------------------------------------------
\* The server writes the next part of its stream.
LEMMA WritesReceived ==
    ASSUME Received, ServerWrites
    PROVE  Received'
<1>1. /\ received \in Seq(Seq(Nat)) /\ input \in Seq(Nat) /\ arriving \in Seq(Nat)
      /\ reply \in Seq(Nat) /\ session \in Nat /\ receiving \in Nat
  BY DEF Received
<1>2. PICK s \in Seq(Nat), i \in Seq(Nat), a \in Seq(Nat), r \in Seq(Nat) :
        s = FlattenSeq(received) /\ i = input /\ a = arriving /\ r = reply
  BY <1>1, FlattenTyped
<1>3. PICK h \in Seq(Nat) : h = s \o i /\ Len(h) = Len(s) + Len(i)
  BY ConcatProperties
<1>4. PICK t \in Seq(Nat) : t = h \o a /\ Len(t) = Len(h) + Len(a)
  BY ConcatProperties
<1>5. IsPrefix(t, r) BY <1>2, <1>3, <1>4 DEF Received
<1>6. Len(t) = Len(s) + Len(i) + Len(a) /\ Len(t) \in Nat /\ Len(r) \in Nat
  BY <1>3, <1>4, LenProperties
<1>7. PICK n \in Len(t) + 1 .. Len(r) : arriving' = a \o SubSeq(r, Len(t) + 1, n)
  BY <1>2, <1>6 DEF ServerWrites
<1>8. n \in Nat /\ Len(t) < n /\ n <= Len(r) BY <1>6
<1>9. PICK x \in Seq(Nat) : x = SubSeq(r, Len(t) + 1, n) /\ IsPrefix(t \o x, r)
  BY <1>5, <1>8, PartMore
<1>10. h \o (a \o x) = t \o x
  <2>1. Join(Join(h, a), x) = Join(h, Join(a, x)) BY JoinFacts
  <2> QED BY <1>4, <2>1 DEF Join
<1>11. a \o x \in Seq(Nat) BY ConcatProperties
<1>12. UNCHANGED <<session, receiving, input, reply, received, rpc, socket>>
  BY DEF ServerWrites, reader, past, history
<1>13. IsPrefix(FlattenSeq(received') \o input' \o arriving', reply')
  BY <1>2, <1>3, <1>7, <1>9, <1>10, <1>12
<1> QED BY <1>1, <1>7, <1>9, <1>11, <1>12, <1>13 DEF Received

\* The network and the end of a connection (tcpclient.cpp:79-152).
LEMMA NetworkReceived ==
    ASSUME Received, Established \/ SocketEnds \/ Drain \/ ServerWrites
    PROVE  Received'
<1>1. CASE Established
  BY <1>1, NothingRead DEF Established, reader, past, history
<1>2. CASE SocketEnds BY <1>2, EndReads DEF SocketEnds, reader, past, history
<1>3. CASE Drain
  <2>1. UNCHANGED <<receiving, reply, received, rpc>>
    BY <1>3 DEF Drain, reader, past, history
  <2>2. CASE Disconnected BY <2>1, <2>2, EndReads
  <2>3. CASE UNCHANGED <<socket, session, flags, input, splitVars, arriving, ui>>
    BY <2>1, <2>3, NothingRead
  <2> QED BY <1>3, <2>2, <2>3 DEF Drain
<1>4. CASE ServerWrites BY <1>4, WritesReceived
<1> QED BY <1>1, <1>2, <1>3, <1>4

LEMMA DisconnectReceived ==
    ASSUME Received, DisconnectFrom
    PROVE  Received'
<1>1. UNCHANGED <<receiving, reply, received, rpc>> /\ socket # "none"
  BY DEF DisconnectFrom, reader, past, history
<1>2. CASE Disconnected BY <1>1, <1>2, EndReads
<1>3. CASE UNCHANGED <<session, input, queue, arriving>>
  BY <1>1, <1>3, NothingRead
<1> QED BY <1>2, <1>3 DEF DisconnectFrom

\* sendFrame() and the timers read nothing (tcpclient.cpp:115-151 and 191-246).
LEMMA SendReceived ==
    ASSUME NEW raw, NEW copies, Received, SendAtOnce(raw, copies) \/ SendSplit(raw)
    PROVE  Received'
<1>1. UNCHANGED <<receiving, reply, received, rpc>>
  BY DEF SendAtOnce, SendSplit, reader, history
<1>2. Disconnected \/ UNCHANGED <<socket, session, input, arriving>>
  BY DEF SendAtOnce, SendSplit, AcceptPart
<1>3. CASE Disconnected BY <1>1, <1>3, EndReads
<1>4. CASE UNCHANGED <<socket, session, input, arriving>> BY <1>1, <1>4, NothingRead
<1> QED BY <1>2, <1>3, <1>4

LEMMA TimeoutReceived ==
    ASSUME NEW t, Received, Timeout(t)
    PROVE  Received'
<1>1. UNCHANGED <<receiving, reply, received, rpc>>
  BY DEF Timeout, ConnectTimeout, DisconnectTimeout, SplitTimeout, Stale, reader,
         history, past
<1>2. Disconnected \/ UNCHANGED <<socket, session, input, arriving>>
  BY DEF Timeout, ConnectTimeout, DisconnectTimeout, SplitTimeout, Stale, AcceptPart
<1>3. CASE Disconnected BY <1>1, <1>3, EndReads
<1>4. CASE UNCHANGED <<socket, session, input, arriving>> BY <1>1, <1>4, NothingRead
<1> QED BY <1>2, <1>3, <1>4

----------------------------------------------------------------------------
(* receive(), tcpclient.cpp:248-281 *)

LEMMA ReadSocketReceived ==
    ASSUME Received, ReadSocket
    PROVE  Received'
<1>1. UNCHANGED <<receiving, reply, received, rpc>> /\ rpc = "loop" /\ Here
  BY DEF ReadSocket, reader, past, history
<1>2. CASE Disconnected BY <1>1, <1>2, EndReads
<1>3. CASE /\ MaxFrameSize - Len(input) > 0
           /\ input' = input \o SubSeq(arriving, 1,
                   Min({MaxFrameSize - Len(input), ReadChunkSize, Len(arriving)}))
           /\ arriving' = SubSeq(arriving,
                   Min({MaxFrameSize - Len(input), ReadChunkSize, Len(arriving)}) + 1,
                   Len(arriving))
           /\ UNCHANGED <<socket, session>>
  <2>1. /\ received \in Seq(Seq(Nat)) /\ input \in Seq(Nat) /\ arriving \in Seq(Nat)
        /\ reply \in Seq(Nat) /\ session \in Nat /\ receiving \in Nat
    BY DEF Received
  <2>2. PICK s \in Seq(Nat), i \in Seq(Nat), a \in Seq(Nat) :
          s = FlattenSeq(received) /\ i = input /\ a = arriving
    BY <2>1, FlattenTyped
  <2>3. PICK n \in Nat :
          /\ n = Min({MaxFrameSize - Len(input), ReadChunkSize, Len(arriving)})
          /\ n <= Len(a)
    <3>1. MaxFrameSize - Len(input) \in Nat /\ ReadChunkSize \in Nat /\ Len(arriving) \in Nat
      <4>1. MaxFrameSize \in Nat
        BY FramingAssumption DEF FramingAssumption, MaxFrameSize, HeaderSize
      <4>2. Len(input) \in Nat /\ Len(arriving) \in Nat BY <2>1, LenProperties
      <4>3. MaxFrameSize - Len(input) \in Nat BY <1>3, <4>1, <4>2
      <4> QED BY <4>2, <4>3, TcpAssumption DEF TcpAssumption
    <3>2. /\ Min({MaxFrameSize - Len(input), ReadChunkSize, Len(arriving)}) \in Nat
          /\ Min({MaxFrameSize - Len(input), ReadChunkSize, Len(arriving)}) <= Len(arriving)
      BY <3>1, MinOfThree
    <3> QED BY <2>2, <3>2
  <2>4. PICK x \in Seq(Nat), y \in Seq(Nat) :
          x = SubSeq(a, 1, n) /\ y = SubSeq(a, n + 1, Len(a)) /\ a = x \o y
    <3>1. 1 \in Nat \ {0} /\ n + 1 \in Nat \ {0} /\ n <= Len(a) BY <2>3
    <3>2. SubSeq(a, 1, n) \in Seq(Nat) /\ SubSeq(a, n + 1, Len(a)) \in Seq(Nat)
      BY <3>1, LenProperties, Part
    <3>3. a = SubSeq(a, 1, n) \o SubSeq(a, n + 1, Len(a)) BY <3>1, Halves
    <3> QED BY <3>2, <3>3
  <2>5. PICK z \in Seq(Nat) : z = i \o x BY ConcatProperties
  <2>6. input' = z /\ arriving' = y BY <1>3, <2>2, <2>3, <2>4, <2>5
  <2>7. IsPrefix(FlattenSeq(received') \o input' \o arriving', reply')
    <3>1. Join(Join(s, Join(i, x)), y) = Join(Join(s, i), Join(x, y))
      <4>1. s \in Seq(Nat) /\ i \in Seq(Nat) /\ x \in Seq(Nat) /\ y \in Seq(Nat)
        BY <2>2, <2>4
      <4> QED BY <4>1, Regroup
    <3>2. IsPrefix(Join(Join(s, i), a), reply) BY <2>2 DEF Received, Join
    <3>3. a = Join(x, y) /\ z = Join(i, x) BY <2>4, <2>5 DEF Join
    <3>4. IsPrefix(Join(Join(s, z), y), reply) BY <3>1, <3>2, <3>3
    <3> QED BY <1>1, <2>2, <2>6, <3>4 DEF Join
  <2>8. rpc' # "idle" /\ receiving' = session' BY <1>1, <1>3 DEF Here
  <2> QED BY <1>1, <1>3, <2>1, <2>6, <2>7, <2>8 DEF Received
<1>4. \/ Disconnected
      \/ /\ ~(MaxFrameSize - Len(input) <= 0)
         /\ input' = input \o SubSeq(arriving, 1,
                 Min({MaxFrameSize - Len(input), ReadChunkSize, Len(arriving)}))
         /\ arriving' = SubSeq(arriving,
                 Min({MaxFrameSize - Len(input), ReadChunkSize, Len(arriving)}) + 1,
                 Len(arriving))
         /\ UNCHANGED <<socket, session>>
  BY DEF ReadSocket
<1>5. MaxFrameSize - Len(input) \in Int
  <2>1. MaxFrameSize \in Nat
    BY FramingAssumption DEF FramingAssumption, MaxFrameSize, HeaderSize
  <2>2. Len(input) \in Nat BY LenProperties DEF Received
  <2> QED BY <2>1, <2>2
<1>6. ~(MaxFrameSize - Len(input) <= 0) => MaxFrameSize - Len(input) > 0 BY <1>5
<1> QED BY <1>2, <1>3, <1>4, <1>6, Zenon

LEMMA TakeReceived ==
    ASSUME Received, TakeFrame
    PROVE  Received'
<1>1. /\ received \in Seq(Seq(Nat)) /\ input \in Seq(Nat) /\ arriving \in Seq(Nat)
      /\ reply \in Seq(Nat) /\ session \in Nat /\ receiving \in Nat
  BY DEF Received
<1>2. /\ Take(input).kind = "frame" /\ input' = Take(input).rest
      /\ received' = Append(received, Take(input).frame)
      /\ receiving = session /\ rpc' = "slot"
      /\ UNCHANGED <<session, arriving, receiving, reply, socket>>
  BY DEF TakeFrame, Here, history
<1>3. PICK f \in Seq(Nat), rest \in Seq(Nat) :
        /\ f = Take(input).frame /\ rest = Take(input).rest
        /\ IsFrame(f) /\ input = f \o rest
  BY <1>1, <1>2, TakeTaken
<1>4. PICK s \in Seq(Nat), a \in Seq(Nat) : s = FlattenSeq(received) /\ a = arriving
  BY <1>1, FlattenTyped
<1>5. PICK frames \in Seq(Seq(Nat)) : frames = received BY <1>1
<1>6. /\ Append(frames, f) \in Seq(Seq(Nat))
      /\ FlattenSeq(Append(frames, f)) = FlattenSeq(frames) \o f
  BY FlattenAppend
<1>7. (s \o f) \o rest = s \o (f \o rest) BY Together, Zenon
<1>8. IsPrefix(FlattenSeq(received') \o input' \o arriving', reply')
  <2>1. IsPrefix((s \o (f \o rest)) \o a, reply) BY <1>3, <1>4 DEF Received
  <2>2. FlattenSeq(received') = s \o f BY <1>2, <1>3, <1>4, <1>5, <1>6
  <2> QED BY <1>2, <1>3, <1>4, <1>7, <2>1, <2>2
<1>9. ASSUME NEW k \in DOMAIN received' PROVE IsFrame(received'[k])
  <2>1. /\ Append(frames, f) \in Seq(Seq(Nat))
        /\ Append(frames, f) # <<>>
        /\ Len(Append(frames, f)) = Len(frames) + 1
        /\ \A i \in 1 .. Len(frames) : Append(frames, f)[i] = frames[i]
        /\ Append(frames, f)[Len(frames) + 1] = f
    BY AppendProperties, Zenon
  <2>2. received' = Append(frames, f) BY <1>2, <1>3, <1>5
  <2>3. /\ Len(frames) \in Nat /\ DOMAIN frames = 1 .. Len(frames)
        /\ DOMAIN received' = 1 .. Len(received')
    BY <1>6, <2>2, LenProperties
  <2>4. k \in 1 .. Len(frames) + 1 BY <2>1, <2>2, <2>3
  <2>5. CASE k = Len(frames) + 1 BY <1>3, <2>1, <2>2, <2>5
  <2>6. CASE k # Len(frames) + 1
    <3>1. k \in 1 .. Len(frames) BY <2>3, <2>4, <2>6
    <3>2. k \in DOMAIN received BY <1>5, <2>3, <3>1
    <3>3. IsFrame(received[k]) BY <3>2 DEF Received
    <3> QED BY <1>5, <2>1, <2>2, <3>1, <3>3
  <2> QED BY <2>5, <2>6
<1>10. received' \in Seq(Seq(Nat)) BY <1>2, <1>3, <1>5, <1>6
<1> QED BY <1>1, <1>2, <1>3, <1>8, <1>9, <1>10 DEF Received

LEMMA ReceiveReceived ==
    ASSUME Received, Receive \/ Reading
    PROVE  Received'
<1>1. CASE Receive
  <2>1. UNCHANGED <<session, input, arriving, reply, received>>
        /\ rpc' = "loop" /\ receiving' = session
    BY <1>1 DEF Receive, past, history
  <2> QED BY <2>1 DEF Received
<1>2. CASE ReadSocket BY <1>2, ReadSocketReceived
<1>3. CASE TakeFrame BY <1>3, TakeReceived
<1>4. CASE SlotReturns
  <2>1. /\ UNCHANGED <<session, receiving, input, arriving, reply, received>>
        /\ rpc = "slot" /\ rpc' = "loop"
    BY <1>4 DEF SlotReturns, past, history
  <2> QED BY <2>1 DEF Received
<1>5. CASE ProtocolError BY <1>5, EndReads DEF ProtocolError, past, history
<1>6. CASE Return
  <2>1. /\ UNCHANGED <<session, receiving, input, arriving, reply, received, socket>>
        /\ rpc = "loop" /\ rpc' = "idle"
        /\ Here => Take(input).kind = "more"
    BY <1>6 DEF Return, past, history
  <2>2. ASSUME socket # "none" PROVE Take(input).kind = "more"
    <3>1. CASE receiving = session BY <2>1, <2>2, <3>1 DEF Here
    <3>2. CASE receiving # session
      <4>1. input = <<>> BY <2>1, <3>2 DEF Received
      <4> QED BY <4>1, NothingWaits
    <3> QED BY <3>1, <3>2
  <2> QED BY <2>1, <2>2 DEF Received
<1> QED BY <1>1, <1>2, <1>3, <1>4, <1>5, <1>6 DEF Reading

LEMMA ReceivedStep == Received /\ [Next]_vars => Received'
<1> SUFFICES ASSUME Received, [Next]_vars PROVE Received'
  OBVIOUS
<1>1. CASE ConnectTo \/ DisconnectFrom BY <1>1, ConnectReceived, DisconnectReceived
<1>2. ASSUME NEW raw \in Frames, SendAtOnce(raw, 1) \/ SendAtOnce(raw, 2) \/ SendSplit(raw)
      PROVE  Received'
  BY <1>2, SendReceived
<1>3. CASE Established \/ SocketEnds \/ Drain \/ ServerWrites BY <1>3, NetworkReceived
<1>4. ASSUME NEW t \in timers, Timeout(t) PROVE Received'
  BY <1>4, TimeoutReceived
<1>5. CASE Receive \/ Reading BY <1>5, ReceiveReceived
<1>6. CASE UNCHANGED vars
  BY <1>6 DEF vars, reader, past, history, Received
<1> QED BY <1>1, <1>2, <1>3, <1>4, <1>5, <1>6 DEF Next, Local

\* What was read from the server is the received frames and input_, and input_ is
\* the beginning of one frame that the buffer has room for: no frame is lost,
\* invented or taken over from an earlier connection
\* (tcpclient.cpp:49-63, 87-90 and 248-281).
THEOREM ReceivedCorrect == Spec => []ReceivedExactly
<1>1. ASSUME Received PROVE ReceivedExactly
  <2>2. IsPrefix(FlattenSeq(received), reply) BY <1>1, ReceivedBegins
  <2>3. Reads(received, reply) BY <1>1, <2>2 DEF Reads, Received
  <2>4. ASSUME rpc = "idle", socket # "none"
        PROVE  MayBeFrame(input) /\ ~StartsWithFrame(input) /\ Len(input) < MaxFrameSize
    BY <1>1, <2>4, TakeWaits DEF Received
  <2> QED BY <1>1, <2>3, <2>4 DEF Received, ReceivedExactly
<1> QED BY <1>1, InitReceived, ReceivedStep, PTL DEF Spec

----------------------------------------------------------------------------
(* The server *)
Arrived == Server!Arrived

\* What the server has read of the stream is the handled frames and what is in
\* the buffer, until a frame that none could be closes the connection.
Handled ==
    /\ sent \in Seq(Nat) /\ kernel \in Seq(Nat) /\ handled \in Seq(Seq(Nat))
    /\ BufferOK(in)
    /\ Arrived \in Seq(Nat) /\ sent = Arrived \o kernel
    /\ Reads(handled, Arrived)
    /\ IF cause = "protocol" THEN ~MayBeFrame(Behind(handled, Arrived))
       ELSE Behind(handled, Arrived) = Peek(in)
    /\ serverPc # "closed" => cause = "none"
    /\ serverPc = "idle" \/ cause = "end" => TakeFromBuffer(in).kind = "more"

----------------------------------------------------------------------------
\* The words in front of the unread ones.
LEMMA FrontOf ==
    ASSUME NEW a \in Seq(Nat), NEW k \in Seq(Nat), NEW s, s = a \o k
    PROVE  s \in Seq(Nat) /\ SubSeq(s, 1, Len(s) - Len(k)) = a
<1>1. Len(a) \in Nat /\ Len(k) \in Nat BY LenProperties
<1>2. PICK t \in Seq(Nat) : t = s /\ t = a \o k /\ Len(t) = Len(a) + Len(k)
  BY ConcatProperties
<1>3. PICK n \in Nat : n = Len(a) /\ n = Len(t) - Len(k) BY <1>1, <1>2
<1>4. IsPrefix(a, t) BY <1>2, PrefixRest
<1>5. SubSeq(a, 1, n) = SubSeq(t, 1, n) BY <1>3, <1>4 DEF IsPrefix
<1>6. SubSeq(a, 1, n) = a BY <1>3, SubSeqFull
<1> QED BY <1>2, <1>3, <1>5, <1>6

LEMMA ArrivedNext ==
    ASSUME NEW a \in Seq(Nat), kernel' \in Seq(Nat), sent' = a \o kernel'
    PROVE  sent' \in Seq(Nat) /\ Arrived' = a
<1>1. PICK k, s : k \in Seq(Nat) /\ k = kernel' /\ s = sent' OBVIOUS
<1>2. s \in Seq(Nat) /\ SubSeq(s, 1, Len(s) - Len(k)) = a BY <1>1, FrontOf
<1>3. Arrived' = SubSeq(sent', 1, Len(sent') - Len(kernel'))
  BY DEF Arrived, Server!Arrived
<1> QED BY <1>1, <1>2, <1>3

LEMMA OneBehind ==
    ASSUME NEW a \in Seq(Nat), NEW k \in Seq(Nat), NEW w \in Nat
    PROVE  Append(k, w) \in Seq(Nat) /\ Append(a \o k, w) = a \o Append(k, w)
<1>1. PICK e \in Seq(Nat) : e = <<w>>
  <2>1. Append(<<>>, w) \in Seq(Nat) BY EmptySeq, AppendProperties
  <2>2. Append(<<>>, w) = <<w>> OBVIOUS
  <2> QED BY <2>1, <2>2
<1>2. PICK s \in Seq(Nat) : s = a \o k BY ConcatProperties
<1>3. Append(s, w) = s \o e BY <1>1, AppendIsConcat
<1>4. PICK m \in Seq(Nat) : m = Append(k, w) BY AppendProperties
<1>5. m = k \o e BY <1>1, <1>4, AppendIsConcat
<1>6. Join(Join(a, k), e) = Join(a, Join(k, e)) BY JoinFacts
<1>7. s \o e = a \o m
  <2>1. s = Join(a, k) /\ m = Join(k, e) BY <1>2, <1>5 DEF Join
  <2>2. Join(s, e) = Join(a, m) BY <1>6, <2>1
  <2> QED BY <2>2 DEF Join
<1> QED BY <1>2, <1>3, <1>4, <1>7

----------------------------------------------------------------------------
(* onRead(), chat_server.cpp:647-752 *)

LEMMA InitHandled == Server!Init => Handled
<1> SUFFICES ASSUME Server!Init PROVE Handled OBVIOUS
<1>1. /\ sent = <<>> /\ kernel = <<>> /\ handled = <<>> /\ in = EmptyBuffer
      /\ serverPc = "idle" /\ cause = "none"
  BY SameOperators DEF Server!Init
<1>2. PICK e \in Seq(Nat) : e = <<>> BY EmptySeq
<1>3. e \o e = e BY <1>2, ConcatEmptySeq
<1>4. SubSeq(e, 1, Len(e) - Len(e)) = e BY <1>3, FrontOf
<1>5. Arrived = e BY <1>1, <1>2, <1>4 DEF Arrived, Server!Arrived
<1>6. <<>> \in Seq(Seq(Nat)) /\ Reads(<<>>, e) /\ Behind(<<>>, e) = e BY ReadsNothing
<1>7. BufferOK(in) /\ Peek(in) = e BY <1>1, <1>2, EmptyOK
<1>8. TakeFromBuffer(in).kind = "more"
  <2>1. Len(e) = 0 BY <1>2
  <2>2. Len(e) < HeaderSize BY <2>1 DEF HeaderSize
  <2>3. TakeFromBuffer(in) = More(in) BY <1>7, <2>2, BufferRound
  <2> QED BY <2>3 DEF More
<1> QED BY <1>1, <1>2, <1>3, <1>5, <1>6, <1>7, <1>8 DEF Handled

\* The Connection of a new socket.
LEMMA NewHandled == NewConnection => Handled'
<1>1. (Server!Init => Handled)' BY InitHandled, PTL
<1>2. NewConnection => (Server!Init)'
  BY SameOperators DEF NewConnection, Server!Init
<1> QED BY <1>1, <1>2

\* The peer writes or closes its side: nothing new has arrived.
LEMMA PeerHandled ==
    ASSUME Handled, (\E w \in Nat : Server!PeerWrites(w)) \/ Server!PeerCloses
    PROVE  Handled'
<1>1. UNCHANGED <<in, serverPc, handled, cause>>
  BY DEF Server!PeerWrites, Server!PeerCloses
<1>2. PICK a \in Seq(Nat) : a = Arrived BY DEF Handled
<1>3. kernel \in Seq(Nat) /\ sent = a \o kernel BY <1>2 DEF Handled
<1>4. kernel' \in Seq(Nat) /\ sent' = a \o kernel'
  <2>1. CASE Server!PeerCloses
    BY <1>3, <2>1 DEF Server!PeerCloses
  <2>2. ASSUME NEW w \in Nat, Server!PeerWrites(w)
        PROVE  kernel' \in Seq(Nat) /\ sent' = a \o kernel'
    <3>2. sent' = Append(sent, w) /\ kernel' = Append(kernel, w)
      BY <2>2 DEF Server!PeerWrites
    <3>3. PICK k \in Seq(Nat) : k = kernel BY <1>3
    <3>4. Append(k, w) \in Seq(Nat) /\ Append(a \o k, w) = a \o Append(k, w)
      BY OneBehind
    <3> QED BY <1>3, <3>2, <3>3, <3>4
  <2> QED BY <2>1, <2>2
<1>5. sent' \in Seq(Nat) /\ Arrived' = Arrived BY <1>2, <1>4, ArrivedNext
<1> QED BY <1>1, <1>2, <1>4, <1>5 DEF Handled

\* readFd puts what the kernel has behind what is in the buffer.
LEMMA ReadHandled ==
    ASSUME Handled, Server!OnRead \/ Server!OnReadFails
    PROVE  Handled'
<1>1. /\ serverPc = "idle" /\ in' = BufferAppend(in, kernel) /\ kernel' = <<>>
      /\ UNCHANGED <<sent, handled>>
  BY SameOperators DEF Server!OnRead, Server!OnReadFails
<1>2. \/ serverPc' = "loop" /\ cause' = cause
      \/ serverPc' = "closed" /\ cause' = "reset"
  BY DEF Server!OnRead, Server!OnReadFails, Server!Close
<1>3. cause = "none" BY <1>1 DEF Handled
<1>4. PICK a \in Seq(Nat), k \in Seq(Nat), frames \in Seq(Seq(Nat)) :
        a = Arrived /\ k = kernel /\ frames = handled /\ sent = a \o k
  BY DEF Handled
<1>5. PICK s \in Seq(Nat) : s = sent /\ s = a \o k BY <1>4, ConcatProperties
<1>6. Reads(frames, a) BY <1>4 DEF Handled
<1>7. /\ Reads(frames, a \o k)
      /\ Behind(frames, a \o k) = Behind(frames, a) \o k
  BY <1>6, ReadsMore
<1>8. Behind(frames, a) = Peek(in) BY <1>3, <1>4 DEF Handled
<1>9. BufferOK(in') /\ Peek(in') = Peek(in) \o k
  <2>1. BufferOK(in) BY DEF Handled
  <2>2. BufferOK(BufferAppend(in, k)) /\ Peek(BufferAppend(in, k)) = Peek(in) \o k
    BY <2>1, Appended
  <2> QED BY <1>1, <1>4, <2>2
<1>10. kernel' \in Seq(Nat) /\ sent' = s \o kernel'
  <2>1. s \o <<>> = s BY ConcatEmptySeq
  <2> QED BY <1>1, <1>5, <2>1, EmptySeq
<1>11. sent' \in Seq(Nat) /\ Arrived' = s BY <1>10, ArrivedNext
<1>12. Reads(handled', Arrived') /\ Behind(handled', Arrived') = Peek(in')
  BY <1>1, <1>4, <1>5, <1>7, <1>8, <1>9, <1>11
<1>13. /\ cause' # "protocol" /\ cause' # "end" /\ serverPc' # "idle"
       /\ serverPc' # "closed" => cause' = "none"
  BY <1>2, <1>3
<1>14. handled' \in Seq(Seq(Nat)) /\ Arrived' \in Seq(Nat) BY <1>1, <1>4, <1>11
<1>15. sent' = Arrived' \o kernel' BY <1>10, <1>11
<1> QED BY <1>9, <1>10, <1>11, <1>12, <1>13, <1>14, <1>15 DEF Handled

\* A round of the frame loop.
LEMMA TakeHandled ==
    ASSUME Handled, Server!TakeFrame
    PROVE  Handled'
<1>1. /\ serverPc = "loop" /\ TakeFromBuffer(in).kind = "frame"
      /\ in' = TakeFromBuffer(in).rest
      /\ handled' = Append(handled, TakeFromBuffer(in).frame)
      /\ UNCHANGED <<sent, kernel>>
  BY SameOperators DEF Server!TakeFrame
<1>2. \/ serverPc' = serverPc /\ cause' = cause
      \/ serverPc' = "closed" /\ cause' = "handler"
  BY DEF Server!TakeFrame, Server!Close
<1>3. cause = "none" BY <1>1 DEF Handled
<1>4. BufferOK(in) BY DEF Handled
<1>5. PICK f \in Seq(Nat) :
        /\ f = TakeFromBuffer(in).frame /\ IsFrame(f)
        /\ BufferOK(in') /\ Peek(in) = f \o Peek(in')
  BY <1>1, <1>4, BufferTaken
<1>6. PICK rest \in Seq(Nat) : rest = Peek(in') BY <1>5, PeekOK
<1>7. PICK a \in Seq(Nat), frames \in Seq(Seq(Nat)) :
        a = Arrived /\ frames = handled /\ Reads(frames, a) /\ Behind(frames, a) = Peek(in)
  BY <1>3 DEF Handled
<1>8. Behind(frames, a) = f \o rest BY <1>5, <1>6, <1>7
<1>9. /\ Append(frames, f) \in Seq(Seq(Nat))
      /\ Reads(Append(frames, f), a)
      /\ Behind(Append(frames, f), a) = rest
  <2>1. Reads(frames, a) /\ IsFrame(f) BY <1>5, <1>7
  <2> QED BY <1>8, <2>1, ReadsFrame
<1>10. Arrived' = Arrived BY <1>1 DEF Arrived, Server!Arrived
<1>11. /\ handled' \in Seq(Seq(Nat)) /\ Reads(handled', Arrived')
       /\ Behind(handled', Arrived') = Peek(in')
  BY <1>1, <1>5, <1>6, <1>7, <1>9, <1>10
<1>12. /\ cause' # "protocol" /\ cause' # "end" /\ serverPc' # "idle"
       /\ serverPc' # "closed" => cause' = "none"
  BY <1>1, <1>2, <1>3
<1>13. /\ sent' \in Seq(Nat) /\ kernel' \in Seq(Nat)
       /\ Arrived' \in Seq(Nat) /\ sent' = Arrived' \o kernel'
  BY <1>1, <1>10 DEF Handled
<1> QED BY <1>5, <1>11, <1>12, <1>13 DEF Handled

LEMMA LoopHandled ==
    ASSUME Handled, Server!BadFrame \/ Server!LoopEnds
    PROVE  Handled'
<1>1. serverPc = "loop" /\ UNCHANGED <<sent, kernel, handled>>
  BY DEF Server!BadFrame, Server!LoopEnds
<1>2. cause = "none" BY <1>1 DEF Handled
<1>3. BufferOK(in) /\ Behind(handled, Arrived) = Peek(in) BY <1>2 DEF Handled
<1>4. Arrived' = Arrived BY <1>1 DEF Arrived, Server!Arrived
<1>5. /\ sent' \in Seq(Nat) /\ kernel' \in Seq(Nat) /\ handled' \in Seq(Seq(Nat))
      /\ Arrived' \in Seq(Nat) /\ sent' = Arrived' \o kernel'
      /\ Reads(handled', Arrived')
      /\ Behind(handled', Arrived') = Behind(handled, Arrived)
  BY <1>1, <1>4 DEF Handled
<1>6. CASE Server!BadFrame
  <2>1. /\ TakeFromBuffer(in).kind = "error" /\ in' = TakeFromBuffer(in).rest
        /\ serverPc' = "closed" /\ cause' = "protocol"
    BY <1>6, SameOperators DEF Server!BadFrame, Server!Close
  <2>2. ~MayBeFrame(Peek(in)) /\ BufferOK(in') BY <1>3, <2>1, BufferRefuses
  <2> QED BY <1>3, <1>5, <2>1, <2>2 DEF Handled
<1>7. CASE Server!LoopEnds
  <2>1. /\ TakeFromBuffer(in).kind = "more" /\ in' = in
        /\ \/ serverPc' = "closed" /\ cause' = "end"
           \/ serverPc' = "idle" /\ cause' = cause
    BY <1>7, SameOperators DEF Server!LoopEnds, Server!Close
  <2> QED BY <1>2, <1>3, <1>5, <2>1 DEF Handled
<1> QED BY <1>6, <1>7

LEMMA OnReadHandled == Handled /\ Server!Reading => Handled'
BY ReadHandled, TakeHandled, LoopHandled DEF Server!Reading

\* The client of the two ends is TcpClient.
LEMMA ClientStands == [EndsNext]_<<vars, end, server>> => [Next]_vars
BY DEF EndsNext, ClientStep, ServerStep, SessionStep, Next

\* A step of one end leaves the other end alone, and what the client's socket
\* hands over is a word of its queue.
LEMMA HandledStep ==
    Carried /\ Handled /\ [EndsNext]_<<vars, end, server>> => Handled'
<1> SUFFICES ASSUME Carried, Handled, [EndsNext]_<<vars, end, server>>
             PROVE  Handled'
  OBVIOUS
<1>1. CASE UNCHANGED server
  BY <1>1 DEF server, Handled, Arrived, Server!Arrived
<1>2. CASE Server!Next
  <2>1. \A w \in Words : w \in Nat BY EndpointsAssumption DEF EndpointsAssumption
  <2> QED BY <1>2, <2>1, PeerHandled, OnReadHandled DEF Server!Next
<1>3. CASE SessionStep
  <2>1. CASE ConnectTo /\ NewConnection BY <2>1, NewHandled
  <2>2. CASE Drain /\ Transmits
    <3>1. CASE UNCHANGED server BY <1>1, <3>1
    <3>2. CASE Server!PeerWrites(Head(queue))
      <4>1. queue \in Seq(Nat) /\ queue # <<>> BY <2>2 DEF Drain, Carried
      <4>2. Head(queue) \in Nat BY <4>1, HeadTailProperties
      <4> QED BY <3>2, <4>2, PeerHandled
    <3> QED BY <2>2, <3>1, <3>2 DEF Transmits
  <2>3. CASE UNCHANGED server BY <1>1, <2>3
  <2>4. CASE Server!Reading BY <2>4, OnReadHandled
  <2>5. CASE Server!PeerCloses BY <2>5, PeerHandled
  <2> QED BY <1>3, <2>1, <2>2, <2>3, <2>4, <2>5 DEF SessionStep
<1> QED BY <1>1, <1>2, <1>3 DEF EndsNext, ClientStep, ServerStep

\* EveryFrameHandled as FrameReader states it.
LEMMA HandledOfAnyStream == Handled => Server!EveryFrameHandled
<1>1. ASSUME Handled PROVE Server!EveryFrameHandled
  <2>1. Reads(handled, Arrived) BY <1>1 DEF Handled
  <2>2. ASSUME serverPc = "idle" PROVE Behind(handled, Arrived) = Peek(in)
    BY <1>1, <2>2 DEF Handled
  <2>3. ASSUME serverPc = "idle" \/ cause = "end"
        PROVE  ~StartsWithFrame(Behind(handled, Arrived))
    <3>1. BufferOK(in) /\ TakeFromBuffer(in).kind = "more" BY <1>1, <2>3 DEF Handled
    <3>2. Behind(handled, Arrived) = Peek(in) BY <1>1, <2>3 DEF Handled
    <3> QED BY <3>1, <3>2, BufferWaits
  <2>4. ASSUME cause = "protocol" PROVE ~MayBeFrame(Behind(handled, Arrived))
    BY <1>1, <2>4 DEF Handled
  <2>5. /\ \A f, s : Server!Reads(f, s) = Reads(f, s)
        /\ \A f, s : Server!Behind(f, s) = Behind(f, s)
        /\ \A s : Server!StartsWithFrame(s) = StartsWithFrame(s)
        /\ \A s : Server!MayBeFrame(s) = MayBeFrame(s)
        /\ \A b : Server!Peek(b) = Peek(b)
    <3>1. \A s : Server!IsFrame(s) = IsFrame(s)
      BY DEF Server!IsFrame, IsFrame, Server!HeaderSize, HeaderSize,
             Server!MaxFrameSize, MaxFrameSize
    <3>2. \A s : Server!FlattenSeq(s) = FlattenSeq(s)
      BY DEF Server!FlattenSeq, FlattenSeq
    <3>3. \A f, s : Server!Reads(f, s) = Reads(f, s)
      BY <3>1, <3>2 DEF Server!Reads, Reads, Server!IsPrefix, IsPrefix
    <3>4. \A f, s : Server!Behind(f, s) = Behind(f, s)
      BY <3>2 DEF Server!Behind, Behind
    <3>5. \A s : Server!StartsWithFrame(s) = StartsWithFrame(s)
      BY <3>1 DEF Server!StartsWithFrame, StartsWithFrame
    <3>6. \A s : Server!MayBeFrame(s) = MayBeFrame(s)
      BY DEF Server!MayBeFrame, MayBeFrame, Server!LengthOK, LengthOK
    <3>7. \A b : Server!Peek(b) = Peek(b) BY DEF Server!Peek, Peek
    <3> QED BY <3>3, <3>4, <3>5, <3>6, <3>7
  <2> QED BY <2>1, <2>2, <2>3, <2>4, <2>5
          DEF Server!EveryFrameHandled, Arrived
<1> QED BY <1>1

----------------------------------------------------------------------------
(* Streams of frames *)
\* The first k of a sequence of frames.
FirstOnes(frames, k) == SubSeq(frames, 1, k)

LEMMA FirstOnesFacts ==
    ASSUME NEW W, NEW s \in Seq(W), NEW k \in 0 .. Len(s)
    PROVE  /\ FirstOnes(s, k) \in Seq(W) /\ Len(FirstOnes(s, k)) = k
           /\ \A i \in 1 .. k : FirstOnes(s, k)[i] = s[i]
<1>1. Len(s) \in Nat BY LenProperties
<1>2. \A i \in 1 .. k : s[i] \in W
  <2>1. \A i \in 1 .. k : i \in 1 .. Len(s) BY <1>1
  <2> QED BY <2>1, ElementOfSeq
<1>3. /\ SubSeq(s, 1, k) \in Seq(W)
      /\ Len(SubSeq(s, 1, k)) = IF 1 <= k THEN k - 1 + 1 ELSE 0
      /\ \A i \in 1 .. k - 1 + 1 : SubSeq(s, 1, k)[i] = s[1 + i - 1]
  BY <1>1, <1>2, SubSeqProperties
<1>4. k \in Nat BY <1>1
<1>5. ASSUME NEW i \in 1 .. k PROVE SubSeq(s, 1, k)[i] = s[i]
  <2>1. i \in 1 .. k - 1 + 1 /\ 1 + i - 1 = i BY <1>4
  <2> QED BY <1>3, <2>1
<1>6. Len(SubSeq(s, 1, k)) = k BY <1>3, <1>4
<1> QED BY <1>3, <1>5, <1>6 DEF FirstOnes

\* Sequences of the same length and elements, behind the names above.
LEMMA FirstOnesEqual ==
    ASSUME NEW W, NEW s \in Seq(W), NEW t \in Seq(W), Len(t) <= Len(s),
           \A i \in 1 .. Len(t) : t[i] = s[i]
    PROVE  t = FirstOnes(s, Len(t))
<1>1. Len(s) \in Nat /\ Len(t) \in Nat BY LenProperties
<1>2. Len(t) \in 0 .. Len(s) BY <1>1
<1>3. PICK k \in 0 .. Len(s) : k = Len(t) BY <1>2
<1>4. /\ FirstOnes(s, k) \in Seq(W) /\ Len(FirstOnes(s, k)) = k
      /\ \A i \in 1 .. k : FirstOnes(s, k)[i] = s[i]
  BY FirstOnesFacts
<1>5. t = FirstOnes(s, k) BY <1>3, <1>4, SeqEqual
<1> QED BY <1>3, <1>5

LEMMA OneMoreFirst ==
    ASSUME NEW W, NEW s \in Seq(W), NEW k \in 0 .. Len(s), k # Len(s)
    PROVE  /\ s[k + 1] \in W /\ FirstOnes(s, k) \in Seq(W)
           /\ FirstOnes(s, k + 1) = Append(FirstOnes(s, k), s[k + 1])
<1>1. Len(s) \in Nat BY LenProperties
<1>2. k \in Nat /\ k + 1 \in 1 .. Len(s) /\ k + 1 \in 0 .. Len(s) BY <1>1
<1>3. PICK e \in W : e = s[k + 1] BY <1>2, ElementOfSeq
<1>4. PICK t \in Seq(W) : /\ t = FirstOnes(s, k) /\ Len(t) = k
                          /\ \A i \in 1 .. k : t[i] = s[i]
  BY FirstOnesFacts
<1>5. PICK u \in Seq(W) : /\ u = Append(t, e) /\ Len(u) = k + 1
                          /\ \A i \in 1 .. k : u[i] = t[i]
                          /\ u[k + 1] = e
  <2>1. /\ Append(t, e) \in Seq(W) /\ Len(Append(t, e)) = Len(t) + 1
        /\ \A i \in 1 .. Len(t) : Append(t, e)[i] = t[i]
        /\ Append(t, e)[Len(t) + 1] = e
    BY AppendProperties
  <2> QED BY <1>4, <2>1
<1>6. \A i \in 1 .. Len(u) : u[i] = s[i]
  <2> SUFFICES ASSUME NEW i \in 1 .. Len(u) PROVE u[i] = s[i] OBVIOUS
  <2>1. CASE i = k + 1 BY <1>3, <1>5, <2>1
  <2>2. CASE i # k + 1
    <3>1. i \in 1 .. k BY <1>2, <1>5, <2>2
    <3> QED BY <1>4, <1>5, <3>1
  <2> QED BY <2>1, <2>2
<1>7. Len(u) <= Len(s) BY <1>1, <1>2, <1>5
<1>8. u = FirstOnes(s, k + 1) BY <1>5, <1>6, <1>7, FirstOnesEqual
<1> QED BY <1>3, <1>4, <1>5, <1>8

\* Being a beginning is transitive.
LEMMA PrefixTwice ==
    ASSUME NEW s \in Seq(Nat), NEW t \in Seq(Nat), NEW u \in Seq(Nat),
           IsPrefix(s, t), IsPrefix(t, u)
    PROVE  IsPrefix(s, u)
<1>1. PICK a \in Seq(Nat) : t = s \o a BY PrefixRest
<1>2. t = Join(s, a) BY <1>1 DEF Join
<1>3. IsPrefix(Join(s, a), u) BY <1>2
<1> QED BY <1>3, PrefixOf

\* The first frames are the first words.
InOrder(frames) ==
    \A k \in 0 .. Len(frames) : IsPrefix(FlattenSeq(FirstOnes(frames, k)), FlattenSeq(frames))

LEMMA AppendInOrder ==
    ASSUME NEW s \in Seq(Seq(Nat)), NEW f \in Seq(Nat), InOrder(s)
    PROVE  InOrder(Append(s, f))
<1>1. PICK t \in Seq(Seq(Nat)) :
        /\ t = Append(s, f) /\ Len(t) = Len(s) + 1
        /\ \A i \in 1 .. Len(s) : t[i] = s[i]
        /\ FlattenSeq(t) = Join(FlattenSeq(s), f)
  <2>1. /\ Append(s, f) \in Seq(Seq(Nat))
        /\ FlattenSeq(Append(s, f)) = FlattenSeq(s) \o f
    BY FlattenAppend
  <2>2. Len(Append(s, f)) = Len(s) + 1 /\ \A i \in 1 .. Len(s) : Append(s, f)[i] = s[i]
    BY AppendProperties
  <2> QED BY <2>1, <2>2 DEF Join
<1>2. PICK a \in Seq(Nat) : a = FlattenSeq(s) BY FlattenTyped
<1>3. PICK b \in Seq(Nat) : b = FlattenSeq(t) BY FlattenTyped
<1>4. IsPrefix(a, b)
  <2>1. b = a \o f BY <1>1, <1>2, <1>3 DEF Join
  <2> QED BY <2>1, PrefixRest
<1>5. Len(s) \in Nat BY LenProperties
<1>6. ASSUME NEW k \in 0 .. Len(t)
      PROVE  IsPrefix(FlattenSeq(FirstOnes(t, k)), b)
  <2>1. CASE k = Len(t)
    <3>1. FirstOnes(t, k) = t BY <2>1, SubSeqFull DEF FirstOnes
    <3>2. b = b \o <<>> /\ <<>> \in Seq(Nat) BY EmptySeq, ConcatEmptySeq
    <3>3. IsPrefix(b, b) BY <3>2, PrefixRest
    <3> QED BY <1>3, <3>1, <3>3
  <2>2. CASE k # Len(t)
    <3>1. k \in 0 .. Len(s) BY <1>1, <1>5, <2>2
    <3>2. PICK u \in Seq(Seq(Nat)) : /\ u = FirstOnes(s, k) /\ Len(u) = k
                                     /\ \A i \in 1 .. k : u[i] = s[i]
      BY <3>1, FirstOnesFacts
    <3>3. u = FirstOnes(t, k)
      <4>1. Len(u) <= Len(t) BY <1>1, <1>5, <3>1, <3>2
      <4>2. \A i \in 1 .. Len(u) : u[i] = t[i]
        <5>1. \A i \in 1 .. Len(u) : i \in 1 .. Len(s) /\ i \in 1 .. k
          BY <1>5, <3>1, <3>2
        <5> QED BY <1>1, <3>2, <5>1
      <4>3. u = FirstOnes(t, Len(u)) BY <4>1, <4>2, FirstOnesEqual
      <4> QED BY <3>2, <4>3
    <3>4. PICK v \in Seq(Nat) : v = FlattenSeq(u) BY FlattenTyped
    <3>5. IsPrefix(v, a) BY <1>2, <3>1, <3>2, <3>4 DEF InOrder
    <3>6. IsPrefix(v, b) BY <1>4, <3>5, PrefixTwice
    <3> QED BY <3>3, <3>4, <3>6
  <2> QED BY <2>1, <2>2
<1>7. InOrder(t) BY <1>3, <1>6 DEF InOrder
<1> QED BY <1>1, <1>7

LEMMA AllInOrder ==
    ASSUME NEW frames \in Seq(Seq(Nat))
    PROVE  InOrder(frames)
<1> DEFINE T == {n \in Nat : \E s \in Seq(Seq(Nat)) : Len(s) = n /\ ~InOrder(s)}
<1>1. ASSUME NEW n \in T, \A m \in T : n <= m PROVE FALSE
  <2>1. PICK s \in Seq(Seq(Nat)) : Len(s) = n /\ ~InOrder(s) OBVIOUS
  <2>2. CASE n = 0
    <3>1. s = <<>> BY <2>1, <2>2, EmptySeq
    <3>2. PICK e \in Seq(Nat) : e = <<>> BY EmptySeq
    <3>3. FlattenSeq(s) = e BY <3>1, <3>2, FlattenEmpty
    <3>4. e = e \o e BY <3>2, ConcatEmptySeq
    <3>5. IsPrefix(e, e) BY <3>4, PrefixRest
    <3>6. ASSUME NEW k \in 0 .. Len(s) PROVE FirstOnes(s, k) = s
      <4>1. k = Len(s) BY <2>1, <2>2
      <4> QED BY <4>1, SubSeqFull DEF FirstOnes
    <3>7. InOrder(s) BY <3>3, <3>5, <3>6 DEF InOrder
    <3> QED BY <2>1, <3>7
  <2>3. CASE n # 0
    <3>1. s # <<>> BY <2>1, <2>3, EmptySeq
    <3>2. PICK S : S = Seq(Nat) OBVIOUS
    <3>3. PICK r \in Seq(S), f \in S : s = Append(r, f)
      BY <3>1, <3>2, SequenceEmptyOrAppend
    <3>4. Len(s) = Len(r) + 1 /\ Len(r) \in Nat BY <3>3, AppendProperties, LenProperties
    <3>5. Len(r) \notin T
      <4>1. n = Len(r) + 1 BY <2>1, <3>4
      <4> HIDE DEF T
      <4> QED BY <1>1, <3>4, <4>1
    <3>6. InOrder(r) BY <3>2, <3>4, <3>5
    <3>7. InOrder(Append(r, f)) BY <3>2, <3>6, AppendInOrder
    <3> QED BY <2>1, <3>3, <3>7
  <2> QED BY <2>2, <2>3
<1>2. T \in SUBSET Nat OBVIOUS
<1>3. T = {}
  <2> HIDE DEF T
  <2> QED BY <1>1, <1>2, Least
<1>4. Len(frames) \in Nat BY LenProperties
<1> QED BY <1>3, <1>4

----------------------------------------------------------------------------
(* What may stand behind the frames the server has handled *)
\* The beginning of one frame, and less than that frame.
Half(h) == MayBeFrame(h) /\ ~StartsWithFrame(h)

LEMMA CancelFront ==
    ASSUME NEW a \in Seq(Nat), NEW b \in Seq(Nat), NEW c \in Seq(Nat),
           Join(a, b) = Join(a, c)
    PROVE  b = c
<1>1. a \o b = a \o c BY DEF Join
<1> QED BY <1>1, ConcatSimplifications

LEMMA JoinParts ==
    ASSUME NEW a \in Seq(Nat), NEW b \in Seq(Nat)
    PROVE  /\ Join(a, b) \in Seq(Nat) /\ Len(Join(a, b)) = Len(a) + Len(b)
           /\ Len(a) \in Nat /\ Len(b) \in Nat
           /\ \A i \in 1 .. Len(a) : Join(a, b)[i] = a[i]
<1>1. Len(a) \in Nat /\ Len(b) \in Nat BY LenProperties
<1>2. /\ a \o b \in Seq(Nat) /\ Len(a \o b) = Len(a) + Len(b)
      /\ \A i \in 1 .. Len(a) + Len(b) : (a \o b)[i] = IF i <= Len(a) THEN a[i] ELSE b[i - Len(a)]
  BY ConcatProperties
<1>3. ASSUME NEW i \in 1 .. Len(a) PROVE (a \o b)[i] = a[i]
  <2>1. i \in 1 .. Len(a) + Len(b) /\ i <= Len(a) BY <1>1
  <2> QED BY <1>2, <2>1
<1> QED BY <1>1, <1>2, <1>3 DEF Join

LEMMA BeginsWithFrame ==
    ASSUME NEW f \in Seq(Nat), NEW rest \in Seq(Nat), IsFrame(f)
    PROVE  StartsWithFrame(Join(f, rest))
<1>1. PICK b \in Seq(Nat) : b = Join(f, rest) /\ Len(b) = Len(f) + Len(rest)
  BY JoinParts
<1>2. IsPrefix(f, b)
  <2>1. b = f \o rest BY <1>1 DEF Join
  <2> QED BY <2>1, PrefixRest
<1>3. PICK n \in Nat : n = Len(f) BY LenProperties
<1>4. SubSeq(b, 1, n) = f
  <2>1. SubSeq(f, 1, n) = f BY <1>3, SubSeqFull
  <2> QED BY <1>2, <1>3, <2>1 DEF IsPrefix
<1>5. n \in 1 .. Len(b)
  <2>1. n >= 3 BY <1>3 DEF IsFrame, HeaderSize
  <2>2. Len(rest) \in Nat BY LenProperties
  <2> QED BY <1>1, <1>3, <2>1, <2>2
<1>6. IsFrame(SubSeq(b, 1, n)) BY <1>4
<1> QED BY <1>1, <1>5, <1>6 DEF StartsWithFrame

LEMMA FrameFacts ==
    ASSUME NEW f \in Seq(Nat), IsFrame(f)
    PROVE  /\ Len(f) \in Nat /\ Len(f) >= 3 /\ f[1] = Len(f) - 1
           /\ LengthOK(f[1]) /\ f[2] = Magic
<1>1. Len(f) \in Nat BY LenProperties
<1>2. /\ Len(f) >= 3 /\ f[1] = Len(f) - 1 /\ Len(f) <= 3 + MaxPayload /\ f[2] = Magic
  BY DEF IsFrame, HeaderSize, MaxFrameSize
<1>3. MaxPayload \in Nat BY FramingAssumption DEF FramingAssumption
<1>4. LengthOK(f[1]) BY <1>1, <1>2, <1>3 DEF LengthOK
<1> QED BY <1>1, <1>2, <1>4

\* Words in front of which a frame stands begin that frame, and no other.
LEMMA SameFront ==
    ASSUME NEW b \in Seq(Nat), NEW y \in Seq(Nat), NEW r \in Seq(Nat), NEW z \in Seq(Nat),
           IsFrame(r), Join(b, y) = Join(r, z)
    PROVE  /\ MayBeFrame(b)
           /\ \A f, rest \in Seq(Nat) : IsFrame(f) /\ b = Join(f, rest) => f = r
<1>1. PICK x : x = Join(b, y) /\ x = Join(r, z) OBVIOUS
<1>2. /\ Len(b) \in Nat /\ Len(r) \in Nat
      /\ \A i \in 1 .. Len(b) : x[i] = b[i]
      /\ \A i \in 1 .. Len(r) : x[i] = r[i]
  <2>1. Len(b) \in Nat /\ \A i \in 1 .. Len(b) : Join(b, y)[i] = b[i] BY JoinParts
  <2>2. Len(r) \in Nat /\ \A i \in 1 .. Len(r) : Join(r, z)[i] = r[i] BY JoinParts
  <2> QED BY <1>1, <2>1, <2>2
<1>3. Len(r) >= 3 /\ r[1] = Len(r) - 1 /\ LengthOK(r[1]) /\ r[2] = Magic BY FrameFacts
<1>4. Len(b) >= 1 => b[1] = r[1]
  <2>1. Len(b) >= 1 => 1 \in 1 .. Len(b) BY <1>2
  <2>2. 1 \in 1 .. Len(r) BY <1>2, <1>3
  <2> QED BY <1>2, <2>1, <2>2
<1>5. Len(b) >= 2 => b[2] = r[2]
  <2>1. Len(b) >= 2 => 2 \in 1 .. Len(b) BY <1>2
  <2>2. 2 \in 1 .. Len(r) BY <1>2, <1>3
  <2> QED BY <1>2, <2>1, <2>2
<1>6. MayBeFrame(b) BY <1>3, <1>4, <1>5 DEF MayBeFrame
<1>7. ASSUME NEW f \in Seq(Nat), NEW rest \in Seq(Nat), IsFrame(f), b = Join(f, rest)
      PROVE  f = r
  <2>1. /\ Len(b) = Len(f) + Len(rest) /\ Len(rest) \in Nat
        /\ \A i \in 1 .. Len(f) : b[i] = f[i]
    BY <1>7, JoinParts
  <2>2. Len(f) \in Nat /\ Len(f) >= 3 /\ f[1] = Len(f) - 1 BY <1>7, FrameFacts
  <2>3. 1 \in 1 .. Len(f) /\ Len(b) >= 1
    <3>1. PICK m \in Nat, k \in Nat : m = Len(f) /\ k = Len(rest) /\ m >= 3
      BY <2>1, <2>2
    <3>2. Len(b) = m + k BY <2>1, <3>1
    <3> QED BY <3>1, <3>2
  <2>4. f[1] = r[1] BY <1>4, <2>1, <2>3
  <2>5. Len(f) = Len(r) BY <1>2, <1>3, <2>2, <2>4
  <2>6. ASSUME NEW i \in 1 .. Len(f) PROVE f[i] = r[i]
    <3>1. i \in 1 .. Len(b) /\ i \in 1 .. Len(r) BY <1>2, <2>1, <2>2, <2>5
    <3> QED BY <1>2, <2>1, <3>1
  <2> QED BY <2>5, <2>6, SeqEqual
<1> QED BY <1>6, <1>7

LEMMA LessThanHalf ==
    ASSUME NEW b \in Seq(Nat), NEW y \in Seq(Nat), Half(Join(b, y))
    PROVE  Half(b)
<1>1. PICK h \in Seq(Nat) :
        /\ h = Join(b, y) /\ Len(h) = Len(b) + Len(y)
        /\ Len(b) \in Nat /\ Len(y) \in Nat
        /\ \A i \in 1 .. Len(b) : h[i] = b[i]
  BY JoinParts
<1>2. MayBeFrame(h) /\ ~StartsWithFrame(h) BY <1>1 DEF Half
<1>3. MayBeFrame(b)
  <2>1. Len(b) >= 1 => 1 \in 1 .. Len(b) /\ Len(h) >= 1 BY <1>1
  <2>2. Len(b) >= 2 => 2 \in 1 .. Len(b) /\ Len(h) >= 2 BY <1>1
  <2> QED BY <1>1, <1>2, <2>1, <2>2 DEF MayBeFrame
<1>4. ASSUME NEW n \in 1 .. Len(b), IsFrame(SubSeq(b, 1, n)) PROVE FALSE
  <2>1. n \in Nat /\ n <= Len(b) BY <1>1
  <2>2. PICK f \in Seq(Nat) : f = SubSeq(b, 1, n)
    <3>1. 1 \in Nat \ {0} OBVIOUS
    <3> QED BY <2>1, <3>1, Part
  <2>3. PICK rest \in Seq(Nat) : rest = SubSeq(b, n + 1, Len(b))
    <3>1. n + 1 \in Nat \ {0} BY <2>1
    <3>2. Len(b) <= Len(b) BY <1>1
    <3> QED BY <1>1, <3>1, <3>2, Part
  <2>4. b = Join(f, rest) BY <2>1, <2>2, <2>3, Halves DEF Join
  <2>5. h = Join(f, Join(rest, y)) BY <1>1, <2>4, JoinFacts
  <2>6. Join(rest, y) \in Seq(Nat) BY JoinFacts
  <2>7. IsFrame(f) BY <1>4, <2>2
  <2>8. StartsWithFrame(h) BY <2>5, <2>6, <2>7, BeginsWithFrame
  <2> QED BY <1>2, <2>8
<1>5. ~StartsWithFrame(b) BY <1>4 DEF StartsWithFrame
<1> QED BY <1>3, <1>5 DEF Half

LEMMA NothingIsHalf == Half(<<>>)
<1>1. PICK e \in Seq(Nat) : e = <<>> /\ Len(e) = 0 BY EmptySeq
<1>2. MayBeFrame(e) BY <1>1 DEF MayBeFrame
<1>3. ~StartsWithFrame(e) BY <1>1 DEF StartsWithFrame
<1> QED BY <1>1, <1>2, <1>3 DEF Half

\* The first half of a frame is not all of it.
LEMMA FirstHalfIsHalf ==
    ASSUME NEW raw \in Seq(Nat), IsFrame(raw)
    PROVE  Half(FirstHalf(raw))
<1>1. Len(raw) \in Nat /\ Len(raw) >= 3 /\ raw[1] = Len(raw) - 1 BY FrameFacts
<1>2. PICK n \in Nat : n = Len(raw) \div 2 /\ n < Len(raw) BY <1>1
<1>3. PICK h \in Seq(Nat) : h = FirstHalf(raw) /\ Len(h) = n
  <2>1. FirstHalf(raw) = SubSeq(raw, 1, n) BY <1>2 DEF FirstHalf
  <2>2. 1 \in Nat \ {0} /\ n <= Len(raw) BY <1>1, <1>2
  <2>3. /\ SubSeq(raw, 1, n) \in Seq(Nat)
        /\ Len(SubSeq(raw, 1, n)) = IF 1 <= n THEN n - 1 + 1 ELSE 0
    BY <2>2, Part
  <2>4. Len(SubSeq(raw, 1, n)) = n BY <1>2, <2>3
  <2> QED BY <2>1, <2>3, <2>4
<1>4. PICK r \in Seq(Nat) : raw = Join(h, r) BY <1>3, TwoHalves DEF Join
<1>5. \A i \in 1 .. Len(h) : raw[i] = h[i] BY <1>4, JoinParts
<1>6. ~StartsWithFrame(h)
  <2>1. Len(h) >= 1 => h[1] = raw[1]
    <3>1. Len(h) >= 1 => 1 \in 1 .. Len(h) BY <1>3
    <3> QED BY <1>5, <3>1
  <2>2. Len(h) >= 1 => Len(h) < h[1] + 1 BY <1>1, <1>2, <1>3, <2>1
  <2> QED BY <2>2, TooShort
<1>7. MayBeFrame(h)
  <2>1. PICK e \in Seq(Nat) : e = <<>> BY EmptySeq
  <2>2. Join(raw, e) = raw BY <2>1, ConcatEmptySeq DEF Join
  <2>3. Join(h, r) = Join(raw, e) BY <1>4, <2>2
  <2> QED BY <2>3, SameFront
<1> QED BY <1>3, <1>6, <1>7 DEF Half

\* The frames taken are the first of all.
Begins(taken, frames) ==
    /\ Len(taken) <= Len(frames)
    /\ \A i \in 1 .. Len(taken) : taken[i] = frames[i]

\* All the frames are those taken, the next and some more.
LEMMA NextFrame ==
    ASSUME NEW taken \in Seq(Seq(Nat)), NEW frames \in Seq(Seq(Nat)),
           Begins(taken, frames), Len(taken) # Len(frames)
    PROVE  /\ frames[Len(taken) + 1] \in Seq(Nat)
           /\ \E v \in Seq(Nat) :
                 FlattenSeq(frames)
                 = Join(Join(FlattenSeq(taken), frames[Len(taken) + 1]), v)
<1>1. PICK t \in Seq(Nat), F \in Seq(Nat) :
        t = FlattenSeq(taken) /\ F = FlattenSeq(frames)
  BY FlattenTyped
<1>2. Len(taken) \in Nat /\ Len(frames) \in Nat BY LenProperties
<1>3. taken = FirstOnes(frames, Len(taken)) BY FirstOnesEqual DEF Begins
<1>4. PICK k \in 0 .. Len(frames) : k = Len(taken) /\ k # Len(frames)
  BY <1>2 DEF Begins
<1>5. PICK r \in Seq(Nat) : r = frames[k + 1] BY <1>4, OneMoreFirst
<1>6. FirstOnes(frames, k + 1) = Append(taken, r)
  BY <1>3, <1>4, <1>5, OneMoreFirst
<1>7. k + 1 \in 0 .. Len(frames) BY <1>2, <1>4
<1>8. PICK tr \in Seq(Nat) : tr = Join(t, r) BY JoinFacts
<1>9. FlattenSeq(Append(taken, r)) = tr BY <1>1, <1>8, FlattenAppend DEF Join
<1>10. IsPrefix(tr, F) BY <1>1, <1>6, <1>7, <1>9, AllInOrder DEF InOrder
<1>11. PICK v \in Seq(Nat) : F = Join(tr, v) BY <1>10, PrefixRest DEF Join
<1> QED BY <1>1, <1>4, <1>5, <1>8, <1>11

\* What has arrived behind the frames taken begins the next one, or what stands
\* behind the last.
LEMMA Follows ==
    ASSUME NEW taken \in Seq(Seq(Nat)), NEW frames \in Seq(Seq(Nat)),
           NEW h \in Seq(Nat), NEW a \in Seq(Nat),
           Begins(taken, frames), Reads(taken, a), IsPrefix(a, Join(FlattenSeq(frames), h))
    PROVE  /\ Behind(taken, a) \in Seq(Nat)
           /\ Len(taken) # Len(frames)
              => /\ frames[Len(taken) + 1] \in Seq(Nat)
                 /\ \E y, z \in Seq(Nat) :
                       Join(Behind(taken, a), y) = Join(frames[Len(taken) + 1], z)
           /\ Len(taken) = Len(frames)
              => \E y \in Seq(Nat) : Join(Behind(taken, a), y) = h
<1>1. PICK t \in Seq(Nat), F \in Seq(Nat) :
        t = FlattenSeq(taken) /\ F = FlattenSeq(frames)
  BY FlattenTyped
<1>2. PICK b \in Seq(Nat) : b = Behind(taken, a) /\ a = Join(t, b)
  <2>1. <<>> \in Seq(Nat) BY EmptySeq
  <2>2. /\ Behind(taken, a) \in Seq(Nat)
        /\ a = FlattenSeq(taken) \o Behind(taken, a)
    BY <2>1, ReadsMore
  <2> QED BY <1>1, <2>2 DEF Join
<1>3. PICK w \in Seq(Nat) : Join(F, h) = Join(t, Join(b, w))
  <2>1. PICK x \in Seq(Nat) : x = Join(F, h) BY JoinFacts
  <2>2. PICK w \in Seq(Nat) : x = a \o w BY <1>1, <2>1, PrefixRest
  <2>3. x = Join(Join(t, b), w) BY <1>2, <2>2 DEF Join
  <2>4. Join(Join(t, b), w) = Join(t, Join(b, w)) BY JoinFacts
  <2> QED BY <2>1, <2>3, <2>4
<1>4. PICK bw \in Seq(Nat) : bw = Join(b, w) BY JoinFacts
<1>5. Len(taken) \in Nat /\ Len(frames) \in Nat BY LenProperties
<1>6. taken = FirstOnes(frames, Len(taken)) BY FirstOnesEqual DEF Begins
<1>7. CASE Len(taken) = Len(frames)
  <2>1. taken = frames BY <1>6, <1>7, SubSeqFull DEF FirstOnes
  <2>2. Join(t, bw) = Join(t, h) BY <1>1, <1>3, <1>4, <2>1
  <2>3. bw = h BY <2>2, CancelFront
  <2> QED BY <1>2, <1>4, <1>7, <2>3
<1>8. CASE Len(taken) # Len(frames)
  <2>1. PICK r \in Seq(Nat), v \in Seq(Nat) :
          r = frames[Len(taken) + 1] /\ F = Join(Join(t, r), v)
    BY <1>1, <1>8, NextFrame
  <2>2. PICK tr \in Seq(Nat), z \in Seq(Nat), rz \in Seq(Nat) :
          tr = Join(t, r) /\ z = Join(v, h) /\ rz = Join(r, z)
    BY JoinFacts
  <2>3. Join(F, h) = Join(tr, z) BY <2>1, <2>2, JoinFacts
  <2>4. Join(tr, z) = Join(t, rz) BY <2>2, JoinFacts
  <2>5. Join(t, bw) = Join(t, rz) BY <1>3, <1>4, <2>3, <2>4
  <2>6. bw = rz BY <2>5, CancelFront
  <2> QED BY <1>2, <1>4, <1>8, <2>1, <2>2, <2>6
<1> QED BY <1>7, <1>8

----------------------------------------------------------------------------
(* The server of this client *)
\* The server has the words that the socket has handed over, and the rest of what
\* it accepted is in its queue; behind the reported frames there is less than
\* one more.  An ended connection no longer knows how far it came: what is left
\* is that the server has the reported frames, or their beginning, or them and
\* less than one more.
Shared ==
    /\ socket # "none" => /\ IsPrefix(sent, written)
                          /\ Half(Behind(reported, written))
    /\ socket # "none" /\ serverPc # "closed" => written = Join(sent, queue)
    /\ \E h \in Seq(Nat) : Half(h) /\ IsPrefix(sent, Join(FlattenSeq(reported), h))
    /\ Begins(handled, reported)
    /\ cause # "protocol"

\* Of a connection that has not ended, the third part follows from the first.
LEMMA SentOfWritten ==
    Carried /\ sent \in Seq(Nat) /\ IsPrefix(sent, written) /\ Half(Behind(reported, written))
    => \E h \in Seq(Nat) : Half(h) /\ IsPrefix(sent, Join(FlattenSeq(reported), h))
<1> SUFFICES ASSUME Carried, sent \in Seq(Nat), IsPrefix(sent, written),
                    Half(Behind(reported, written))
             PROVE  \E h \in Seq(Nat) : Half(h) /\ IsPrefix(sent, Join(FlattenSeq(reported), h))
  OBVIOUS
<1>1. /\ reported \in Seq(Seq(Nat)) /\ written \in Seq(Nat)
      /\ Reads(reported, written) /\ <<>> \in Seq(Nat)
  BY EmptySeq DEF Carried
<1>2. /\ Behind(reported, written) \in Seq(Nat)
      /\ written = FlattenSeq(reported) \o Behind(reported, written)
  BY <1>1, ReadsMore
<1> QED BY <1>2 DEF Join

\* Half of a frame, or nothing, stands behind the frames of a live connection.
LEMMA BehindIsHalf ==
    Carried /\ socket \in {"connecting", "connected"} => Half(Behind(reported, written))
<1> SUFFICES ASSUME Carried, socket \in {"connecting", "connected"}
             PROVE  Half(Behind(reported, written))
  OBVIOUS
<1>1. CASE splitPending
  <2>1. PICK raw \in Seq(Nat) : raw = splitFrame /\ IsFrame(raw)
    BY <1>1 DEF Carried
  <2>2. Behind(reported, written) = FirstHalf(raw) BY <1>1, <2>1 DEF Carried
  <2> QED BY <2>1, <2>2, FirstHalfIsHalf
<1>2. CASE ~splitPending
  <2>1. Behind(reported, written) = <<>> BY <1>2 DEF Carried
  <2> QED BY <2>1, NothingIsHalf
<1> QED BY <1>1, <1>2

\* The same two after a step.
LEMMA AfterStep ==
    /\ /\ Carried' /\ sent' \in Seq(Nat) /\ IsPrefix(sent', written')
       /\ Half(Behind(reported', written'))
       => \E h \in Seq(Nat) : Half(h) /\ IsPrefix(sent', Join(FlattenSeq(reported'), h))
    /\ Carried' /\ socket' \in {"connecting", "connected"}
       => Half(Behind(reported', written'))
<1>1. (Carried /\ sent \in Seq(Nat) /\ IsPrefix(sent, written) /\ Half(Behind(reported, written))
       => \E h \in Seq(Nat) : Half(h) /\ IsPrefix(sent, Join(FlattenSeq(reported), h)))'
  BY SentOfWritten, PTL
<1>2. (Carried /\ socket \in {"connecting", "connected"} => Half(Behind(reported, written)))'
  BY BehindIsHalf, PTL
<1> QED BY <1>1, <1>2

----------------------------------------------------------------------------
(* The server reads *)
\* What the server has of the next frame begins the next reported one, or is less
\* than a frame.
LEMMA Awaited ==
    ASSUME Carried, Handled, Shared
    PROVE  /\ Behind(handled, Arrived) \in Seq(Nat)
           /\ MayBeFrame(Behind(handled, Arrived))
           /\ \A f, rest \in Seq(Nat) :
                 IsFrame(f) /\ Behind(handled, Arrived) = Join(f, rest)
                 => Len(handled) # Len(reported) /\ f = reported[Len(handled) + 1]
<1>1. PICK taken \in Seq(Seq(Nat)), frames \in Seq(Seq(Nat)), a \in Seq(Nat) :
        taken = handled /\ frames = reported /\ a = Arrived
  BY DEF Carried, Handled
<1>2. Begins(taken, frames) /\ Reads(taken, a) BY <1>1 DEF Shared, Handled
<1>3. \A k \in DOMAIN frames : IsFrame(frames[k]) BY <1>1 DEF Carried, Reads
<1>4. PICK h \in Seq(Nat), x \in Seq(Nat) :
        /\ Half(h) /\ x = Join(FlattenSeq(frames), h) /\ IsPrefix(sent, x)
  <2>1. PICK h \in Seq(Nat) : Half(h) /\ IsPrefix(sent, Join(FlattenSeq(frames), h))
    BY <1>1 DEF Shared
  <2>2. FlattenSeq(frames) \in Seq(Nat) BY FlattenTyped
  <2>3. Join(FlattenSeq(frames), h) \in Seq(Nat) BY <2>2, JoinFacts
  <2> QED BY <2>1, <2>3
<1>5. IsPrefix(a, x)
  <2>1. PICK s \in Seq(Nat), k \in Seq(Nat) : s = sent /\ k = kernel /\ s = a \o k
    BY <1>1 DEF Handled
  <2>2. IsPrefix(a, s) BY <2>1, PrefixRest
  <2>3. IsPrefix(s, x) BY <1>4, <2>1
  <2> QED BY <2>2, <2>3, PrefixTwice
<1>6. PICK b : b = Behind(taken, a) OBVIOUS
<1>7. IsPrefix(a, Join(FlattenSeq(frames), h)) BY <1>4, <1>5
<1>8. b \in Seq(Nat) BY <1>2, <1>6, <1>7, Follows
<1>9. CASE Len(taken) = Len(frames)
  <2>1. PICK y \in Seq(Nat) : Join(b, y) = h BY <1>2, <1>6, <1>7, <1>9, Follows
  <2>2. Half(Join(b, y)) BY <1>4, <2>1
  <2>3. Half(b) BY <1>8, <2>2, LessThanHalf
  <2>4. MayBeFrame(b) /\ ~StartsWithFrame(b) BY <2>3 DEF Half
  <2>5. ASSUME NEW f \in Seq(Nat), NEW rest \in Seq(Nat), IsFrame(f), b = Join(f, rest)
        PROVE  FALSE
    <3>1. StartsWithFrame(Join(f, rest)) BY <2>5, BeginsWithFrame
    <3> QED BY <2>4, <2>5, <3>1
  <2> QED BY <1>1, <1>6, <1>8, <2>4, <2>5
<1>10. CASE Len(taken) # Len(frames)
  <2>1. /\ frames[Len(taken) + 1] \in Seq(Nat)
        /\ \E y, z \in Seq(Nat) :
              Join(Behind(taken, a), y) = Join(frames[Len(taken) + 1], z)
    BY <1>2, <1>7, <1>10, Follows
  <2>2. PICK r \in Seq(Nat), y \in Seq(Nat), z \in Seq(Nat) :
          r = frames[Len(taken) + 1] /\ Join(b, y) = Join(r, z)
    BY <1>6, <2>1
  <2>3. IsFrame(r)
    <3>1. Len(taken) \in Nat /\ Len(frames) \in Nat /\ DOMAIN frames = 1 .. Len(frames)
      BY LenProperties
    <3>2. Len(taken) <= Len(frames) BY <1>2 DEF Begins
    <3>3. Len(taken) + 1 \in DOMAIN frames
      <4>1. PICK m \in Nat, n \in Nat : m = Len(taken) /\ n = Len(frames) BY <3>1
      <4>2. m + 1 \in 1 .. n BY <1>10, <3>2, <4>1
      <4> QED BY <3>1, <4>1, <4>2
    <3> QED BY <1>3, <2>2, <3>3
  <2>4. /\ MayBeFrame(b)
        /\ \A f, rest \in Seq(Nat) : IsFrame(f) /\ b = Join(f, rest) => f = r
    BY <1>8, <2>2, <2>3, SameFront
  <2> QED BY <1>1, <1>6, <1>8, <1>10, <2>2, <2>4
<1> QED BY <1>9, <1>10

\* One frame more of them.
LEMMA BeginsMore ==
    ASSUME NEW taken \in Seq(Seq(Nat)), NEW frames \in Seq(Seq(Nat)),
           Begins(taken, frames), Len(taken) # Len(frames),
           NEW f \in Seq(Nat), f = frames[Len(taken) + 1]
    PROVE  Begins(Append(taken, f), frames)
<1>1. Len(taken) \in Nat /\ Len(frames) \in Nat BY LenProperties
<1>2. PICK t : /\ t = Append(taken, f) /\ Len(t) = Len(taken) + 1
               /\ \A i \in 1 .. Len(taken) : t[i] = taken[i]
               /\ t[Len(taken) + 1] = f
  <2>1. /\ Len(Append(taken, f)) = Len(taken) + 1
        /\ \A i \in 1 .. Len(taken) : Append(taken, f)[i] = taken[i]
        /\ Append(taken, f)[Len(taken) + 1] = f
    BY AppendProperties
  <2> QED BY <2>1
<1>3. Len(t) <= Len(frames) BY <1>1, <1>2 DEF Begins
<1>4. ASSUME NEW i \in 1 .. Len(t) PROVE t[i] = frames[i]
  <2>1. CASE i = Len(taken) + 1 BY <1>2, <2>1
  <2>2. CASE i # Len(taken) + 1
    <3>1. i \in 1 .. Len(taken) BY <1>1, <1>2, <2>2
    <3> QED BY <1>2, <3>1 DEF Begins
  <2> QED BY <2>1, <2>2
<1> QED BY <1>2, <1>3, <1>4 DEF Begins

LEMMA BeginsTwice ==
    ASSUME NEW s \in Seq(Seq(Nat)), NEW t \in Seq(Seq(Nat)), NEW u \in Seq(Seq(Nat)),
           Begins(s, t), Begins(t, u)
    PROVE  Begins(s, u)
<1>1. Len(s) \in Nat /\ Len(t) \in Nat /\ Len(u) \in Nat BY LenProperties
<1>2. Len(s) <= Len(t) /\ Len(t) <= Len(u) BY DEF Begins
<1>3. Len(s) <= Len(u) BY <1>1, <1>2
<1>4. ASSUME NEW i \in 1 .. Len(s) PROVE s[i] = u[i]
  <2>1. i \in 1 .. Len(t) BY <1>1, <1>2
  <2> QED BY <2>1 DEF Begins
<1> QED BY <1>3, <1>4 DEF Begins

\* onRead() takes the reported frames one by one and refuses nothing.
LEMMA ReadingShared ==
    ASSUME Carried, Handled, Shared, Server!Reading, UNCHANGED vars
    PROVE  Shared'
<1>1. UNCHANGED <<socket, written, reported, queue>> BY DEF vars, past
<1>2. sent' = sent /\ serverPc # "closed"
  BY DEF Server!Reading, Server!OnRead, Server!OnReadFails, Server!TakeFrame,
         Server!BadFrame, Server!LoopEnds
<1>3. cause = "none" BY <1>2 DEF Handled
<1>4. Behind(handled, Arrived) = Peek(in) /\ BufferOK(in) BY <1>3 DEF Handled
<1>5. Begins(handled', reported) /\ cause' # "protocol"
  <2>1. CASE Server!OnRead \/ Server!OnReadFails \/ Server!LoopEnds
    <3>1. handled' = handled /\ cause' \in {cause, "reset", "end"}
      BY <2>1 DEF Server!OnRead, Server!OnReadFails, Server!LoopEnds, Server!Close
    <3> QED BY <1>3, <3>1 DEF Shared
  <2>2. CASE Server!TakeFrame
    <3>1. /\ TakeFromBuffer(in).kind = "frame" /\ in' = TakeFromBuffer(in).rest
          /\ handled' = Append(handled, TakeFromBuffer(in).frame)
          /\ cause' \in {cause, "handler"}
      BY <2>2, SameOperators DEF Server!TakeFrame, Server!Close
    <3>2. PICK f \in Seq(Nat) :
            /\ f = TakeFromBuffer(in).frame /\ IsFrame(f)
            /\ BufferOK(in') /\ Peek(in) = f \o Peek(in')
      BY <1>4, <3>1, BufferTaken
    <3>3. PICK rest \in Seq(Nat) : rest = Peek(in') BY <3>2, PeekOK
    <3>4. Behind(handled, Arrived) = Join(f, rest) BY <1>4, <3>2, <3>3 DEF Join
    <3>5. Len(handled) # Len(reported) /\ f = reported[Len(handled) + 1]
      BY <3>2, <3>4, Awaited
    <3>6. handled \in Seq(Seq(Nat)) /\ reported \in Seq(Seq(Nat)) /\ Begins(handled, reported)
      BY DEF Handled, Carried, Shared
    <3>7. Begins(Append(handled, f), reported) BY <3>5, <3>6, BeginsMore
    <3> QED BY <1>3, <3>1, <3>2, <3>7
  <2>3. CASE Server!BadFrame
    <3>1. TakeFromBuffer(in).kind = "error" BY <2>3, SameOperators DEF Server!BadFrame
    <3>2. ~MayBeFrame(Peek(in)) BY <1>4, <3>1, BufferRefuses
    <3> QED BY <1>4, <3>2, Awaited
  <2> QED BY <2>1, <2>2, <2>3 DEF Server!Reading
<1> QED BY <1>1, <1>2, <1>5 DEF Shared

----------------------------------------------------------------------------
(* The client writes *)
\* The socket accepts words, and with their last the frames are reported.
Grows ==
    /\ socket = "connected" /\ socket' = "connected"
    /\ \E words \in Seq(Nat) : written' = Join(written, words) /\ queue' = Join(queue, words)
    /\ Begins(reported, reported')

\* The connection ends, or goes on without a word.
Ends == socket' = "none" /\ reported' = reported
Waits == (socket' # "none" => socket # "none") /\ UNCHANGED <<reported, written, queue>>

LEMMA BeginsItself ==
    ASSUME NEW s \in Seq(Seq(Nat)), NEW t \in Seq(Seq(Nat))
    PROVE  Begins(s, s) /\ Begins(s, s \o t)
<1>1. Len(s) \in Nat /\ Len(t) \in Nat BY LenProperties
<1>2. Begins(s, s) BY <1>1 DEF Begins
<1>3. PICK u : u = s \o t OBVIOUS
<1>7. /\ Len(s \o t) = Len(s) + Len(t)
      /\ \A i \in 1 .. Len(s) + Len(t) :
            (s \o t)[i] = IF i <= Len(s) THEN s[i] ELSE t[i - Len(s)]
  BY ConcatProperties
<1>8. /\ Len(u) = Len(s) + Len(t)
      /\ \A i \in 1 .. Len(s) + Len(t) :
            u[i] = IF i <= Len(s) THEN s[i] ELSE t[i - Len(s)]
  BY <1>3, <1>7
<1>4. Len(s) <= Len(u) BY <1>1, <1>8
<1>5. ASSUME NEW i \in 1 .. Len(s) PROVE s[i] = u[i]
  <2>1. i \in 1 .. Len(s) + Len(t) /\ i <= Len(s) BY <1>1
  <2> QED BY <1>8, <2>1
<1>6. Begins(s, u) BY <1>4, <1>5 DEF Begins
<1> QED BY <1>2, <1>3, <1>6

LEMMA DisconnectedEnds == Disconnected /\ reported' = reported => Ends
BY DEF Disconnected, Ends

\* disconnectFrom() and the network.
LEMMA NetworkKinds ==
    ASSUME DisconnectFrom \/ Established \/ SocketEnds \/ ServerWrites
    PROVE  Ends \/ Waits
<1>1. UNCHANGED <<reported, written>>
  BY DEF DisconnectFrom, Established, SocketEnds, ServerWrites, past
<1>2. CASE Disconnected BY <1>1, <1>2, DisconnectedEnds
<1>3. CASE DisconnectFrom
  BY <1>1, <1>2, <1>3 DEF DisconnectFrom, Waits
<1>4. CASE Established BY <1>1, <1>4 DEF Established, Waits
<1>5. CASE ServerWrites BY <1>1, <1>5 DEF ServerWrites, Waits
<1> QED BY <1>2, <1>3, <1>4, <1>5 DEF SocketEnds

\* sendFrame() (tcpclient.cpp:191-246).
LEMMA SendKinds ==
    ASSUME Agree, Carried, Agree', Carried', NEW raw \in Frames, NEW copies \in {1, 2},
           SendAtOnce(raw, copies) \/ SendSplit(raw)
    PROVE  Ends \/ Grows
<1>1. raw \in Seq(Nat) /\ IsFrame(raw) /\ FirstHalf(raw) \in Seq(Nat)
  BY FramesOK, TwoHalves
<1>2. reported \in Seq(Seq(Nat)) /\ reported' \in Seq(Seq(Nat)) BY DEF Carried
<1>3. socket = "connected" BY DEF SendAtOnce, SendSplit, MaySend, Connected
<1>4. CASE SendAtOnce(raw, copies)
  <2>1. PICK c, words : c = [k \in 1 .. copies |-> raw] /\ words = FlattenSeq(c)
    OBVIOUS
  <2>2. c \in Seq(Seq(Nat)) /\ words \in Seq(Nat)
    <3>1. copies \in Nat OBVIOUS
    <3>2. PICK S : S = Seq(Nat) OBVIOUS
    <3>3. raw \in S BY <1>1, <3>2
    <3>4. c \in Seq(S) BY <2>1, <3>1, <3>3
    <3> QED BY <2>1, <3>2, <3>4, FlattenTyped
  <2>3. CASE /\ Accept(words) /\ reported' = reported \o c
             /\ UNCHANGED <<socket, session, flags, input, splitVars, arriving, ui>>
    <3>1. written' = Join(written, words) /\ queue' = Join(queue, words)
      BY <2>3 DEF Accept, Join
    <3>2. Begins(reported, reported \o c) BY <1>2, <2>2, BeginsItself
    <3> QED BY <1>3, <2>2, <2>3, <3>1, <3>2 DEF Grows
  <2>4. CASE AcceptPart(words) /\ reported' = reported
    BY <2>4, DisconnectedEnds DEF AcceptPart
  <2> QED BY <1>4, <2>1, <2>3, <2>4 DEF SendAtOnce
<1>5. CASE SendSplit(raw)
  <2>1. reported' = reported BY <1>5 DEF SendSplit
  <2>2. Begins(reported, reported') BY <1>2, <2>1, BeginsItself
  <2>3. CASE /\ Accept(FirstHalf(raw))
             /\ UNCHANGED <<socket, session, flags, input, arriving, shown>>
    <3>1. /\ written' = Join(written, FirstHalf(raw))
          /\ queue' = Join(queue, FirstHalf(raw))
      BY <2>3 DEF Accept, Join
    <3> QED BY <1>1, <1>3, <2>2, <2>3, <3>1 DEF Grows
  <2>4. CASE AcceptPart(FirstHalf(raw))
    BY <2>1, <2>4, DisconnectedEnds DEF AcceptPart
  <2> QED BY <1>5, <2>3, <2>4 DEF SendSplit
<1> QED BY <1>4, <1>5

\* The timers; a split send is completed or given up (tcpclient.cpp:226-237).
LEMMA TimeoutKinds ==
    ASSUME Agree, Carried, NEW t \in timers, Timeout(t)
    PROVE  Ends \/ Waits \/ Grows
<1>1. CASE Stale BY <1>1 DEF Stale, past, Waits
<1>2. CASE Disconnected /\ UNCHANGED past BY <1>2, DisconnectedEnds DEF past
<1>3. CASE SplitTimeout(t) /\ Current(t)
  <2>1. splitPending /\ socket = "connected" BY <1>3 DEF Current, Connected
  <2>2. PICK raw \in Seq(Nat), r \in Seq(Nat) : raw = splitFrame /\ r = SecondHalf(raw)
    BY <2>1, TwoHalves DEF Carried
  <2>3. CASE /\ Accept(r) /\ reported' = Append(reported, raw)
             /\ UNCHANGED <<socket, session, flags, input, arriving, shown, received>>
    <3>1. written' = Join(written, r) /\ queue' = Join(queue, r)
      BY <2>3 DEF Accept, Join
    <3>2. Begins(reported, reported')
      <4>1. reported \in Seq(Seq(Nat)) BY DEF Carried
      <4>2. PICK u : u = Append(reported, raw) OBVIOUS
      <4>3. /\ Len(reported) \in Nat /\ Len(u) = Len(reported) + 1
            /\ \A i \in 1 .. Len(reported) : u[i] = reported[i]
        BY <4>1, <4>2, AppendProperties, LenProperties
      <4>4. Len(reported) <= Len(u) BY <4>3
      <4> QED BY <2>3, <4>2, <4>3, <4>4 DEF Begins
    <3> QED BY <2>1, <2>3, <3>1, <3>2 DEF Grows
  <2>4. CASE AcceptPart(r) /\ reported' = reported
    BY <2>4, DisconnectedEnds DEF AcceptPart
  <2>5. CASE UNCHANGED <<socket, session, flags, input, queue, arriving, shown, past>>
    BY <2>5 DEF past, Waits
  <2> QED BY <1>3, <2>2, <2>3, <2>4, <2>5 DEF SplitTimeout
<1>4. CASE SplitTimeout(t) /\ ~Current(t) BY <1>1, <1>4 DEF SplitTimeout
<1>5. CASE ConnectTimeout(t) \/ DisconnectTimeout(t)
  BY <1>1, <1>2, <1>5 DEF ConnectTimeout, DisconnectTimeout
<1> QED BY <1>3, <1>4, <1>5 DEF Timeout

LEMMA ReceiveKinds ==
    ASSUME Receive \/ Reading
    PROVE  Ends \/ Waits
<1>1. UNCHANGED <<reported, written>>
  BY DEF Receive, Reading, ReadSocket, TakeFrame, SlotReturns, ProtocolError, Return, past
<1>2. Disconnected \/ UNCHANGED <<socket, queue>>
  BY DEF Receive, Reading, ReadSocket, TakeFrame, SlotReturns, ProtocolError, Return
<1> QED BY <1>1, <1>2, DisconnectedEnds DEF Waits

LEMMA LocalKinds ==
    ASSUME Agree, Carried, Agree', Carried', Local
    PROVE  Ends \/ Waits \/ Grows
<1>1. ASSUME NEW raw \in Frames, SendAtOnce(raw, 1) \/ SendAtOnce(raw, 2) \/ SendSplit(raw)
      PROVE  Ends \/ Grows
  BY <1>1, SendKinds
<1> QED BY <1>1, NetworkKinds, TimeoutKinds, ReceiveKinds DEF Local

LEMMA LocalShared ==
    ASSUME Agree, Carried, Handled, Shared, Agree', Carried', Handled',
           Local, UNCHANGED server
    PROVE  Shared'
<1>1. UNCHANGED <<sent, serverPc, handled, cause>> BY DEF server
<1>2. CASE Ends BY <1>1, <1>2 DEF Shared, Ends
<1>3. CASE Waits BY <1>1, <1>3 DEF Shared, Waits
<1>4. CASE Grows
  <2>1. socket = "connected" /\ socket' = "connected" /\ Begins(reported, reported')
    BY <1>4 DEF Grows
  <2>2. PICK words \in Seq(Nat) :
          written' = Join(written, words) /\ queue' = Join(queue, words)
    BY <1>4 DEF Grows
  <2>3. Half(Behind(reported', written')) BY <2>1, AfterStep
  <2>4. sent' \in Seq(Nat) /\ sent \in Seq(Nat) /\ written \in Seq(Nat) /\ queue \in Seq(Nat)
    BY DEF Handled, Carried
  <2>5. IsPrefix(sent', written')
    <3>1. PICK w \in Seq(Nat), x \in Seq(Nat) : w = written /\ x = Join(w, words)
      BY <2>4, JoinFacts
    <3>2. IsPrefix(w, x)
      <4>1. x = w \o words BY <3>1 DEF Join
      <4> QED BY <4>1, PrefixRest
    <3>3. IsPrefix(sent, w) BY <2>1, <3>1 DEF Shared
    <3>4. IsPrefix(sent, x) BY <2>4, <3>2, <3>3, PrefixTwice
    <3> QED BY <1>1, <2>2, <3>1, <3>4
  <2>6. serverPc' # "closed" => written' = Join(sent', queue')
    <3>1. serverPc # "closed" => written = Join(sent, queue) BY <2>1 DEF Shared
    <3>2. Join(Join(sent, queue), words) = Join(sent, Join(queue, words))
      BY <2>4, JoinFacts
    <3> QED BY <1>1, <2>2, <3>1, <3>2
  <2>7. Begins(handled', reported')
    <3>1. /\ handled \in Seq(Seq(Nat)) /\ reported \in Seq(Seq(Nat))
          /\ reported' \in Seq(Seq(Nat)) /\ Begins(handled, reported)
      BY DEF Handled, Carried, Shared
    <3>2. Begins(handled, reported') BY <2>1, <3>1, BeginsTwice
    <3> QED BY <1>1, <3>2
  <2>8. \E h \in Seq(Nat) : Half(h) /\ IsPrefix(sent', Join(FlattenSeq(reported'), h))
    BY <2>3, <2>4, <2>5, AfterStep
  <2>9. cause' # "protocol" BY <1>1 DEF Shared
  <2> QED BY <2>3, <2>5, <2>6, <2>7, <2>8, <2>9 DEF Shared
<1> QED BY <1>2, <1>3, <1>4, LocalKinds

----------------------------------------------------------------------------
(* A new connection, and the network *)
LEMMA NothingShared ==
    /\ written = <<>> /\ reported = <<>> /\ queue = <<>>
    /\ sent = <<>> /\ handled = <<>> /\ cause = "none"
    => Shared
<1> SUFFICES ASSUME written = <<>>, reported = <<>>, queue = <<>>,
                    sent = <<>>, handled = <<>>, cause = "none"
             PROVE  Shared
  OBVIOUS
<1>1. PICK e \in Seq(Nat) : e = <<>> BY EmptySeq
<1>2. e = e \o e BY <1>1, ConcatEmptySeq
<1>3. IsPrefix(e, e) /\ e = Join(e, e) BY <1>2, PrefixRest DEF Join
<1>4. Half(e) BY <1>1, NothingIsHalf
<1>5. Half(Behind(reported, written)) BY <1>1, <1>4, ReadsNothing
<1>6. \E h \in Seq(Nat) : Half(h) /\ IsPrefix(sent, Join(FlattenSeq(reported), h))
  <2>1. FlattenSeq(reported) = e BY <1>1, FlattenEmpty
  <2> QED BY <1>1, <1>3, <1>4, <2>1
<1>7. Begins(handled, reported) BY DEF Begins
<1> QED BY <1>1, <1>3, <1>5, <1>6, <1>7 DEF Shared

LEMMA InitShared == Init /\ Server!Init => Shared
BY NothingShared DEF Init, Server!Init

LEMMA NewShared == ConnectTo /\ NewConnection => Shared'
<1>1. (/\ written = <<>> /\ reported = <<>> /\ queue = <<>>
       /\ sent = <<>> /\ handled = <<>> /\ cause = "none"
       => Shared)'
  BY NothingShared, PTL
<1>2. ConnectTo /\ NewConnection
      => /\ written' = <<>> /\ reported' = <<>> /\ queue' = <<>>
         /\ sent' = <<>> /\ handled' = <<>> /\ cause' = "none"
  BY DEF ConnectTo, ReleaseSocket, NewConnection
<1> QED BY <1>1, <1>2

\* The next word of the queue, and those behind it.
LEMMA FirstWord ==
    ASSUME NEW q \in Seq(Nat), q # <<>>
    PROVE  /\ Head(q) \in Nat /\ Tail(q) \in Seq(Nat)
           /\ \E e \in Seq(Nat) :
                 /\ q = Join(e, Tail(q))
                 /\ \A s \in Seq(Nat) : Append(s, Head(q)) = Join(s, e)
<1>1. /\ Head(q) \in Nat /\ Head(q) = q[1]
      /\ Tail(q) \in Seq(Nat) /\ Len(Tail(q)) = Len(q) - 1
      /\ \A i \in 1 .. Len(Tail(q)) : Tail(q)[i] = q[i + 1]
  <2>1. Head(q) = q[1] OBVIOUS
  <2> QED BY <2>1, HeadTailProperties
<1>2. PICK w \in Nat, t \in Seq(Nat) :
        /\ w = Head(q) /\ t = Tail(q) /\ q[1] = w /\ Len(t) = Len(q) - 1
        /\ \A i \in 1 .. Len(t) : t[i] = q[i + 1]
  BY <1>1
<1>3. PICK e \in Seq(Nat) : e = <<w>> /\ Len(e) = 1 /\ e[1] = w
  <2>1. Append(<<>>, w) \in Seq(Nat) BY EmptySeq, AppendProperties
  <2>2. Append(<<>>, w) = <<w>> OBVIOUS
  <2>3. Len(<<w>>) = 1 /\ <<w>>[1] = w OBVIOUS
  <2> QED BY <2>1, <2>2, <2>3
<1>4. \A s \in Seq(Nat) : Append(s, w) = Join(s, e)
  <2> SUFFICES ASSUME NEW s \in Seq(Nat) PROVE Append(s, w) = Join(s, e)
    OBVIOUS
  <2> QED BY <1>3, AppendIsConcat DEF Join
<1>5. /\ e \o t \in Seq(Nat) /\ Len(e \o t) = Len(e) + Len(t)
      /\ \A i \in 1 .. Len(e) + Len(t) :
            (e \o t)[i] = IF i <= Len(e) THEN e[i] ELSE t[i - Len(e)]
  BY ConcatProperties
<1>6. PICK n \in Nat : n = Len(t) /\ Len(q) = n + 1
  <2>1. PICK n \in Nat, m \in Nat : n = Len(t) /\ m = Len(q) BY LenProperties
  <2>2. n = m - 1 BY <1>2, <2>1
  <2>3. m = n + 1 BY <2>2
  <2> QED BY <2>1, <2>3
<1>7. PICK u \in Seq(Nat) : u = e \o t BY ConcatProperties
<1>8. /\ Len(u) = n + 1
      /\ \A i \in 1 .. n + 1 : u[i] = IF i <= 1 THEN e[i] ELSE t[i - 1]
  <2>1. Len(e) + Len(t) = n + 1 BY <1>3, <1>6
  <2> QED BY <1>3, <1>5, <1>7, <2>1
<1>9. ASSUME NEW i \in 1 .. n + 1 PROVE u[i] = q[i]
  <2>1. CASE i = 1 BY <1>2, <1>3, <1>8, <2>1
  <2>2. CASE i # 1
    <3>1. i - 1 \in 1 .. n /\ i - 1 + 1 = i /\ ~(i <= 1) BY <2>2
    <3> QED BY <1>2, <1>6, <1>8, <3>1
  <2> QED BY <2>1, <2>2
<1>10. u = q BY <1>6, <1>8, <1>9, SeqEqual
<1> QED BY <1>1, <1>2, <1>4, <1>7, <1>10 DEF Join

LEMMA DrainShared ==
    ASSUME Carried, Handled, Shared, Carried', Handled', Drain, Transmits
    PROVE  Shared'
<1>1. /\ socket # "none" /\ queue # <<>>
      /\ socket' # "none" => queue' = Tail(queue)
      /\ UNCHANGED <<written, reported, handled, cause>>
  BY DEF Drain, Disconnected, past, Transmits, server, Server!PeerWrites
<1>2. IsPrefix(sent, written) /\ Half(Behind(reported, written)) BY <1>1 DEF Shared
<1>3. CASE serverPc = "closed"
  <2>1. UNCHANGED <<sent, serverPc>> BY <1>3 DEF Transmits, server
  <2> QED BY <1>1, <1>2, <1>3, <2>1 DEF Shared
<1>4. CASE serverPc # "closed"
  <2>1. PICK s \in Seq(Nat), q \in Seq(Nat) : s = sent /\ q = queue /\ q # <<>>
    BY <1>1 DEF Carried, Handled
  <2>2. PICK e \in Seq(Nat), t \in Seq(Nat) :
          t = Tail(q) /\ q = Join(e, t) /\ Append(s, Head(q)) = Join(s, e)
    BY <2>1, FirstWord
  <2>3. sent' = Join(s, e) /\ serverPc' = serverPc
    BY <1>4, <2>1, <2>2 DEF Transmits, Server!PeerWrites
  <2>4. PICK n \in Seq(Nat) : n = sent' /\ n = Join(s, e) BY <2>3, JoinFacts
  <2>5. written = Join(s, q) BY <1>1, <1>4, <2>1 DEF Shared
  <2>6. written = Join(n, t)
    <3>1. Join(Join(s, e), t) = Join(s, Join(e, t)) BY JoinFacts
    <3> QED BY <2>2, <2>4, <2>5, <3>1
  <2>7. written' = Join(n, t) /\ IsPrefix(n, written')
    <3>1. IsPrefix(n, Join(n, t)) BY PrefixRest, JoinFacts DEF Join
    <3> QED BY <1>1, <2>6, <3>1
  <2>8. Half(Behind(reported', written')) BY <1>1, <1>2
  <2>9. \E h \in Seq(Nat) : Half(h) /\ IsPrefix(sent', Join(FlattenSeq(reported'), h))
    BY <2>4, <2>7, <2>8, AfterStep
  <2>10. socket' # "none" => written' = Join(sent', queue')
    BY <1>1, <2>1, <2>2, <2>4, <2>7
  <2>11. Begins(handled', reported') /\ cause' # "protocol" BY <1>1 DEF Shared
  <2> QED BY <2>4, <2>7, <2>8, <2>9, <2>10, <2>11 DEF Shared
<1> QED BY <1>3, <1>4

\* Every step when both ends run.
LEMMA SessionShared ==
    ASSUME Agree, Carried, Handled, Shared, Agree', Carried', Handled',
           SessionStep
    PROVE  Shared'
<1>1. CASE Server!PeerCloses /\ UNCHANGED vars
  <2>1. UNCHANGED <<socket, written, reported, queue, sent, serverPc, handled, cause>>
    BY <1>1 DEF Server!PeerCloses, vars, past
  <2> QED BY <2>1 DEF Shared
<1> QED BY <1>1, NewShared, DrainShared, LocalShared, ReadingShared DEF SessionStep

\* Alone, the ends share nothing.
SharedOfBoth == end = "both" => Shared

LEMMA SharedStep ==
    Agree /\ Carried /\ Handled /\ SharedOfBoth /\ Agree' /\ Carried' /\ Handled'
    /\ [EndsNext]_<<vars, end, server>> => SharedOfBoth'
<1> SUFFICES ASSUME Agree, Carried, Handled, SharedOfBoth, Agree', Carried', Handled',
                    [EndsNext]_<<vars, end, server>>, end' = "both"
             PROVE  Shared'
  BY DEF SharedOfBoth
<1>1. CASE UNCHANGED <<vars, end, server>>
  <2>1. /\ UNCHANGED <<socket, written, reported, queue, sent, serverPc, handled, cause>>
        /\ Shared
    BY <1>1 DEF vars, past, server, SharedOfBoth
  <2> QED BY <2>1 DEF Shared
<1>2. CASE SessionStep
  <2>1. Shared BY <1>2 DEF SessionStep, SharedOfBoth
  <2> QED BY <1>2, <2>1, SessionShared
<1> QED BY <1>1, <1>2 DEF EndsNext, ClientStep, ServerStep

----------------------------------------------------------------------------
(* The session *)
\* When the server has read everything of a settled client no reported frame is
\* missing.
LEMMA AllHandled ==
    ASSUME Carried, Handled, Shared, socket \in {"connected", "closing"},
           queue = <<>>, serverPc = "idle", kernel = <<>>
    PROVE  Len(handled) = Len(reported)
<1> SUFFICES ASSUME Len(handled) # Len(reported) PROVE FALSE OBVIOUS
<1>1. PICK taken \in Seq(Seq(Nat)), frames \in Seq(Seq(Nat)), a \in Seq(Nat) :
        taken = handled /\ frames = reported /\ a = written
  BY DEF Carried, Handled
<1>2. Arrived = a
  <2>1. PICK s \in Seq(Nat), x \in Seq(Nat), e \in Seq(Nat) :
          s = sent /\ x = Arrived /\ e = <<>> /\ s = x \o e
    BY EmptySeq DEF Handled
  <2>2. a = Join(s, e) BY <1>1, <2>1 DEF Shared
  <2>3. x \o e = x /\ s \o e = s BY <2>1, ConcatEmptySeq
  <2> QED BY <2>1, <2>2, <2>3 DEF Join
<1>3. Begins(taken, frames) /\ Reads(taken, a) /\ Reads(frames, a)
  BY <1>1, <1>2 DEF Shared, Handled, Carried
<1>4. PICK r \in Seq(Nat), v \in Seq(Nat) :
        /\ r = frames[Len(taken) + 1]
        /\ FlattenSeq(frames) = Join(Join(FlattenSeq(taken), r), v)
  BY <1>1, <1>3, NextFrame
<1>5. IsFrame(r)
  <2>1. Len(taken) \in Nat /\ Len(frames) \in Nat BY LenProperties
  <2>2. Len(taken) + 1 \in DOMAIN frames BY <1>1, <1>3, <2>1 DEF Begins
  <2> QED BY <1>3, <1>4, <2>2 DEF Reads
<1>6. PICK t \in Seq(Nat), b \in Seq(Nat) :
        t = FlattenSeq(taken) /\ b = Behind(taken, a) /\ a = Join(t, b)
  <2>1. <<>> \in Seq(Nat) /\ FlattenSeq(taken) \in Seq(Nat) BY EmptySeq, FlattenTyped
  <2>2. Behind(taken, a) \in Seq(Nat) /\ a = FlattenSeq(taken) \o Behind(taken, a)
    BY <1>3, <2>1, ReadsMore
  <2> QED BY <2>1, <2>2 DEF Join
<1>7. PICK F \in Seq(Nat), h \in Seq(Nat) : F = FlattenSeq(frames) /\ a = Join(F, h)
  <2>1. <<>> \in Seq(Nat) /\ FlattenSeq(frames) \in Seq(Nat) BY EmptySeq, FlattenTyped
  <2>2. Behind(frames, a) \in Seq(Nat) /\ a = FlattenSeq(frames) \o Behind(frames, a)
    BY <1>3, <2>1, ReadsMore
  <2> QED BY <2>1, <2>2 DEF Join
<1>8. PICK tr \in Seq(Nat), vh \in Seq(Nat), z \in Seq(Nat) :
        tr = Join(t, r) /\ vh = Join(v, h) /\ z = Join(r, vh)
  BY JoinFacts
<1>9. a = Join(t, z)
  <2>1. F = Join(tr, v) BY <1>4, <1>6, <1>7, <1>8
  <2>2. Join(F, h) = Join(tr, vh) BY <1>8, <2>1, JoinFacts
  <2>3. Join(tr, vh) = Join(t, z) BY <1>8, JoinFacts
  <2> QED BY <1>7, <2>2, <2>3
<1>10. b = z BY <1>6, <1>9, CancelFront
<1>11. StartsWithFrame(b) BY <1>5, <1>8, <1>10, BeginsWithFrame
<1>12. ~StartsWithFrame(b)
  <2>1. BufferOK(in) /\ TakeFromBuffer(in).kind = "more" /\ b = Peek(in)
    BY <1>1, <1>2, <1>6 DEF Handled
  <2> QED BY <2>1, BufferWaits
<1> QED BY <1>11, <1>12

LEMMA SessionHolds == Carried /\ Handled /\ SharedOfBoth => HandledAsReported
<1> SUFFICES ASSUME Carried, Handled, Shared
             PROVE  /\ cause # "protocol"
                    /\ IsPrefix(handled, reported)
                    /\ /\ socket \in {"connected", "closing"} /\ queue = <<>>
                       /\ serverPc = "idle" /\ kernel = <<>>
                       => handled = reported
  BY DEF SharedOfBoth, HandledAsReported
<1>1. PICK taken \in Seq(Seq(Nat)), frames \in Seq(Seq(Nat)) :
        taken = handled /\ frames = reported
  BY DEF Carried, Handled
<1>2. /\ Len(taken) <= Len(frames)
      /\ taken = FirstOnes(frames, Len(taken))
  BY <1>1, FirstOnesEqual DEF Shared, Begins
<1>3. SubSeq(taken, 1, Len(taken)) = taken /\ SubSeq(frames, 1, Len(frames)) = frames
  BY SubSeqFull
<1>4. IsPrefix(taken, frames) BY <1>2, <1>3 DEF IsPrefix, FirstOnes
<1>5. Len(taken) = Len(frames) => taken = frames BY <1>2, <1>3 DEF FirstOnes
<1> QED BY <1>1, <1>4, <1>5, AllHandled DEF Shared

\* The inductive invariant of the two ends.
Both == Agree /\ Carried /\ Handled /\ SharedOfBoth

LEMMA BothHold == EndsSpec => []Both
<1>1. EndsInit => Both
  BY InitAgree, InitCarried, InitHandled, InitShared DEF EndsInit, Both, SharedOfBoth
<1>2. Both /\ [EndsNext]_<<vars, end, server>> => Both'
  <2>1. Agree /\ [EndsNext]_<<vars, end, server>> => Agree'
    BY ClientStands, AgreeStep
  <2>2. Agree /\ Carried /\ [EndsNext]_<<vars, end, server>> => Carried'
    BY ClientStands, CarriedStep
  <2> QED BY <2>1, <2>2, HandledStep, SharedStep DEF Both
<1> QED BY <1>1, <1>2, PTL DEF EndsSpec

\* What the client reports as queued is what the server handles, in order and
\* nothing else, whatever the client gives up or starts again and whatever the
\* server answers; a server that has read all that a settled client sent has
\* handled every reported frame; and the server never refuses this client
\* (tcpclient.cpp:49-63 and 154-246, chat_server.cpp:647-752).
THEOREM SessionCorrect == EndsSpec => []HandledAsReported
<1>1. Both => HandledAsReported BY SessionHolds DEF Both
<1> QED BY <1>1, BothHold, PTL

\* However the stream of its peer is cut, the server handles the frames the stream
\* means, in order and with nothing added, and leaves none in its buffer; and it
\* refuses only a stream that no frame could continue; of this client's stream
\* the frames are the reported ones (chat_server.cpp:647-752, Buffer.hpp:25-90).
THEOREM FramesCorrect == EndsSpec => []EveryFrameHandled
<1>1. Both => EveryFrameHandled
  BY SessionHolds, HandledOfAnyStream DEF Both, EveryFrameHandled
<1> QED BY <1>1, BothHold, PTL

----------------------------------------------------------------------------
(* Both ends *)

\* A behaviour of the two ends is one of the client, if only a standing one: the
\* theorems about Spec are theorems about EndsSpec.
THEOREM ClientImplemented == EndsSpec => Spec
<1>1. EndsInit => Init BY DEF EndsInit
<1> QED BY <1>1, ClientStands, PTL DEF EndsSpec, Spec
============================================================================
