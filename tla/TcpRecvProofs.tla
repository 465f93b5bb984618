---------------------------- MODULE TcpRecvProofs ----------------------------
(***************************************************************************)
(* What holds of TcpRecv for any number and length of packets, any size of *)
(* the shared buffer and any way the kernel cuts the stream.               *)
(*                                                                         *)
(* The stream does not change while a connection lasts, so every buffer is *)
(* a stretch of it, and a step moves the places where one stretch ends and *)
(* the next begins (Placed).  The first stretch begins where a packet does *)
(* (Starts): that is why a head is found where processLength looks for it. *)
(***************************************************************************)
EXTENDS TcpRecv, FiniteSetTheorems, SequenceTheorems, WellFoundedInduction, TLAPS

----------------------------------------------------------------------------
(* Numbers *)

\* Well-foundedness of the order on numbers, from that of set inclusion.
LEMMA LeastNumber ==
    ASSUME NEW T \in SUBSET Nat, T # {}
    PROVE  \E n \in T : \A m \in T : n <= m
<1> DEFINE R == StrictSubsetOrdering(Nat)
           F == {0 .. n : n \in T}
<1>1. F \subseteq FiniteSubsetsOf(Nat) /\ F # {}
  <2>1. \A n \in Nat : 0 .. n \in FiniteSubsetsOf(Nat)
    BY FS_Interval DEF FiniteSubsetsOf
  <2>2. QED
    BY <2>1
<1>2. \E X \in F : \A Y \in F : ~ (<<Y, X>> \in R)
  <2>1. IsWellFoundedOn(R, FiniteSubsetsOf(Nat))
    BY FS_StrictSubsetOrderingWellFounded
  <2> HIDE DEF F, R
  <2>2. QED
    BY <1>1, <2>1, WFMin
<1>3. PICK n \in T : \A Y \in F : ~ (<<Y, 0 .. n>> \in R)
  BY <1>2
<1>4. ASSUME NEW m \in T, m < n PROVE FALSE
  <2>1. n \in 0 .. n /\ n \notin 0 .. m
    BY <1>4
  <2>2. 0 .. m \subseteq 0 .. n /\ 0 .. m # 0 .. n
    BY <1>4, <2>1
  <2>3. <<0 .. m, 0 .. n>> \in R
    BY <2>2 DEF StrictSubsetOrdering
  <2>4. QED
    BY <1>3, <2>3
<1>5. QED
  BY <1>4

\* Induction up to a number, for a set of numbers.
LEMMA UpTo ==
    ASSUME NEW N \in Nat, NEW T, 0 \in T,
           \A n \in 1..N : n - 1 \in T => n \in T
    PROVE  \A n \in 0..N : n \in T
<1> DEFINE U == {n \in 0..N : n \notin T}
<1>1. SUFFICES ASSUME U # {} PROVE FALSE
  OBVIOUS
<1>2. PICK n \in U : \A m \in U : n <= m
  <2>1. U \in SUBSET Nat
    OBVIOUS
  <2> HIDE DEF U
  <2>2. QED
    BY <1>1, <2>1, LeastNumber
<1>3. n \in 0..N /\ n \notin T /\ n # 0
  BY <1>2
<1>4. n \in 1..N /\ n - 1 \in 0..N /\ n - 1 < n
  BY <1>3
<1>5. n - 1 \in T
  BY <1>2, <1>4
<1>6. QED
  BY <1>3, <1>4, <1>5
(* Flattened sequences *)

FlatUpTo(g, seqs, N) ==
    g = [i \in 1..N |-> IF i = 1 THEN seqs[i] ELSE g[i - 1] \o seqs[i]]

LEMMA FlatExists ==
    ASSUME NEW seqs, Len(seqs) \in Nat \ {0}
    PROVE  \E g : FlatUpTo(g, seqs, Len(seqs)) /\ FlattenSeq(seqs) = g[Len(seqs)]
<1> DEFINE L == Len(seqs)
           T == {N \in 0..L : \E g : FlatUpTo(g, seqs, N)}
<1>1. 0 \in T
  <2> DEFINE g == [i \in 1..0 |-> <<>>]
  <2>1. 1..0 = {}
    OBVIOUS
  <2>2. FlatUpTo(g, seqs, 0)
    BY <2>1 DEF FlatUpTo
  <2> HIDE DEF g
  <2>3. QED
    BY <2>2
<1>2. ASSUME NEW N \in 1..L, N - 1 \in T PROVE N \in T
  <2>1. PICK g : FlatUpTo(g, seqs, N - 1)
    BY <1>2
  <2> DEFINE h == [i \in 1..N |-> IF i = N THEN (IF N = 1 THEN seqs[N] ELSE g[N - 1] \o seqs[N])
                                  ELSE g[i]]
  <2>2. \A i \in 1..(N - 1) : g[i] = IF i = 1 THEN seqs[i] ELSE g[i - 1] \o seqs[i]
    BY <2>1, Zenon DEF FlatUpTo
  <2>3. N \in Nat /\ N # 0 /\ \A i \in 1..(N - 1) : i \in 1..N /\ i # N
    OBVIOUS
  <2>4. h[N] = IF N = 1 THEN seqs[N] ELSE h[N - 1] \o seqs[N]
    <3>1. N # 1 => h[N - 1] = g[N - 1]
      BY <2>3
    <3>2. h[N] = IF N = 1 THEN seqs[N] ELSE g[N - 1] \o seqs[N]
      BY <2>3
    <3> HIDE DEF h
    <3>3. QED
      BY <3>1, <3>2
  <2>5. ASSUME NEW i \in 1..N, i # N
        PROVE  h[i] = IF i = 1 THEN seqs[i] ELSE h[i - 1] \o seqs[i]
    <3>1. i \in 1..(N - 1) /\ h[i] = g[i]
      BY <2>5
    <3>2. i # 1 => h[i - 1] = g[i - 1]
      BY <2>5
    <3> HIDE DEF h
    <3>3. QED
      BY <2>2, <3>1, <3>2
  <2>6. FlatUpTo(h, seqs, N)
    <3>1. h = [i \in 1..N |-> h[i]]
      OBVIOUS
    <3> HIDE DEF h
    <3>2. \A i \in 1..N : h[i] = IF i = 1 THEN seqs[i] ELSE h[i - 1] \o seqs[i]
      BY <2>3, <2>4, <2>5
    <3>3. QED
      BY <3>1, <3>2 DEF FlatUpTo
  <2> HIDE DEF h
  <2>7. QED
    BY <2>6
<1>3. L \in T
  <2> HIDE DEF T
  <2>1. \A N \in 0..L : N \in T
    BY <1>1, <1>2, UpTo
  <2>2. QED
    BY <2>1
<1>4. PICK g0 : FlatUpTo(g0, seqs, L)
  BY <1>3
<1> DEFINE Is(f) == f = [i \in 1..L |-> IF i = 1 THEN seqs[i] ELSE f[i - 1] \o seqs[i]]
           k == CHOOSE f : Is(f)
<1>5. FlattenSeq(seqs) = k[L]
  BY DEF FlattenSeq
<1>6. Is(k)
  <2>1. Is(g0)
    BY <1>4 DEF FlatUpTo
  <2> HIDE DEF Is
  <2>2. QED
    BY <2>1
<1>7. FlatUpTo(k, seqs, L)
  BY <1>6, Zenon DEF FlatUpTo
<1> HIDE DEF k
<1>8. QED
  BY <1>5, <1>7

\* One sequence more.
LEMMA FlatAppend ==
    ASSUME NEW X, NEW s \in Seq(Seq(X)), NEW x \in Seq(X), FlattenSeq(s) \in Seq(X)
    PROVE  FlattenSeq(Append(s, x)) = FlattenSeq(s) \o x
<1> DEFINE L == Len(s)
           t == Append(s, x)
<1>1. /\ L \in Nat /\ Len(t) = L + 1
      /\ \A i \in 1..L : t[i] = s[i]
      /\ t[L + 1] = x
  BY AppendProperties, LenProperties
<1> HIDE DEF t
<1>2. PICK g : FlatUpTo(g, t, L + 1) /\ FlattenSeq(t) = g[L + 1]
  BY <1>1, FlatExists
<1>3. \A i \in 1..(L + 1) : g[i] = IF i = 1 THEN t[i] ELSE g[i - 1] \o t[i]
  BY <1>2, Zenon DEF FlatUpTo
<1>4. CASE L = 0
  <2>1. g[1] = t[1] /\ t[1] = x
    BY <1>1, <1>3, <1>4
  <2>2. FlattenSeq(s) = <<>>
    BY <1>4 DEF FlattenSeq
  <2>3. <<>> \o x = x
    BY ConcatEmptySeq
  <2>4. QED
    BY <1>2, <1>4, <2>1, <2>2, <2>3 DEF t
<1>5. CASE L # 0
  <2>1. PICK h : FlatUpTo(h, s, L) /\ FlattenSeq(s) = h[L]
    BY <1>1, <1>5, FlatExists
  <2>2. \A i \in 1..L : h[i] = IF i = 1 THEN s[i] ELSE h[i - 1] \o s[i]
    BY <2>1, Zenon DEF FlatUpTo
  <2> DEFINE T == {i \in 0..L : i = 0 \/ g[i] = h[i]}
  <2>3. ASSUME NEW i \in 1..L, i - 1 \in T PROVE i \in T
    <3>1. i \in 1..(L + 1) /\ t[i] = s[i] /\ (i # 1 => g[i - 1] = h[i - 1])
      BY <1>1, <2>3
    <3>2. g[i] = IF i = 1 THEN s[i] ELSE g[i - 1] \o s[i]
      BY <1>3, <3>1
    <3>3. g[i] = h[i]
      BY <2>2, <3>1, <3>2
    <3>4. QED
      BY <1>1, <3>3
  <2>4. \A i \in 0..L : i \in T
    <3>1. 0 \in T
      BY <1>1
    <3> HIDE DEF T
    <3>2. QED
      BY <1>1, <2>3, <3>1, UpTo
  <2>5. g[L] = h[L]
    BY <1>1, <1>5, <2>4
  <2>6. g[L + 1] = g[L] \o x
    <3>1. L + 1 \in 1..(L + 1) /\ L + 1 # 1 /\ (L + 1) - 1 = L
      BY <1>1, <1>5
    <3>2. g[L + 1] = g[(L + 1) - 1] \o t[L + 1]
      BY <1>3, <3>1
    <3>3. QED
      BY <1>1, <3>1, <3>2
  <2>7. QED
    BY <1>2, <2>1, <2>5, <2>6 DEF t
<1>6. QED
  BY <1>4, <1>5

LEMMA FlatEmpty == FlattenSeq(<<>>) = <<>>
BY DEF FlattenSeq

----------------------------------------------------------------------------
(* Stretches of a sequence *)

\* What follows the first a elements, up to the b-th.
Seg(S, a, b) == SubSeq(S, a + 1, b)

LEMMA SegFacts ==
    ASSUME NEW X, NEW S \in Seq(X), NEW a \in Nat, NEW b \in Nat, a <= b, b <= Len(S)
    PROVE  /\ Seg(S, a, b) \in Seq(X) /\ Len(Seg(S, a, b)) = b - a
           /\ \A i \in 1..(b - a) : Seg(S, a, b)[i] = S[a + i]
<1>1. Len(S) \in Nat /\ a + 1 \in Int /\ b \in Int /\ \A i \in (a + 1)..b : S[i] \in X
  BY LenProperties, ElementOfSeq
<1>2. /\ Seg(S, a, b) \in Seq(X)
      /\ Len(Seg(S, a, b)) = IF a + 1 <= b THEN b - (a + 1) + 1 ELSE 0
      /\ \A i \in 1..(b - (a + 1) + 1) : Seg(S, a, b)[i] = S[(a + 1) + i - 1]
  BY <1>1, SubSeqProperties, SMTT(60) DEF Seg
<1>3. Len(Seg(S, a, b)) = b - a
  BY <1>2
<1>4. \A i \in 1..(b - a) : Seg(S, a, b)[i] = S[a + i]
  BY <1>2, SMTT(60)
<1>5. QED
  BY <1>2, <1>3, <1>4

LEMMA SegJoin ==
    ASSUME NEW X, NEW S \in Seq(X), NEW a \in Nat, NEW b \in Nat, NEW c \in Nat,
           a <= b, b <= c, c <= Len(S)
    PROVE  Seg(S, a, b) \o Seg(S, b, c) = Seg(S, a, c)
<1>1. Len(S) \in Nat
  BY LenProperties
<1>2. a + 1 \in 1..(Len(S) + 1) /\ b \in ((a + 1) - 1)..Len(S) /\ c \in b..Len(S)
  BY <1>1
<1>3. QED
  BY <1>2, ConcatAdjacentSubSeq DEF Seg

\* A stretch is known by its length and its elements.
LEMMA SegIs ==
    ASSUME NEW X, NEW S \in Seq(X), NEW a \in Nat, NEW b \in Nat, a <= b, b <= Len(S),
           NEW t \in Seq(X), Len(t) = b - a, \A i \in 1..(b - a) : t[i] = S[a + i]
    PROVE  t = Seg(S, a, b)
<1>1. PICK u : u = Seg(S, a, b)
  OBVIOUS
<1>2. u \in Seq(X) /\ Len(u) = b - a /\ \A i \in 1..(b - a) : u[i] = S[a + i]
  BY <1>1, SegFacts, ZenonT(60)
<1>3. \A i \in 1..Len(t) : t[i] = u[i]
  BY <1>2
<1>4. t = u
  BY <1>2, <1>3, SeqEqual
<1>5. QED
  BY <1>1, <1>4

\* A stretch of t is one of S, if t is one.
LEMMA SegWithin ==
    ASSUME NEW X, NEW S \in Seq(X), NEW a \in Nat, NEW b \in Nat, a <= b, b <= Len(S),
           NEW t, t = Seg(S, a, b),
           NEW c \in Nat, NEW d \in Nat, c <= d, d <= b - a
    PROVE  Seg(t, c, d) = Seg(S, a + c, a + d)
<1>1. t \in Seq(X) /\ Len(t) = b - a
  BY SegFacts
<1>2. \A i \in 1..(b - a) : t[i] = S[a + i]
  BY SegFacts, ZenonT(60)
<1>3. Len(S) \in Nat
  BY LenProperties
<1>4. PICK u : u = Seg(t, c, d)
  OBVIOUS
<1>5. t \in Seq(X) /\ d <= Len(t)
  BY <1>1
<1>6. u \in Seq(X) /\ Len(u) = d - c /\ \A i \in 1..(d - c) : u[i] = t[c + i]
  <2>1. t \in Seq(X)
    BY <1>5
  <2>2. d <= Len(t)
    BY <1>5
  <2>3. QED
    BY ONLY <1>4, <2>1, <2>2, c \in Nat, d \in Nat, c <= d, SegFacts, ZenonT(60)
<1>7. PICK p \in Nat : p = a + c
  OBVIOUS
<1>8. PICK q \in Nat : q = a + d
  OBVIOUS
<1>9. p <= q /\ q <= Len(S) /\ q - p = d - c
  BY <1>3, <1>7, <1>8
<1>10. \A i \in 1..(d - c) : c + i \in 1..(b - a) /\ a + (c + i) = p + i
  BY <1>7
<1>11. \A i \in 1..(q - p) : u[i] = S[p + i]
  BY <1>2, <1>6, <1>9, <1>10
<1>12. u \in Seq(X) /\ Len(u) = q - p
  BY <1>6, <1>9
<1>13. u = Seg(S, p, q)
  BY ONLY S \in Seq(X), p \in Nat, q \in Nat, <1>9, <1>11, <1>12, SegIs
<1>14. QED
  BY <1>4, <1>7, <1>8, <1>13

LEMMA SegCut ==
    ASSUME NEW X, NEW S \in Seq(X), NEW a \in Nat, NEW b \in Nat, a <= b, b <= Len(S),
           NEW n \in Nat, n <= b - a
    PROVE  /\ Take(Seg(S, a, b), n) = Seg(S, a, a + n)
           /\ Drop(Seg(S, a, b), n) = Seg(S, a + n, b)
<1>1. PICK t : t = Seg(S, a, b)
  OBVIOUS
<1>2. Len(t) = b - a
  BY <1>1, SegFacts
<1>3. Take(t, n) = Seg(t, 0, n) /\ Drop(t, n) = Seg(t, n, b - a)
  BY <1>2 DEF Take, Drop, Seg
<1>4. Seg(t, 0, n) = Seg(S, a + 0, a + n)
  BY <1>1, SegWithin
<1>5. Seg(t, n, b - a) = Seg(S, a + n, a + (b - a))
  <2>1. b - a \in Nat
    OBVIOUS
  <2>2. QED
    BY <1>1, <2>1, SegWithin
<1>6. a + 0 = a /\ a + (b - a) = b
  OBVIOUS
<1>7. QED
  BY <1>1, <1>3, <1>4, <1>5, <1>6

----------------------------------------------------------------------------
(* The stream *)

Lengths == lens \in [1..Packets -> HeadSize..MaxLen]
Byte == Nat \X Nat

\* The first n packets, and what the peer writes.
First(n) == FlattenSeq([p \in 1..n |-> Packet(p)])
All == First(Packets)

\* The byte after b
After(b) == IF b[2] < lens[b[1]] THEN <<b[1], b[2] + 1>> ELSE <<b[1] + 1, 1>>

\* S holds the packets up to n, one after the other.
Laid(S, n) ==
    /\ S \in Seq(Byte)
    /\ n = 0 => Len(S) = 0
    /\ n # 0 => Len(S) # 0 /\ S[1] = <<1, 1>> /\ S[Len(S)] = <<n, lens[n]>>
    /\ \A k \in 1..Len(S) : S[k][1] \in 1..n /\ S[k][2] \in 1..lens[S[k][1]]
    /\ \A k \in 1..(Len(S) - 1) : S[k + 1] = After(S[k])

LEMMA PacketType ==
    ASSUME Lengths, NEW p \in 1..Packets
    PROVE  /\ lens[p] \in Nat /\ lens[p] >= HeadSize /\ lens[p] >= 1
           /\ Packet(p) \in Seq(Byte) /\ Len(Packet(p)) = lens[p]
           /\ \A i \in 1..lens[p] : Packet(p)[i] = <<p, i>>
<1>1. lens[p] \in Nat /\ lens[p] >= HeadSize /\ lens[p] >= 1
  BY TcpRecvAssumption DEF Lengths
<1>2. p \in Nat
  BY TcpRecvAssumption
<1>3. \A i \in 1..lens[p] : <<p, i>> \in Byte
  BY <1>1, <1>2 DEF Byte
<1>4. Packet(p) \in [1..lens[p] -> Byte]
  BY <1>3 DEF Packet
<1>5. Packet(p) \in Seq(Byte) /\ Len(Packet(p)) = lens[p]
  BY <1>1, <1>4, SeqDef, LenProperties
<1>6. QED
  BY <1>1, <1>5 DEF Packet

LEMMA PacketsUpTo ==
    ASSUME Lengths, NEW n \in 0..Packets
    PROVE  /\ [p \in 1..n |-> Packet(p)] \in Seq(Seq(Byte))
           /\ Len([p \in 1..n |-> Packet(p)]) = n
<1> DEFINE f == [p \in 1..n |-> Packet(p)]
<1>1. n \in Nat /\ \A p \in 1..n : p \in 1..Packets
  BY TcpRecvAssumption
<1>2. f \in [1..n -> Seq(Byte)]
  BY <1>1, PacketType
<1> HIDE DEF f
<1>3. f \in Seq(Seq(Byte)) /\ Len(f) = n
  BY <1>1, <1>2, SeqDef, LenProperties
<1>4. QED
  BY <1>3 DEF f

LEMMA OnePacketMore ==
    ASSUME Lengths, NEW n \in 1..Packets
    PROVE  [p \in 1..n |-> Packet(p)] = Append([p \in 1..(n - 1) |-> Packet(p)], Packet(n))
<1> DEFINE f == [p \in 1..n |-> Packet(p)]
           e == [p \in 1..(n - 1) |-> Packet(p)]
<1>1. n \in 0..Packets /\ n - 1 \in 0..Packets /\ n \in Nat
  BY TcpRecvAssumption
<1>2. /\ f \in Seq(Seq(Byte)) /\ Len(f) = n
      /\ e \in Seq(Seq(Byte)) /\ Len(e) = n - 1
  BY <1>1, PacketsUpTo
<1>3. Packet(n) \in Seq(Byte)
  BY PacketType
<1>4. /\ \A p \in 1..n : f[p] = Packet(p)
      /\ \A p \in 1..(n - 1) : e[p] = Packet(p)
  OBVIOUS
<1> HIDE DEF f, e
<1>5. PICK a : a = Append(e, Packet(n))
  OBVIOUS
<1>6. /\ a \in Seq(Seq(Byte)) /\ Len(a) = Len(e) + 1
      /\ \A i \in 1..Len(e) : a[i] = e[i]
      /\ a[Len(e) + 1] = Packet(n)
  BY <1>2, <1>3, <1>5, AppendProperties
<1>7. Len(a) = n /\ \A i \in 1..n : a[i] = f[i]
  <2>1. Len(a) = n /\ Len(e) + 1 = n /\ Len(e) = n - 1
    BY <1>1, <1>2, <1>6
  <2>2. ASSUME NEW i \in 1..n PROVE a[i] = f[i]
    <3>1. CASE i = n
      BY <1>4, <1>6, <2>1, <3>1
    <3>2. CASE i # n
      <4>1. i \in 1..(n - 1)
        BY <1>1, <3>2
      <4>2. QED
        BY <1>4, <1>6, <2>1, <4>1
    <3>3. QED
      BY <3>1, <3>2
  <2>3. QED
    BY <2>1, <2>2
<1>8. a = f
  BY <1>2, <1>6, <1>7, SeqEqual
<1>9. QED
  BY <1>5, <1>8 DEF e, f

\* One packet more
LEMMA FirstStep ==
    ASSUME Lengths, NEW n \in 1..Packets, First(n - 1) \in Seq(Byte)
    PROVE  First(n) = First(n - 1) \o Packet(n)
<1>1. n - 1 \in 0..Packets
  BY TcpRecvAssumption
<1>2. PICK e : e = [p \in 1..(n - 1) |-> Packet(p)]
  OBVIOUS
<1>3. e \in Seq(Seq(Byte)) /\ Packet(n) \in Seq(Byte)
  BY <1>1, <1>2, PacketsUpTo, PacketType
<1>4. FlattenSeq(e) = First(n - 1)
  BY <1>2 DEF First
<1>5. FlattenSeq(Append(e, Packet(n))) = FlattenSeq(e) \o Packet(n)
  BY <1>3, <1>4, FlatAppend
<1>6. First(n) = FlattenSeq(Append(e, Packet(n)))
  BY <1>2, OnePacketMore DEF First
<1>7. QED
  BY <1>4, <1>5, <1>6

LEMMA LaidStep ==
    ASSUME Lengths, NEW n \in 1..Packets, NEW S, Laid(S, n - 1)
    PROVE  Laid(S \o Packet(n), n)
<1> DEFINE P == Packet(n)
           k0 == Len(S)
           W == S \o P
<1>1. /\ lens[n] \in Nat /\ lens[n] >= 1 /\ P \in Seq(Byte) /\ Len(P) = lens[n]
      /\ \A i \in 1..lens[n] : P[i] = <<n, i>>
      /\ S \in Seq(Byte) /\ k0 \in Nat /\ n \in Nat
  BY PacketType, LenProperties, TcpRecvAssumption DEF Laid
<1>2. /\ W \in Seq(Byte) /\ Len(W) = k0 + Len(P)
      /\ \A i \in 1..k0 : W[i] = S[i]
      /\ \A i \in (k0 + 1)..(k0 + Len(P)) : W[i] = P[i - k0]
  BY <1>1, ConcatProperties, SMTT(60)
<1> HIDE DEF P, W
<1>3. /\ Len(W) = k0 + lens[n]
      /\ \A i \in (k0 + 1)..(k0 + lens[n]) : W[i] = <<n, i - k0>>
  <2>1. Len(P) = lens[n]
    BY <1>1
  <2>2. \A i \in (k0 + 1)..(k0 + lens[n]) : i - k0 \in 1..lens[n]
    BY <1>1
  <2>3. \A i \in (k0 + 1)..(k0 + lens[n]) : W[i] = P[i - k0]
    BY <1>2, <2>1
  <2>4. QED
    BY <1>1, <1>2, <2>1, <2>2, <2>3
<1>4. /\ n = 1 => k0 = 0
      /\ n # 1 => k0 # 0 /\ S[1] = <<1, 1>> /\ S[k0] = <<n - 1, lens[n - 1]>>
      /\ \A k \in 1..k0 : S[k][1] \in 1..(n - 1) /\ S[k][2] \in 1..lens[S[k][1]]
      /\ \A k \in 1..(k0 - 1) : S[k + 1] = After(S[k])
  BY <1>1, SMTT(60) DEF Laid
<1>5. W[1] = <<1, 1>> /\ W[Len(W)] = <<n, lens[n]>> /\ Len(W) # 0
  <2>1. CASE n = 1
    <3>1. 1 \in (k0 + 1)..(k0 + lens[n]) /\ 1 - k0 = 1
      BY <1>1, <1>4, <2>1
    <3>2. W[1] = <<1, 1>>
      BY <1>3, <2>1, <3>1
    <3>3. Len(W) \in (k0 + 1)..(k0 + lens[n]) /\ Len(W) - k0 = lens[n]
      BY <1>1, <1>3
    <3>4. QED
      BY <1>3, <3>2, <3>3
  <2>2. CASE n # 1
    <3>1. 1 \in 1..k0
      BY <1>1, <1>4, <2>2
    <3>2. W[1] = <<1, 1>>
      BY <1>2, <1>4, <2>2, <3>1
    <3>3. Len(W) \in (k0 + 1)..(k0 + lens[n]) /\ Len(W) - k0 = lens[n]
      BY <1>1, <1>3
    <3>4. QED
      BY <1>3, <3>2, <3>3
  <2>3. QED
    BY <2>1, <2>2
<1>6. ASSUME NEW k \in 1..Len(W)
      PROVE  W[k][1] \in 1..n /\ W[k][2] \in 1..lens[W[k][1]]
  <2>1. CASE k <= k0
    <3>1. k \in 1..k0 /\ W[k] = S[k]
      BY <1>1, <1>2, <2>1
    <3>2. W[k][1] \in 1..(n - 1) /\ W[k][2] \in 1..lens[W[k][1]]
      BY <1>4, <3>1
    <3>3. QED
      BY <1>1, <3>2
  <2>2. CASE ~(k <= k0)
    <3>1. k \in (k0 + 1)..(k0 + lens[n]) /\ k - k0 \in 1..lens[n]
      BY <1>1, <1>3, <2>2
    <3>2. W[k] = <<n, k - k0>>
      BY <1>3, <3>1
    <3>3. QED
      BY <1>1, <3>1, <3>2
  <2>3. QED
    BY <2>1, <2>2
<1>7. ASSUME NEW k \in 1..(Len(W) - 1)
      PROVE  W[k + 1] = After(W[k])
  <2>1. CASE k < k0
    <3>1. k \in 1..(k0 - 1) /\ k \in 1..k0 /\ k + 1 \in 1..k0
      BY <1>1, <2>1
    <3>2. W[k + 1] = S[k + 1] /\ W[k] = S[k]
      BY <1>2, <3>1
    <3>3. QED
      BY <1>4, <3>1, <3>2
  <2>2. CASE k = k0
    <3>1. n # 1 /\ k \in 1..k0
      BY <1>4, <2>2
    <3>2. W[k] = <<n - 1, lens[n - 1]>>
      BY <1>2, <1>4, <2>2, <3>1
    <3>3. k + 1 \in (k0 + 1)..(k0 + lens[n]) /\ (k + 1) - k0 = 1
      BY <1>1, <2>2
    <3>4. W[k + 1] = <<n, 1>>
      BY <1>3, <3>3
    <3>5. n - 1 \in 1..Packets
      BY <1>1, <3>1, TcpRecvAssumption
    <3>6. lens[n - 1] \in Nat
      BY <3>5, PacketType
    <3>7. ~(lens[n - 1] < lens[n - 1]) /\ (n - 1) + 1 = n
      BY <1>1, <3>6
    <3>8. QED
      BY <3>2, <3>4, <3>7 DEF After
  <2>3. CASE k > k0
    <3>1. /\ k \in (k0 + 1)..(k0 + lens[n]) /\ k + 1 \in (k0 + 1)..(k0 + lens[n])
          /\ k - k0 < lens[n] /\ (k + 1) - k0 = (k - k0) + 1
      <4>1. PICK N \in Nat : N = lens[n]
        BY <1>1
      <4>2. k \in 1..(k0 + N - 1) /\ k0 \in Nat
        BY <1>1, <1>3, <4>1
      <4>3. /\ k \in (k0 + 1)..(k0 + N) /\ k + 1 \in (k0 + 1)..(k0 + N)
            /\ k - k0 < N /\ (k + 1) - k0 = (k - k0) + 1
        BY <2>3, <4>2
      <4>4. QED
        BY <4>1, <4>3
    <3>2. W[k] = <<n, k - k0>> /\ W[k + 1] = <<n, (k - k0) + 1>>
      BY <1>3, <3>1
    <3>3. QED
      BY <3>1, <3>2 DEF After
  <2>4. QED
    BY <1>1, <2>1, <2>2, <2>3
<1>8. Laid(W, n)
  <2>1. n # 0
    BY <1>1
  <2>2. QED
    BY <1>2, <1>5, <1>6, <1>7, <2>1 DEF Laid
<1>9. QED
  BY <1>8 DEF W, P

LEMMA FirstLaid ==
    ASSUME Lengths
    PROVE  \A n \in 0..Packets : Laid(First(n), n)
<1> DEFINE T == {n \in 0..Packets : Laid(First(n), n)}
<1>1. 0 \in T
  <2>1. 1..0 = {} /\ 0 \in 0..Packets
    BY TcpRecvAssumption
  <2>2. [p \in 1..0 |-> Packet(p)] \in Seq(Seq(Byte)) /\ Len([p \in 1..0 |-> Packet(p)]) = 0
    BY <2>1, PacketsUpTo
  <2>3. First(0) = <<>>
    BY <2>2, FlatEmpty, EmptySeq DEF First
  <2>4. Laid(<<>>, 0)
    <3>1. <<>> \in Seq(Byte) /\ Len(<<>>) = 0 /\ 1..0 = {} /\ 1..(0 - 1) = {}
      BY <2>1
    <3>2. QED
      BY <3>1 DEF Laid
  <2>5. QED
    BY <2>1, <2>3, <2>4
<1>2. ASSUME NEW n \in 1..Packets, n - 1 \in T PROVE n \in T
  <2>1. Laid(First(n - 1), n - 1) /\ n \in 0..Packets
    BY <1>2, TcpRecvAssumption
  <2>2. First(n) = First(n - 1) \o Packet(n)
    BY <2>1, FirstStep DEF Laid
  <2>3. Laid(First(n), n)
    BY <2>1, <2>2, LaidStep
  <2>4. QED
    BY <2>1, <2>3
<1>3. \A n \in 0..Packets : n \in T
  <2> HIDE DEF T
  <2>1. QED
    BY <1>1, <1>2, UpTo, TcpRecvAssumption
<1>4. QED
  BY <1>3

\* The stream, and its length
LEMMA AllFacts ==
    ASSUME Lengths
    PROVE  /\ All \in Seq(Byte) /\ Len(All) \in Nat
           /\ Packets = 0 => Len(All) = 0
           /\ Packets # 0 => Len(All) # 0 /\ All[1] = <<1, 1>>
                             /\ All[Len(All)] = <<Packets, lens[Packets]>>
           /\ \A k \in 1..Len(All) :
                 /\ All[k][1] \in 1..Packets
                 /\ All[k][2] \in 1..lens[All[k][1]]
           /\ \A k \in 1..(Len(All) - 1) : All[k + 1] = After(All[k])
<1>1. Laid(First(Packets), Packets)
  BY FirstLaid, TcpRecvAssumption
<1>2. QED
  BY <1>1, LenProperties DEF Laid, All

\* Packet p is what follows the first i bytes.
Starts(i, p) ==
    IF p > Packets THEN i = Len(All) ELSE i < Len(All) /\ All[i + 1] = <<p, 1>>

\* Where a packet begins it is whole, and the next begins where it ends.
LEMMA PacketAt ==
    ASSUME Lengths, NEW p \in 1..Packets, NEW i \in Nat, Starts(i, p)
    PROVE  /\ i + lens[p] <= Len(All)
           /\ \A j \in 1..lens[p] : All[i + j] = <<p, j>>
           /\ Starts(i + lens[p], p + 1)
<1> DEFINE L == Len(All)
           T == {j \in 0..lens[p] : j # 0 => i + j <= L /\ All[i + j] = <<p, j>>}
<1>1. /\ L \in Nat /\ Packets # 0
      /\ All[L] = <<Packets, lens[Packets]>>
      /\ \A k \in 1..L : All[k][1] \in 1..Packets
      /\ \A k \in 1..(L - 1) : All[k + 1] = After(All[k])
  BY AllFacts
<1>2. lens[p] \in Nat /\ lens[p] >= 1 /\ p \in Nat /\ p <= Packets /\ Packets \in Nat
  BY PacketType, TcpRecvAssumption
<1>3. i < L /\ All[i + 1] = <<p, 1>>
  BY <1>2 DEF Starts
<1> HIDE DEF L
<1>4. ASSUME NEW j \in 1..lens[p], j - 1 \in T PROVE j \in T
  <2>1. CASE j = 1
    BY <1>1, <1>2, <1>3, <2>1
  <2>2. CASE j # 1
    <3>1. /\ i + (j - 1) <= L /\ All[i + (j - 1)] = <<p, j - 1>>
          /\ j - 1 < lens[p] /\ (j - 1) + 1 = j /\ i + (j - 1) >= 1
      BY <1>2, <1>4, <2>2
    <3>2. i + (j - 1) # L
      <4>1. ASSUME i + (j - 1) = L PROVE FALSE
        <5>1. <<p, j - 1>> = <<Packets, lens[Packets]>>
          BY <1>1, <3>1, <4>1
        <5>2. p = Packets /\ j - 1 = lens[p]
          BY <5>1
        <5>3. QED
          BY <1>2, <3>1, <5>2
      <4>2. QED
        BY <4>1
    <3>3. PICK k \in 1..(L - 1) : k = i + (j - 1)
      BY <1>1, <3>1, <3>2
    <3>4. All[k + 1] = After(<<p, j - 1>>)
      BY <1>1, <3>1, <3>3
    <3>5. After(<<p, j - 1>>) = <<p, j>>
      BY <3>1 DEF After
    <3>6. k + 1 = i + j /\ i + j <= L /\ j \in 0..lens[p]
      BY <1>1, <1>2, <3>3
    <3>7. QED
      BY <3>4, <3>5, <3>6
  <2>3. QED
    BY <2>1, <2>2
<1>5. \A j \in 0..lens[p] : j \in T
  <2>1. 0 \in T
    BY <1>2
  <2> HIDE DEF T
  <2>2. QED
    BY <1>2, <1>4, <2>1, UpTo
<1>6. \A j \in 1..lens[p] : i + j <= L /\ All[i + j] = <<p, j>>
  BY <1>2, <1>5
<1> HIDE DEF T
<1>7. PICK e \in Nat : e = i + lens[p]
  BY <1>2
<1>8. e <= L /\ e >= 1 /\ All[e] = <<p, lens[p]>>
  BY <1>2, <1>6, <1>7
<1>9. Starts(e, p + 1)
  <2>1. CASE e = L
    <3>1. <<p, lens[p]>> = <<Packets, lens[Packets]>>
      BY <1>1, <1>8, <2>1
    <3>2. p = Packets
      BY <3>1
    <3>3. QED
      BY <1>2, <2>1, <3>2 DEF Starts, L
  <2>2. CASE e # L
    <3>1. e \in 1..(L - 1) /\ e + 1 \in 1..L
      BY <1>1, <1>8, <2>2
    <3>2. All[e + 1] = After(<<p, lens[p]>>)
      BY <1>1, <1>8, <3>1
    <3>3. After(<<p, lens[p]>>) = <<p + 1, 1>>
      BY <1>2 DEF After
    <3>4. All[e + 1][1] \in 1..Packets
      BY <1>1, <3>1
    <3>5. p + 1 \in 1..Packets
      BY <3>2, <3>3, <3>4
    <3>6. ~(p + 1 > Packets) /\ e < L
      BY <1>1, <1>2, <1>8, <2>2, <3>5
    <3>7. QED
      BY <3>2, <3>3, <3>6 DEF Starts, L
  <2>3. QED
    BY <2>1, <2>2
<1>10. QED
  BY <1>6, <1>7, <1>8, <1>9 DEF L

\* The packets follow each other.
LEMMA InTurn ==
    ASSUME Lengths, NEW k \in 1..Len(All), NEW m \in 1..Len(All), k <= m
    PROVE  All[k][1] <= All[m][1]
<1> DEFINE L == Len(All)
           T == {j \in 0..(L - k) : All[k][1] <= All[k + j][1]}
<1>1. /\ L \in Nat
      /\ \A a \in 1..L : All[a][1] \in Nat
      /\ \A a \in 1..(L - 1) : All[a + 1] = After(All[a])
  BY AllFacts, TcpRecvAssumption
<1>2. k \in 1..L /\ m \in 1..L /\ k <= m
  OBVIOUS
<1> HIDE DEF L
<1>3. L - k \in Nat /\ k + 0 = k /\ All[k][1] <= All[k][1] /\ m - k \in 0..(L - k)
      /\ k + (m - k) = m
  <2>1. All[k][1] \in Nat
    BY <1>1, <1>2
  <2>2. L \in Nat /\ k \in 1..L /\ m \in 1..L
    BY <1>1, <1>2
  <2>3. L - k \in Nat /\ k + 0 = k /\ m - k \in 0..(L - k) /\ k + (m - k) = m
    BY <1>2, <2>2
  <2>4. QED
    BY <2>1, <2>3
<1>4. ASSUME NEW j \in 1..(L - k), j - 1 \in T PROVE j \in T
  <2>1. PICK a \in 1..(L - 1) : a = k + (j - 1)
    BY <1>1, <1>2
  <2>2. a + 1 = k + j /\ a \in 1..L /\ a + 1 \in 1..L
    BY <1>1, <1>2, <2>1
  <2>3. All[a][1] <= All[a + 1][1]
    <3>1. All[a + 1][1] = All[a][1] \/ All[a + 1][1] = All[a][1] + 1
      <4>1. All[a + 1] = After(All[a])
        BY <1>1
      <4>2. PICK b : b = All[a]
        OBVIOUS
      <4>3. After(b)[1] = b[1] \/ After(b)[1] = b[1] + 1
        BY DEF After
      <4>4. QED
        BY <4>1, <4>2, <4>3
    <3>2. All[a][1] \in Nat
      BY <1>1, <2>2
    <3>3. QED
      BY <3>1, <3>2
  <2>4. All[k][1] <= All[a][1]
    BY <1>4, <2>1
  <2>5. All[k][1] \in Nat /\ All[a][1] \in Nat /\ All[a + 1][1] \in Nat
    BY <1>1, <1>2, <2>2
  <2>6. All[k][1] <= All[k + j][1]
    BY <2>2, <2>3, <2>4, <2>5, SMTT(60)
  <2>7. QED
    BY <1>1, <2>6
<1>5. \A j \in 0..(L - k) : j \in T
  <2>1. 0 \in T
    BY <1>3
  <2> HIDE DEF T
  <2>2. QED
    BY <1>3, <1>4, <2>1, UpTo
<1>6. QED
  BY <1>3, <1>5

\* Every packet is somewhere.
LEMMA Everywhere ==
    ASSUME Lengths
    PROVE  /\ Starts(0, 1)
           /\ \A p \in 1..Packets : \E i \in Nat : Starts(i, p)
<1> DEFINE T == {p \in 0..Packets : \E i \in Nat : Starts(i, p + 1)}
<1>1. Packets \in Nat
  BY TcpRecvAssumption
<1>2. Starts(0, 1)
  <2>1. CASE Packets = 0
    BY <2>1, AllFacts DEF Starts
  <2>2. CASE Packets # 0
    <3>1. Len(All) \in Nat /\ Len(All) # 0 /\ All[1] = <<1, 1>>
      BY <2>2, AllFacts
    <3>2. ~(1 > Packets) /\ 0 < Len(All) /\ 0 + 1 = 1
      BY <1>1, <2>2, <3>1
    <3>3. QED
      BY <3>1, <3>2 DEF Starts
  <2>3. QED
    BY <2>1, <2>2
<1>3. ASSUME NEW p \in 1..Packets, p - 1 \in T PROVE p \in T
  <2>1. (p - 1) + 1 = p /\ p \in 0..Packets
    BY <1>1
  <2>2. PICK i \in Nat : Starts(i, p)
    BY <1>3, <2>1
  <2>3. Starts(i + lens[p], p + 1) /\ i + lens[p] \in Nat
    BY <2>2, PacketAt, PacketType
  <2>4. QED
    BY <2>1, <2>3
<1>4. \A p \in 0..Packets : p \in T
  <2>1. 0 \in T
    BY <1>1, <1>2
  <2> HIDE DEF T
  <2>2. QED
    BY <1>1, <1>3, <2>1, UpTo
<1>5. ASSUME NEW p \in 1..Packets PROVE \E i \in Nat : Starts(i, p)
  <2>1. p - 1 \in 0..Packets /\ (p - 1) + 1 = p
    BY <1>1
  <2>2. QED
    BY <1>4, <2>1
<1>6. QED
  BY <1>2, <1>5

----------------------------------------------------------------------------
(* The buffers *)

\* The packet that is to be delivered next
Upcoming == Len(got) + 1

\* The packets delivered, m_RecvBuffer, what is being processed, what the kernel
\* holds and what is still to be written are the stretches of the stream up to
\* s, h, r, w and the end, and the second begins where a packet does.
Placed(s, h, r, w) ==
    /\ s <= h /\ h <= r /\ r <= w /\ w <= Len(All)
    /\ FlattenSeq(got) = Seg(All, 0, s)
    /\ half = Seg(All, s, h) /\ rest = Seg(All, h, r)
    /\ wire = Seg(All, r, w) /\ out = Seg(All, w, Len(All))
    /\ Starts(s, Upcoming)

\* Between two calls there is at most a part of a packet, in a buffer as long as
\* its head or as the packet.
Waits(s, h, r) ==
    /\ pc \in {"idle", "recv"} /\ h = r /\ ret = 0
    /\ \/ halfLen = 0 /\ h = s
       \/ /\ s < h /\ Upcoming <= Packets /\ h - s < lens[Upcoming]
          /\ h - s <= halfLen /\ halfLen \in {HeadSize, lens[Upcoming]}

\* In the loop there is a whole packet, at the front of what recv has returned or
\* in m_RecvBuffer, which then holds nothing else.
Works(s, h, r) ==
    /\ pc = "process" /\ Upcoming <= Packets
    /\ ret = r - s /\ lens[Upcoming] <= ret
    /\ \/ halfLen = 0 /\ h = s
       \/ halfLen = lens[Upcoming] /\ h - s = lens[Upcoming]

Delivered == Len(got) \in 0..Packets /\ got = [k \in 1..Len(got) |-> Packet(k)]
Linked == link \in {"open", "ended", "broken"} /\ (link # "open" => pc = "idle")

IInv ==
    /\ Lengths /\ Delivered /\ Linked
    /\ \E s, h, r, w \in Nat : Placed(s, h, r, w) /\ (Waits(s, h, r) \/ Works(s, h, r))

\* Where a packet begins, processLength finds its length as soon as the head is
\* there, and never an error.
LEMMA HeadFound ==
    ASSUME Lengths, NEW p \in 1..Packets, NEW s \in Nat, Starts(s, p),
           NEW a \in Nat, s <= a, a <= Len(All),
           NEW n \in Nat, n >= HeadSize => a - s >= HeadSize
    PROVE  ProcessLength(Seg(All, s, a), n) = IF n < HeadSize THEN HeadSize ELSE lens[p]
<1>1. PICK b : b = Seg(All, s, a)
  OBVIOUS
<1>2. All \in Seq(Byte)
  BY AllFacts
<1>3. Len(b) = a - s /\ \A i \in 1..(a - s) : b[i] = All[s + i]
  BY <1>1, <1>2, SegFacts, ZenonT(60)
<1>4. /\ lens[p] \in Nat /\ lens[p] >= HeadSize /\ HeadSize \in Nat /\ HeadSize >= 1
      /\ \A i \in 1..lens[p] : All[s + i] = <<p, i>>
  BY PacketType, PacketAt, TcpRecvAssumption
<1>5. CASE n < HeadSize
  BY <1>1, <1>5 DEF ProcessLength
<1>6. CASE ~(n < HeadSize)
  <2>1. a - s >= HeadSize /\ a - s \in Nat
    BY <1>4, <1>6
  <2>2. \A i \in 1..HeadSize : i \in 1..(a - s) /\ i \in 1..lens[p]
    BY <1>4, <2>1
  <2>3. \A i \in 1..HeadSize : b[i] = <<p, i>>
    BY <1>3, <1>4, <2>2
  <2>4. b[1] = <<p, 1>>
    BY <1>4, <2>3
  <2>5. b[1][1] = p
    BY <2>4
  <2>6. IsHead(b)
    BY <1>3, <2>1, <2>3, <2>5 DEF IsHead
  <2>7. QED
    BY <1>1, <1>6, <2>5, <2>6 DEF ProcessLength
<1>7. QED
  BY <1>5, <1>6

LEMMA SegNone ==
    ASSUME Lengths, NEW a \in Nat, a <= Len(All)
    PROVE  Seg(All, a, a) = <<>>
<1>1. All \in Seq(Byte)
  BY AllFacts
<1>2. PICK u : u = Seg(All, a, a)
  OBVIOUS
<1>3. u \in Seq(Byte) /\ Len(u) = a - a
  BY <1>1, <1>2, SegFacts
<1>4. u = <<>>
  BY <1>3, EmptySeq
<1>5. QED
  BY <1>2, <1>4

\* The stretch of a packet is the packet.
LEMMA SegPacket ==
    ASSUME Lengths, NEW p \in 1..Packets, NEW s \in Nat, Starts(s, p)
    PROVE  Seg(All, s, s + lens[p]) = Packet(p)
<1>1. All \in Seq(Byte)
  BY AllFacts
<1>2. /\ lens[p] \in Nat /\ Packet(p) \in Seq(Byte) /\ Len(Packet(p)) = lens[p]
      /\ \A i \in 1..lens[p] : Packet(p)[i] = <<p, i>>
  BY PacketType
<1>3. s + lens[p] <= Len(All) /\ \A i \in 1..lens[p] : All[s + i] = <<p, i>>
  BY PacketAt
<1>4. PICK e \in Nat : e = s + lens[p]
  BY <1>2
<1>5. s <= e /\ e <= Len(All) /\ e - s = lens[p]
  BY <1>2, <1>3, <1>4
<1>6. PICK t : t = Packet(p)
  OBVIOUS
<1>7. t \in Seq(Byte) /\ Len(t) = e - s /\ \A i \in 1..(e - s) : t[i] = All[s + i]
  BY <1>2, <1>3, <1>5, <1>6
<1>8. t = Seg(All, s, e)
  BY ONLY <1>1, s \in Nat, e \in Nat, <1>5, <1>7, SegIs
<1>9. QED
  BY <1>4, <1>6, <1>8

\* Stretches of the stream
LEMMA AllSeg ==
    ASSUME Lengths, NEW a \in Nat, NEW b \in Nat, a <= b, b <= Len(All)
    PROVE  Seg(All, a, b) \in Seq(Byte) /\ Len(Seg(All, a, b)) = b - a
<1>1. All \in Seq(Byte)
  BY AllFacts
<1>2. QED
  BY <1>1, SegFacts

LEMMA AllJoin ==
    ASSUME Lengths, NEW a \in Nat, NEW b \in Nat, NEW c \in Nat,
           a <= b, b <= c, c <= Len(All)
    PROVE  Seg(All, a, b) \o Seg(All, b, c) = Seg(All, a, c)
<1>1. All \in Seq(Byte)
  BY AllFacts
<1>2. QED
  BY <1>1, SegJoin

LEMMA AllCut ==
    ASSUME Lengths, NEW a \in Nat, NEW b \in Nat, NEW c \in Nat, a <= b, b <= c, c <= Len(All)
    PROVE  /\ Take(Seg(All, a, c), b - a) = Seg(All, a, b)
           /\ Drop(Seg(All, a, c), b - a) = Seg(All, b, c)
<1>1. All \in Seq(Byte) /\ Len(All) \in Nat
  BY AllFacts
<1>2. PICK n \in Nat : n = b - a
  OBVIOUS
<1>3. n <= c - a /\ a <= c /\ a + n = b
  BY <1>2
<1>4. /\ Take(Seg(All, a, c), n) = Seg(All, a, a + n)
      /\ Drop(Seg(All, a, c), n) = Seg(All, a + n, c)
  BY <1>1, <1>3, SegCut
<1>5. QED
  BY <1>2, <1>3, <1>4

LEMMA PlacedFacts ==
    ASSUME Lengths, Delivered, NEW s \in Nat, NEW h \in Nat, NEW r \in Nat, NEW w \in Nat,
           Placed(s, h, r, w)
    PROVE  /\ All \in Seq(Byte) /\ Len(All) \in Nat
           /\ s <= h /\ h <= r /\ r <= w /\ w <= Len(All)
           /\ s <= r /\ s <= w /\ h <= w /\ h <= Len(All) /\ r <= Len(All) /\ s <= Len(All)
           /\ Len(half) = h - s /\ Len(rest) = r - h
           /\ Len(wire) = w - r /\ Len(out) = Len(All) - w
           /\ Upcoming \in 1..(Packets + 1)
           /\ s < Len(All) => Upcoming \in 1..Packets
<1>1. All \in Seq(Byte) /\ Len(All) \in Nat
  BY AllFacts
<1>2. /\ s <= h /\ h <= r /\ r <= w /\ w <= Len(All)
      /\ half = Seg(All, s, h) /\ rest = Seg(All, h, r)
      /\ wire = Seg(All, r, w) /\ out = Seg(All, w, Len(All))
      /\ Starts(s, Upcoming)
  BY DEF Placed
<1>3. s <= r /\ s <= w /\ h <= w /\ h <= Len(All) /\ r <= Len(All) /\ s <= Len(All)
  BY <1>1, <1>2
<1>4. Len(half) = h - s /\ Len(rest) = r - h /\ Len(wire) = w - r
  BY <1>1, <1>2, <1>3, AllSeg
<1>5. Len(out) = Len(All) - w
  <2>1. Len(All) <= Len(All)
    BY <1>1
  <2>2. QED
    BY <1>1, <1>2, <2>1, AllSeg
<1>6. Upcoming \in 1..(Packets + 1)
  BY TcpRecvAssumption DEF Delivered, Upcoming
<1>7. s < Len(All) => Upcoming \in 1..Packets
  <2>1. ASSUME s < Len(All), Upcoming > Packets PROVE FALSE
    BY <1>1, <1>2, <2>1 DEF Starts
  <2>2. QED
    BY <1>6, <2>1, TcpRecvAssumption
<1>8. QED
  BY <1>1, <1>2, <1>3, <1>4, <1>5, <1>6, <1>7

LEMMA InitIInv == Init => IInv
<1>1. SUFFICES ASSUME Init PROVE IInv
  OBVIOUS
<1>2. Lengths
  BY <1>1 DEF Init, Lengths
<1>3. /\ got = <<>> /\ half = <<>> /\ rest = <<>> /\ wire = <<>> /\ out = All
      /\ halfLen = 0 /\ ret = 0 /\ pc = "idle" /\ link = "open"
  BY <1>1 DEF Init, All, First
<1>4. All \in Seq(Byte) /\ Len(All) \in Nat
  BY <1>2, AllFacts
<1>5. Len(got) = 0
  BY <1>3
<1>6. Delivered
  <2>1. 0 \in 0..Packets
    BY TcpRecvAssumption
  <2>2. [k \in 1..0 |-> Packet(k)] \in Seq(Seq(Byte)) /\ Len([k \in 1..0 |-> Packet(k)]) = 0
    BY <1>2, <2>1, PacketsUpTo
  <2>3. [k \in 1..0 |-> Packet(k)] = <<>>
    BY <2>2, EmptySeq
  <2>4. QED
    BY <1>3, <1>5, <2>1, <2>3 DEF Delivered
<1>7. Placed(0, 0, 0, 0)
  <2>1. 0 \in Nat /\ 0 <= 0 /\ 0 <= Len(All) /\ 0 + 1 = 1
    BY <1>4
  <2>2. Seg(All, 0, 0) = <<>>
    BY <1>2, <2>1, SegNone
  <2>3. Seg(All, 0, Len(All)) = All
    BY <1>4, <2>1, SubSeqFull DEF Seg
  <2>4. Starts(0, Upcoming)
    BY <1>2, <1>5, <2>1, Everywhere DEF Upcoming
  <2>5. FlattenSeq(got) = <<>>
    BY <1>3, FlatEmpty
  <2>6. QED
    BY <1>3, <2>1, <2>2, <2>3, <2>4, <2>5 DEF Placed
<1>8. Waits(0, 0, 0)
  BY <1>3 DEF Waits
<1>9. Linked
  BY <1>3 DEF Linked
<1>10. QED
  BY <1>2, <1>6, <1>7, <1>8, <1>9 DEF IInv

\* The packets delivered stay what they are as long as no length changes.
LEMMA SameStream ==
    ASSUME Lengths, lens' = lens
    PROVE  /\ Lengths' /\ All' = All
           /\ got' = got => Upcoming' = Upcoming /\ (Delivered => Delivered')
           /\ \A s, p : Starts(s, p)' <=> Starts(s, p)
<1>1. Lengths'
  BY DEF Lengths
<1>2. \A n : First(n)' = First(n)
  BY DEF First, Packet
<1>3. All' = All
  BY <1>2 DEF All
<1>4. \A s, p : Starts(s, p)' <=> Starts(s, p)
  BY <1>3 DEF Starts
<1>5. got' = got => Upcoming' = Upcoming /\ (Delivered => Delivered')
  BY DEF Upcoming, Delivered, Packet
<1>6. QED
  BY <1>1, <1>3, <1>4, <1>5

\* What the peer and the kernel do, the poller's turn, and an empty recv.
LEMMA OutsideStep ==
    ASSUME IInv, PeerWrites \/ PeerCloses \/ Breaks \/ Poll \/ RecvNothing \/ UNCHANGED vars
    PROVE  IInv'
<1>1. /\ lens' = lens /\ got' = got /\ half' = half /\ halfLen' = halfLen /\ rest' = rest
      /\ ret' = ret
  BY DEF PeerWrites, PeerCloses, Breaks, Poll, RecvNothing, vars, peer, bufs
<1>2. Lengths /\ Delivered /\ Linked
  BY DEF IInv
<1>3. /\ Lengths' /\ All' = All /\ Upcoming' = Upcoming /\ Delivered'
      /\ \A s, p : Starts(s, p)' <=> Starts(s, p)
  BY <1>1, <1>2, SameStream
<1>4. PICK s \in Nat, h \in Nat, r \in Nat, w \in Nat :
          Placed(s, h, r, w) /\ (Waits(s, h, r) \/ Works(s, h, r))
  BY DEF IInv
<1>5. Linked'
  BY <1>2, <1>4 DEF Linked, PeerWrites, PeerCloses, Breaks, Poll, RecvNothing, vars, peer
<1>6. (Waits(s, h, r) \/ Works(s, h, r))'
  <2>1. pc' = pc \/ (pc \in {"idle", "recv"} /\ pc' \in {"idle", "recv"})
    BY DEF PeerWrites, PeerCloses, Breaks, Poll, RecvNothing, vars
  <2>2. QED
    BY <1>1, <1>3, <1>4, <2>1 DEF Waits, Works
<1>7. /\ All \in Seq(Byte) /\ Len(All) \in Nat
      /\ r <= w /\ w <= Len(All) /\ Len(out) = Len(All) - w
      /\ wire = Seg(All, r, w) /\ out = Seg(All, w, Len(All))
  BY <1>2, <1>4, PlacedFacts DEF Placed
<1>8. CASE PeerWrites
  <2>1. PICK n \in 1..Len(out) : wire' = wire \o Take(out, n) /\ out' = Drop(out, n)
    BY <1>8 DEF PeerWrites
  <2>2. PICK v \in Nat : v = w + n
    BY <1>7
  <2>3. n = v - w /\ Len(All) <= Len(All) /\ w <= v /\ v <= Len(All)
    BY <1>7, <2>2
  <2>4. Take(out, n) = Seg(All, w, v) /\ Drop(out, n) = Seg(All, v, Len(All))
    BY <1>2, <1>7, <2>3, AllCut, SMTT(60)
  <2>5. wire' = Seg(All, r, v)
    <3>1. Seg(All, r, w) \o Seg(All, w, v) = Seg(All, r, v)
      BY <1>2, <1>7, <2>3, AllJoin
    <3>2. QED
      BY <1>7, <2>1, <2>4, <3>1
  <2>6. r <= v
    BY <1>7, <2>3
  <2>7. Placed(s, h, r, v)'
    BY <1>1, <1>3, <1>4, <2>1, <2>3, <2>4, <2>5, <2>6 DEF Placed
  <2>8. QED
    BY <1>3, <1>5, <1>6, <2>7 DEF IInv
<1>9. CASE ~PeerWrites
  <2>1. wire' = wire /\ out' = out
    BY <1>9 DEF PeerCloses, Breaks, Poll, RecvNothing, vars, peer
  <2>2. Placed(s, h, r, w)'
    BY <1>1, <1>3, <1>4, <2>1 DEF Placed
  <2>3. QED
    BY <1>3, <1>5, <1>6, <2>2 DEF IInv
<1>10. QED
  BY <1>8, <1>9

\* What recv leaves of the bytes from s to e, when the packet there is l long.
Received(s, h, e, l) ==
    /\ s <= h /\ h <= e /\ half' = Seg(All, s, h) /\ rest' = Seg(All, h, e)
    /\ \/ /\ ret' = 0 /\ h = e /\ s < h /\ h - s < l
          /\ h - s <= halfLen' /\ halfLen' \in {HeadSize, l}
       \/ /\ ret' = e - s /\ l <= e - s
          /\ \/ halfLen' = 0 /\ h = s
             \/ halfLen' = l /\ h - s = l

LEMMA FreshReceived ==
    ASSUME Lengths, NEW p \in 1..Packets, NEW s \in Nat, Starts(s, p),
           NEW e \in Nat, s < e, e <= Len(All),
           NEW chunk, chunk = Seg(All, s, e), Fresh(chunk)
    PROVE  \E h \in Nat : Received(s, h, e, lens[p])
<1>1. PICK l \in Nat : l = lens[p] /\ l >= HeadSize
  BY PacketType
<1>2. PICK n \in Nat : n = e - s
  OBVIOUS
<1>3. Len(chunk) = n /\ s <= e /\ n >= 1
  <2>1. s <= e
    OBVIOUS
  <2>2. Len(chunk) = e - s
    BY <2>1, AllSeg
  <2>3. QED
    BY <1>2, <2>1, <2>2
<1>4. PICK want : want = ProcessLength(chunk, n)
  OBVIOUS
<1>5. want = IF n < HeadSize THEN HeadSize ELSE l
  <2>1. n >= HeadSize => e - s >= HeadSize
    BY <1>2
  <2>2. QED
    BY <1>1, <1>3, <1>4, <2>1, HeadFound
<1>6. Seg(All, s, s) = <<>> /\ Seg(All, e, e) = <<>>
  <2>1. s <= Len(All)
    BY AllFacts
  <2>2. QED
    BY <2>1, SegNone
<1>7. HeadSize \in Nat
  BY TcpRecvAssumption
<1>8. CASE n < want
  <2>1. half' = chunk /\ halfLen' = want /\ rest' = <<>> /\ ret' = 0
    BY <1>3, <1>4, <1>8 DEF Fresh, Buffers
  <2>2. n < l /\ n <= want /\ want \in {HeadSize, l}
    BY <1>1, <1>5, <1>7, <1>8
  <2>3. Received(s, e, e, l)
    BY <1>2, <1>3, <1>6, <2>1, <2>2 DEF Received
  <2>4. QED
    BY <1>1, <2>3
<1>9. CASE ~(n < want)
  <2>1. half' = <<>> /\ halfLen' = 0 /\ rest' = chunk /\ ret' = n
    BY <1>3, <1>4, <1>9 DEF Fresh, Buffers
  <2>2. l <= n
    BY <1>1, <1>5, <1>7, <1>9
  <2>3. Received(s, s, e, l)
    BY <1>2, <1>3, <1>6, <2>1, <2>2 DEF Received
  <2>4. QED
    BY <1>1, <2>3
<1>10. QED
  BY <1>8, <1>9

\* onRecv takes neither the length of a packet nor that of a head for wrong.
LEMMA RightLengths ==
    ASSUME Lengths, NEW p \in 1..Packets
    PROVE  ~WrongLength(lens[p]) /\ ~WrongLength(HeadSize)
BY TcpRecvAssumption DEF Lengths, WrongLength

LEMMA ContinuedReceived ==
    ASSUME Lengths, NEW p \in 1..Packets, NEW s \in Nat, Starts(s, p),
           NEW r \in Nat, NEW e \in Nat, s < r, r < e, e <= Len(All), half = Seg(All, s, r),
           r - s < lens[p], r - s <= halfLen, halfLen \in {HeadSize, lens[p]},
           NEW chunk, chunk = Seg(All, r, e)
    PROVE  /\ ~WrongLength(ProcessLength(half \o Into(chunk), Len(half) + Len(chunk)))
           /\ Continued(chunk) => \E h \in Nat : Received(s, h, e, lens[p])
<1>1. PICK l \in Nat : l = lens[p] /\ l >= HeadSize
  BY PacketType
<1>2. HeadSize \in Nat /\ HeadSize >= 1 /\ Len(All) \in Nat
  BY TcpRecvAssumption, AllFacts
<1>3. PICK n \in Nat : n = e - s
  OBVIOUS
<1>4. PICK m \in Nat : m = halfLen /\ r - s <= m /\ m \in {HeadSize, l} /\ m >= HeadSize
  BY <1>1, <1>2
<1>5. PICK f \in Nat : f = s + m
  OBVIOUS
<1>6. /\ s <= r /\ r <= e /\ s <= e /\ r <= f /\ s <= f /\ r <= Len(All) /\ f - r = m - (r - s)
      /\ f - s = m /\ r - s < l
  BY <1>1, <1>2, <1>4, <1>5
<1>7. Len(half) = r - s /\ Len(chunk) = e - r
  BY <1>6, AllSeg
<1>8. Space = f - r /\ Len(half) + Len(chunk) = n
  BY <1>3, <1>4, <1>6, <1>7 DEF Space
\* The part of the chunk that fits into m_RecvBuffer ends at g.
<1>9. PICK g \in Nat : g = IF f < e THEN f ELSE e
  OBVIOUS
<1>10. r <= g /\ g <= e /\ g <= Len(All) /\ s <= g /\ (Space < Len(chunk) <=> f < e)
  BY <1>2, <1>6, <1>7, <1>8, <1>9
<1>11. Into(chunk) = Seg(All, r, g)
  <2>1. CASE f < e
    <3>1. Take(chunk, f - r) = Seg(All, r, f)
      BY <1>6, <2>1, AllCut
    <3>2. QED
      BY <1>8, <1>9, <1>10, <2>1, <3>1 DEF Into
  <2>2. CASE ~(f < e)
    BY <1>9, <1>10, <2>2 DEF Into
  <2>3. QED
    BY <2>1, <2>2
<1>12. half \o Into(chunk) = Seg(All, s, g)
  <2>1. Seg(All, s, r) \o Seg(All, r, g) = Seg(All, s, g)
    BY <1>6, <1>10, AllJoin
  <2>2. QED
    BY <1>11, <2>1
<1>13. PICK want : want = ProcessLength(Seg(All, s, g), n)
  OBVIOUS
<1>14. want = IF n < HeadSize THEN HeadSize ELSE l
  <2>1. n >= HeadSize => g - s >= HeadSize
    BY <1>2, <1>3, <1>4, <1>6, <1>9
  <2>2. QED
    BY <1>1, <1>10, <1>13, <2>1, HeadFound
<1>15. ~WrongLength(want) /\ want \in Nat
  BY <1>1, <1>2, <1>14, RightLengths
<1>16. ASSUME Continued(chunk)
       PROVE  \E h \in Nat : Received(s, h, e, lens[p])
  <2>1. PICK stick : stick = Stick(chunk)
    OBVIOUS
  <2>2. IF stick = <<>>
        THEN Buffers(Seg(All, s, g), halfLen, <<>>, IF n < want THEN 0 ELSE n)
        ELSE IF n < want THEN Buffers(Seg(All, s, g) \o Take(stick, n - halfLen), want, <<>>, 0)
        ELSE Buffers(Seg(All, s, g) \o Take(stick, want - halfLen), want,
                     Drop(stick, want - halfLen), n)
    BY <1>8, <1>12, <1>13, <1>16, <2>1 DEF Continued
  <2>3. Seg(All, e, e) = <<>>
    BY SegNone
  <2>4. CASE ~(f < e)
    <3>1. stick = <<>> /\ g = e
      BY <1>9, <1>10, <2>1, <2>4 DEF Stick
    <3>2. /\ half' = Seg(All, s, e) /\ halfLen' = m /\ rest' = <<>>
          /\ ret' = IF n < want THEN 0 ELSE n
      BY <1>4, <2>2, <3>1 DEF Buffers
    <3>3. n <= m
      BY <1>3, <1>6, <2>4
    <3>4. n < want => n < l
      BY <1>1, <1>2, <1>14
    <3>5. ~(n < want) => n = l /\ m = l
      BY <1>1, <1>2, <1>4, <1>14, <3>3
    <3>6. Received(s, e, e, l)
      BY <1>3, <1>4, <1>6, <2>3, <3>2, <3>3, <3>4, <3>5 DEF Received
    <3>7. QED
      BY <1>1, <3>6
  <2>5. CASE f < e
    <3>1. stick = Seg(All, f, e) /\ g = f
      <4>1. Drop(chunk, f - r) = Seg(All, f, e)
        BY <1>6, <2>5, AllCut
      <4>2. QED
        BY <1>8, <1>9, <1>10, <2>1, <2>5, <4>1 DEF Stick
    <3>2. stick # <<>>
      <4>1. Len(stick) = e - f /\ e - f # 0
        <5>1. f <= e /\ e - f # 0
          BY <2>5
        <5>2. QED
          BY <3>1, <5>1, AllSeg
      <4>2. ASSUME stick = <<>> PROVE FALSE
        <5>1. Len(stick) = 0
          BY <4>2
        <5>2. QED
          BY <4>1, <5>1
      <4>3. QED
        BY <4>2
    <3>3. want = l /\ n > m
      BY <1>2, <1>3, <1>4, <1>6, <1>14, <2>5
    <3>4. CASE n < l
      <4>1. n - halfLen = e - f /\ f <= e
        BY <1>3, <1>4, <1>6, <2>5
      <4>2. Take(stick, e - f) = Seg(All, f, e)
        BY <3>1, <4>1, AllCut
      <4>3. Seg(All, s, f) \o Seg(All, f, e) = Seg(All, s, e)
        BY <1>6, <4>1, AllJoin
      <4>4. half' = Seg(All, s, e) /\ halfLen' = l /\ rest' = <<>> /\ ret' = 0
        BY <2>2, <3>1, <3>2, <3>3, <3>4, <4>1, <4>2, <4>3 DEF Buffers
      <4>5. Received(s, e, e, l)
        BY <1>3, <1>6, <2>3, <3>4, <4>4 DEF Received
      <4>6. QED
        BY <1>1, <4>5
    <3>5. CASE ~(n < l)
      <4>1. PICK d \in Nat : d = s + l
        OBVIOUS
      <4>2. f <= d /\ d <= e /\ s <= d /\ d - s = l
        <5>1. m <= l /\ l <= n
          BY <1>1, <1>4, <3>5
        <5>2. QED
          BY <1>3, <1>5, <4>1, <5>1
      <4>3. l - halfLen = d - f
        BY <1>4, <1>5, <4>1
      <4>4. Take(stick, d - f) = Seg(All, f, d) /\ Drop(stick, d - f) = Seg(All, d, e)
        <5>1. /\ Take(Seg(All, f, e), d - f) = Seg(All, f, d)
              /\ Drop(Seg(All, f, e), d - f) = Seg(All, d, e)
          BY ONLY Lengths, f \in Nat, d \in Nat, e \in Nat, <4>2, e <= Len(All), AllCut
        <5>2. QED
          BY <3>1, <5>1
      <4>5. d <= Len(All)
        BY <1>2, <4>2
      <4>6. Seg(All, s, f) \o Seg(All, f, d) = Seg(All, s, d)
        BY <1>6, <4>2, <4>5, AllJoin
      <4>7. half' = Seg(All, s, d) /\ halfLen' = l /\ rest' = Seg(All, d, e) /\ ret' = n
        BY <2>2, <3>1, <3>2, <3>3, <3>5, <4>3, <4>4, <4>6 DEF Buffers
      <4>8. Received(s, d, e, l)
        BY <1>3, <3>5, <4>2, <4>7 DEF Received
      <4>9. QED
        BY <1>1, <4>8
    <3>6. QED
      BY <3>4, <3>5
  <2>6. QED
    BY <2>4, <2>5
<1>17. QED
  BY <1>8, <1>12, <1>13, <1>15, <1>16

LEMMA RecvStep ==
    ASSUME IInv, Recv
    PROVE  IInv'
<1>1. Lengths /\ Delivered /\ Linked /\ pc = "recv" /\ wire # <<>>
  BY DEF IInv, Recv
<1>2. PICK s \in Nat, h \in Nat, r \in Nat, w \in Nat : Placed(s, h, r, w) /\ Waits(s, h, r)
  BY <1>1 DEF IInv, Works
<1>3. /\ Len(All) \in Nat /\ s <= r /\ r <= w /\ w <= Len(All)
      /\ Len(half) = h - s /\ Len(wire) = w - r
      /\ s < Len(All) => Upcoming \in 1..Packets
  BY <1>1, <1>2, PlacedFacts
<1>4. /\ FlattenSeq(got) = Seg(All, 0, s) /\ half = Seg(All, s, h)
      /\ wire = Seg(All, r, w) /\ out = Seg(All, w, Len(All)) /\ Starts(s, Upcoming)
  BY <1>2 DEF Placed
<1>5. h = r
  BY <1>2 DEF Waits
<1>6. w - r # 0
  <2>1. wire \in Seq(Byte)
    BY <1>1, <1>3, <1>4, AllSeg
  <2>2. QED
    BY <1>1, <1>3, <2>1, EmptySeq
\* The chunk is the stretch from r to e.
<1>7. PICK c \in Nat : c = IF w - r < BuffSize THEN w - r ELSE BuffSize
  <2>1. w - r \in Nat /\ BuffSize \in Nat
    BY <1>3, TcpRecvAssumption
  <2>2. QED
    BY <2>1
<1>8. PICK e \in Nat : e = r + c
  OBVIOUS
<1>9. r < e /\ r <= e /\ e <= w /\ e - r = c /\ s < e /\ e <= Len(All) /\ s < Len(All)
  BY <1>3, <1>6, <1>7, <1>8, TcpRecvAssumption
<1>10. PICK chunk : chunk = Chunk
  OBVIOUS
<1>11. chunk = Seg(All, r, e)
  <2>1. Take(Seg(All, r, w), e - r) = Seg(All, r, e)
    BY <1>1, <1>3, <1>9, AllCut
  <2>2. Chunk = Take(wire, c)
    BY <1>3, <1>7 DEF Chunk
  <2>3. QED
    BY <1>4, <1>9, <1>10, <2>1, <2>2
<1>12. Len(chunk) = e - r
  BY <1>1, <1>9, <1>11, AllSeg
<1>13. wire' = Seg(All, e, w)
  <2>1. Drop(Seg(All, r, w), e - r) = Seg(All, e, w)
    BY <1>1, <1>3, <1>9, AllCut
  <2>2. wire' = Drop(wire, Len(Chunk))
    BY DEF Recv
  <2>3. QED
    BY <1>4, <1>10, <1>12, <2>1, <2>2
<1>14. PICK p \in 1..Packets : p = Upcoming
  BY <1>3, <1>9
<1>15. Starts(s, p)
  BY <1>4, <1>14
<1>16. PICK front : front = IF halfLen = 0 THEN chunk ELSE half \o Into(chunk)
  OBVIOUS
<1>17. PICK n : n = Len(half) + Len(chunk)
  OBVIOUS
<1>18. IF WrongLength(ProcessLength(front, n))
          THEN link' = "error" /\ pc' = "idle" /\ UNCHANGED bufs
          ELSE /\ IF halfLen = 0 THEN Fresh(chunk) ELSE Continued(chunk)
               /\ pc' = IF ret' > 0 THEN "process" ELSE IF again' THEN "recv" ELSE "idle"
               /\ UNCHANGED link
  BY <1>10, <1>16, <1>17 DEF Recv
<1>19. /\ ~WrongLength(ProcessLength(front, n))
       /\ \E g \in Nat : Received(s, g, e, lens[p])
  <2>1. CASE halfLen = 0
    <3>1. h = s /\ front = Seg(All, s, e) /\ chunk = Seg(All, s, e)
      BY <1>2, <1>3, <1>5, <1>9, <1>11, <1>16, <2>1 DEF Waits
    <3>2. n = e - s /\ e - s \in Nat /\ s <= e
      BY <1>3, <1>5, <1>9, <1>12, <1>17, <3>1
    <3>3. PICK m \in Nat : m = e - s
      BY <3>2
    <3>4. ProcessLength(Seg(All, s, e), m) = IF m < HeadSize THEN HeadSize ELSE lens[p]
      <4>1. m >= HeadSize => e - s >= HeadSize
        BY <3>3
      <4>2. QED
        BY <1>1, <1>9, <1>15, <3>2, <4>1, HeadFound
    <3>5. ~WrongLength(ProcessLength(front, n))
      <4>1. ~WrongLength(lens[p]) /\ ~WrongLength(HeadSize)
        BY <1>1, RightLengths
      <4>2. QED
        BY <3>1, <3>2, <3>3, <3>4, <4>1
    <3>6. Fresh(chunk)
      BY <1>18, <2>1, <3>5
    <3>7. QED
      BY <1>1, <1>9, <1>15, <3>1, <3>5, <3>6, FreshReceived
  <2>2. CASE halfLen # 0
    <3>1. /\ s < r /\ r - s < lens[p] /\ r - s <= halfLen /\ halfLen \in {HeadSize, lens[p]}
          /\ half = Seg(All, s, r)
      BY <1>2, <1>4, <1>5, <1>14, <2>2 DEF Waits
    <3>2. /\ ~WrongLength(ProcessLength(half \o Into(chunk), Len(half) + Len(chunk)))
          /\ Continued(chunk) => \E g \in Nat : Received(s, g, e, lens[p])
      BY <1>1, <1>9, <1>11, <1>15, <3>1, ContinuedReceived, ZenonT(60)
    <3>3. ~WrongLength(ProcessLength(front, n))
      BY <1>16, <1>17, <2>2, <3>2
    <3>4. Continued(chunk)
      BY <1>18, <2>2, <3>3
    <3>5. QED
      BY <3>2, <3>3, <3>4
  <2>3. QED
    BY <2>1, <2>2
<1>20. PICK g \in Nat : Received(s, g, e, lens[p])
  BY <1>19
<1>21. /\ pc' = IF ret' > 0 THEN "process" ELSE IF again' THEN "recv" ELSE "idle"
       /\ link' = link /\ lens' = lens /\ got' = got /\ out' = out
  BY <1>18, <1>19 DEF Recv
<1>22. /\ Lengths' /\ All' = All /\ Upcoming' = Upcoming /\ Delivered'
       /\ \A a, b : Starts(a, b)' <=> Starts(a, b)
  BY <1>1, <1>21, SameStream
<1>23. Linked'
  BY <1>1, <1>21 DEF Linked
<1>24. Placed(s, g, e, w)'
  <2>1. s <= g /\ g <= e /\ half' = Seg(All, s, g) /\ rest' = Seg(All, g, e)
    BY <1>20 DEF Received
  <2>2. QED
    BY <1>3, <1>4, <1>9, <1>13, <1>21, <1>22, <2>1 DEF Placed
<1>25. (Waits(s, g, e) \/ Works(s, g, e))'
  <2>1. lens[p] \in Nat /\ lens[p] >= 1 /\ Upcoming' = p /\ lens' = lens /\ p <= Packets
    BY <1>1, <1>14, <1>21, <1>22, PacketType, TcpRecvAssumption
  <2>2. CASE ret' = 0
    <3>1. pc' \in {"idle", "recv"}
      BY <1>21, <2>2
    <3>2. /\ g = e /\ s < g /\ g - s < lens[p]
          /\ g - s <= halfLen' /\ halfLen' \in {HeadSize, lens[p]}
      BY <1>9, <1>20, <2>1, <2>2 DEF Received
    <3>3. QED
      BY <2>1, <2>2, <3>1, <3>2 DEF Waits
  <2>3. CASE ret' # 0
    <3>1. /\ ret' = e - s /\ lens[p] <= e - s
          /\ \/ halfLen' = 0 /\ g = s
             \/ halfLen' = lens[p] /\ g - s = lens[p]
      BY <1>20, <2>3 DEF Received
    <3>2. pc' = "process"
      BY <1>9, <1>21, <2>1, <3>1
    <3>3. QED
      BY <2>1, <3>1, <3>2 DEF Works
  <2>4. QED
    BY <2>2, <2>3
<1>26. QED
  BY <1>22, <1>23, <1>24, <1>25 DEF IInv

LEMMA ProcessStep ==
    ASSUME IInv, Process
    PROVE  IInv'
<1>1. Lengths /\ Delivered /\ Linked /\ pc = "process"
  BY DEF IInv, Process
<1>2. PICK s \in Nat, h \in Nat, r \in Nat, w \in Nat : Placed(s, h, r, w) /\ Works(s, h, r)
  BY <1>1 DEF IInv, Waits
<1>3. /\ Len(All) \in Nat /\ s <= h /\ h <= r /\ r <= w /\ w <= Len(All) /\ s <= r
      /\ r <= Len(All) /\ h <= Len(All)
      /\ Upcoming \in 1..(Packets + 1)
  BY <1>1, <1>2, PlacedFacts
<1>4. /\ FlattenSeq(got) = Seg(All, 0, s) /\ half = Seg(All, s, h) /\ rest = Seg(All, h, r)
      /\ wire = Seg(All, r, w) /\ out = Seg(All, w, Len(All)) /\ Starts(s, Upcoming)
  BY <1>2 DEF Placed
<1>5. PICK p \in 1..Packets : p = Upcoming
  BY <1>2, <1>3, TcpRecvAssumption DEF Works
<1>6. PICK l \in Nat : l = lens[p] /\ l >= HeadSize /\ l >= 1
  BY <1>1, PacketType
<1>7. /\ ret = r - s /\ l <= r - s
      /\ \/ halfLen = 0 /\ h = s
         \/ halfLen = l /\ h - s = l
  BY <1>2, <1>5, <1>6 DEF Works
<1>8. PICK t \in Nat : t = s + l
  OBVIOUS
<1>9. s <= t /\ t <= r /\ t <= Len(All) /\ t - s = l /\ t <= w
  BY <1>3, <1>7, <1>8
<1>10. Starts(s, p) /\ Starts(t, p + 1) /\ Seg(All, s, t) = Packet(p)
  <2>1. Starts(s, p)
    BY <1>4, <1>5
  <2>2. QED
    BY <1>1, <1>6, <1>8, <2>1, PacketAt, SegPacket
\* The packet at the front is the one to be delivered, and t is behind it.
<1> DEFINE front == IF halfLen # 0 THEN half ELSE rest
           n == ProcessLength(front, ret)
           next == IF halfLen # 0 THEN rest ELSE Drop(rest, n)
           left == ret - n
           want == ProcessLength(next, left)
<1>11. n = l
  <2>1. PICK a \in Nat : front = Seg(All, s, a) /\ t <= a /\ a <= Len(All)
    <3>1. CASE halfLen # 0
      BY <1>3, <1>4, <1>7, <1>8, <3>1
    <3>2. CASE halfLen = 0
      BY <1>3, <1>4, <1>6, <1>7, <1>9, <3>2
    <3>3. QED
      BY <3>1, <3>2
  <2>2. PICK m \in Nat : m = r - s
    BY <1>3
  <2>3. s <= a /\ a - s >= HeadSize /\ m >= HeadSize
    BY <1>6, <1>7, <1>9, <2>1, <2>2, TcpRecvAssumption
  <2>4. ProcessLength(Seg(All, s, a), m) = IF m < HeadSize THEN HeadSize ELSE lens[p]
    BY <1>1, <1>10, <2>1, <2>3, HeadFound
  <2>5. ~(m < HeadSize)
    BY <2>2, <2>3, TcpRecvAssumption
  <2>6. QED
    BY <1>6, <1>7, <2>1, <2>2, <2>4, <2>5
<1>12. Take(front, n) = Packet(p) /\ next = Seg(All, t, r)
  <2>1. CASE halfLen # 0
    <3>1. h = t
      BY <1>6, <1>7, <1>8, <2>1
    <3>2. Take(Seg(All, s, t), t - s) = Seg(All, s, t)
      <4>1. t <= t
        OBVIOUS
      <4>2. QED
        BY <1>1, <1>9, <4>1, AllCut
    <3>3. QED
      BY <1>4, <1>9, <1>10, <1>11, <2>1, <3>1, <3>2
  <2>2. CASE halfLen = 0
    <3>1. h = s
      BY <1>6, <1>7, <2>2
    <3>2. /\ Take(Seg(All, s, r), t - s) = Seg(All, s, t)
          /\ Drop(Seg(All, s, r), t - s) = Seg(All, t, r)
      BY <1>1, <1>3, <1>9, AllCut
    <3>3. QED
      BY <1>4, <1>9, <1>10, <1>11, <2>2, <3>1, <3>2
  <2>3. QED
    BY <2>1, <2>2
<1>13. left = r - t /\ r - t \in Nat
  BY <1>7, <1>8, <1>9, <1>11
<1>14. /\ got' = Append(got, Take(front, n))
       /\ IF left = 0 THEN Buffers(<<>>, 0, <<>>, 0)
          ELSE IF left < want THEN Buffers(Take(next, left), want, <<>>, 0)
          ELSE Buffers(<<>>, 0, next, left)
       /\ link' = IF left > 0 /\ WrongLength(want) THEN "error" ELSE link
       /\ pc' = IF link' = "error" THEN "idle" ELSE IF ret' > 0 THEN "process"
                ELSE IF again THEN "recv" ELSE "idle"
       /\ lens' = lens /\ out' = out /\ wire' = wire
  BY DEF Process, peer
<1> HIDE DEF front, n, next, left, want
<1>15. got' = Append(got, Packet(p)) /\ lens' = lens
  BY <1>12, <1>14
<1>16. Len(got) = p - 1 /\ got = [k \in 1..(p - 1) |-> Packet(k)] /\ Len(got) \in Nat
  BY <1>1, <1>5, TcpRecvAssumption DEF Delivered, Upcoming
<1>17. got' = [k \in 1..p |-> Packet(k)]
  BY <1>1, <1>15, <1>16, OnePacketMore
<1>18. Lengths' /\ All' = All /\ \A a, b : Starts(a, b)' <=> Starts(a, b)
  BY <1>1, <1>15, SameStream
<1>19. Len(got') = p /\ Upcoming' = p + 1 /\ got \in Seq(Seq(Byte))
  <2>1. p \in 0..Packets /\ p - 1 \in 0..Packets
    BY TcpRecvAssumption
  <2>2. Len(got') = p
    BY <1>1, <1>17, <2>1, PacketsUpTo
  <2>3. got \in Seq(Seq(Byte))
    BY <1>1, <1>16, <2>1, PacketsUpTo
  <2>4. QED
    BY <2>2, <2>3 DEF Upcoming
<1>20. Delivered'
  <2>1. \A k : Packet(k)' = Packet(k)
    BY <1>15 DEF Packet
  <2>2. p \in 0..Packets
    BY TcpRecvAssumption
  <2>3. QED
    BY <1>17, <1>19, <2>1, <2>2 DEF Delivered
<1>21. FlattenSeq(got') = Seg(All, 0, t)
  <2>1. Packet(p) \in Seq(Byte)
    BY <1>1, PacketType
  <2>2. 0 \in Nat /\ 0 <= s /\ s <= Len(All)
    BY <1>3
  <2>3. FlattenSeq(got) \in Seq(Byte)
    BY <1>1, <1>4, <2>2, AllSeg
  <2>4. FlattenSeq(Append(got, Packet(p))) = FlattenSeq(got) \o Packet(p)
    BY <1>19, <2>1, <2>3, FlatAppend
  <2>5. Seg(All, 0, s) \o Seg(All, s, t) = Seg(All, 0, t)
    BY <1>1, <1>9, <2>2, AllJoin
  <2>6. QED
    BY <1>4, <1>10, <1>15, <2>4, <2>5
<1>22. Seg(All, t, t) = <<>> /\ Seg(All, r, r) = <<>>
  BY <1>1, <1>3, <1>9, SegNone
\* What m_RecvBuffer holds then ends at g.
<1>23. \E g \in Nat :
          /\ t <= g /\ g <= r /\ half' = Seg(All, t, g) /\ rest' = Seg(All, g, r)
          /\ link' = link
          /\ (Waits(t, g, r) \/ Works(t, g, r))'
  <2>1. CASE left = 0
    <3>1. half' = <<>> /\ halfLen' = 0 /\ rest' = <<>> /\ ret' = 0 /\ link' = link
      BY <1>14, <2>1 DEF Buffers
    <3>2. t = r
      BY <1>13, <2>1
    <3>3. pc' \in {"idle", "recv"}
      BY <1>1, <1>14, <3>1 DEF Linked
    <3>4. Waits(t, t, t)'
      BY <3>1, <3>3 DEF Waits
    <3>5. QED
      BY <1>22, <3>1, <3>2, <3>4
  <2>2. CASE left # 0
    <3>1. t < r /\ t < Len(All)
      BY <1>3, <1>13, <2>2
    <3>2. PICK q \in 1..Packets : q = p + 1
      BY <1>3, <1>10, <3>1, TcpRecvAssumption DEF Starts
    <3>3. PICK k \in Nat : k = lens[q] /\ k >= HeadSize /\ k >= 1
      BY <1>1, PacketType
    <3>4. PICK m \in Nat : m = r - t
      BY <1>13
    <3>5. m = left /\ m > 0 /\ HeadSize \in Nat /\ HeadSize >= 1 /\ q <= Packets
      BY <1>13, <2>2, <3>4, TcpRecvAssumption
    <3>6. want = IF m < HeadSize THEN HeadSize ELSE k
      <4>1. m >= HeadSize => r - t >= HeadSize
        BY <3>4
      <4>2. ProcessLength(Seg(All, t, r), m) = IF m < HeadSize THEN HeadSize ELSE lens[q]
        BY <1>1, <1>3, <1>9, <1>10, <3>2, <4>1, HeadFound
      <4>3. QED
        BY <1>12, <3>3, <3>5, <4>2 DEF want
    <3>7. ~WrongLength(want) /\ link' = link
      <4>1. ~WrongLength(k) /\ ~WrongLength(HeadSize)
        BY <1>1, <3>3, RightLengths
      <4>2. QED
        BY <1>14, <3>6, <4>1
    <3>8. /\ Upcoming' = q /\ lens'[q] = k
          /\ pc' = IF ret' > 0 THEN "process" ELSE IF again THEN "recv" ELSE "idle"
      BY <1>1, <1>14, <1>19, <3>2, <3>3, <3>7 DEF Linked
    <3>9. CASE m < want
      <4>1. Take(Seg(All, t, r), r - t) = Seg(All, t, r)
        <5>1. r <= r
          OBVIOUS
        <5>2. QED
          BY <1>1, <1>3, <1>9, <5>1, AllCut
      <4>2. half' = Seg(All, t, r) /\ halfLen' = want /\ rest' = <<>> /\ ret' = 0
        BY <1>12, <1>14, <2>2, <3>4, <3>5, <3>9, <4>1 DEF Buffers
      <4>3. m < k /\ m <= want /\ want \in {HeadSize, k}
        BY <3>3, <3>5, <3>6, <3>9
      <4>4. pc' \in {"idle", "recv"}
        BY <3>8, <4>2
      <4>5. Waits(t, r, r)'
        BY <3>1, <3>4, <3>5, <3>8, <4>2, <4>3, <4>4 DEF Waits
      <4>6. QED
        BY <1>9, <1>22, <3>7, <4>2, <4>5
    <3>10. CASE ~(m < want)
      <4>1. half' = <<>> /\ halfLen' = 0 /\ rest' = Seg(All, t, r) /\ ret' = m
        BY <1>12, <1>14, <2>2, <3>5, <3>10 DEF Buffers
      <4>2. k <= m /\ pc' = "process"
        BY <3>3, <3>5, <3>6, <3>8, <3>10, <4>1
      <4>3. Works(t, t, r)'
        BY <3>4, <3>5, <3>8, <4>1, <4>2 DEF Works
      <4>4. QED
        BY <1>9, <1>22, <3>7, <4>1, <4>3
    <3>11. QED
      BY <3>9, <3>10
  <2>3. QED
    BY <2>1, <2>2
<1>24. PICK g \in Nat :
          /\ t <= g /\ g <= r /\ half' = Seg(All, t, g) /\ rest' = Seg(All, g, r)
          /\ link' = link
          /\ (Waits(t, g, r) \/ Works(t, g, r))'
  BY <1>23
<1>25. Linked'
  <2>1. link = "open" /\ link' = link
    BY <1>1, <1>24 DEF Linked
  <2>2. QED
    BY <2>1 DEF Linked
<1>26. Placed(t, g, r, w)'
  BY <1>3, <1>4, <1>10, <1>14, <1>18, <1>19, <1>21, <1>24 DEF Placed
<1>27. QED
  BY <1>18, <1>20, <1>24, <1>25, <1>26 DEF IInv

LEMMA Preserved == IInv /\ [Next]_vars => IInv'
<1>1. ASSUME IInv, PeerWrites \/ PeerCloses \/ Breaks \/ Poll \/ RecvNothing \/ UNCHANGED vars
      PROVE  IInv'
  BY <1>1, OutsideStep
<1>2. ASSUME IInv, Recv PROVE IInv'
  BY <1>2, RecvStep
<1>3. ASSUME IInv, Process PROVE IInv'
  BY <1>3, ProcessStep
<1>4. QED
  BY <1>1, <1>2, <1>3 DEF Next

\* The stretches put together are the stream.
LEMMA IInvContiguous == IInv => Contiguous
<1>1. SUFFICES ASSUME IInv PROVE Contiguous
  OBVIOUS
<1>2. Lengths /\ Delivered
  BY <1>1 DEF IInv
<1>3. PICK s \in Nat, h \in Nat, r \in Nat, w \in Nat : Placed(s, h, r, w)
  BY <1>1 DEF IInv
<1>4. /\ Len(All) \in Nat /\ All \in Seq(Byte)
      /\ s <= h /\ h <= r /\ r <= w /\ w <= Len(All) /\ h <= Len(All) /\ r <= Len(All)
  BY <1>2, <1>3, PlacedFacts
<1>5. 0 \in Nat /\ 0 <= s /\ 0 <= h /\ 0 <= r /\ 0 <= w /\ Len(All) <= Len(All) /\ 0 + 1 = 1
  BY <1>4
<1>6. Seg(All, 0, s) \o Seg(All, s, h) = Seg(All, 0, h)
  BY <1>2, <1>4, <1>5, AllJoin
<1>7. Seg(All, 0, h) \o Seg(All, h, r) = Seg(All, 0, r)
  BY <1>2, <1>4, <1>5, AllJoin
<1>8. Seg(All, 0, r) \o Seg(All, r, w) = Seg(All, 0, w)
  BY <1>2, <1>4, <1>5, AllJoin
<1>9. Seg(All, 0, w) \o Seg(All, w, Len(All)) = Seg(All, 0, Len(All))
  BY <1>2, <1>4, <1>5, AllJoin
<1>10. Seg(All, 0, Len(All)) = All
  BY <1>4, <1>5, SubSeqFull DEF Seg
<1>11. FlattenSeq(got) \o half \o rest \o wire \o out = All
  BY <1>3, <1>6, <1>7, <1>8, <1>9, <1>10 DEF Placed
<1>12. QED
  BY <1>11 DEF Contiguous, All, First

\* The first byte of m_RecvBuffer is the first of the upcoming packet.
LEMMA IInvHalfLacks == IInv => HalfLacks
<1>1. SUFFICES ASSUME IInv, halfLen # 0, pc # "process"
               PROVE  Len(half) < lens[half[1][1]] /\ halfLen <= lens[half[1][1]]
  BY DEF HalfLacks
<1>2. Lengths /\ Delivered
  BY <1>1 DEF IInv
<1>3. PICK s \in Nat, h \in Nat, r \in Nat, w \in Nat : Placed(s, h, r, w) /\ Waits(s, h, r)
  BY <1>1 DEF IInv, Works
<1>4. /\ Len(All) \in Nat /\ All \in Seq(Byte) /\ Len(half) = h - s /\ s <= h /\ h <= Len(All)
      /\ Upcoming \in 1..(Packets + 1)
  BY <1>2, <1>3, PlacedFacts
<1>5. /\ s < h /\ Upcoming <= Packets /\ h - s < lens[Upcoming]
      /\ halfLen \in {HeadSize, lens[Upcoming]}
  BY <1>1, <1>3 DEF Waits
<1>6. PICK p \in 1..Packets : p = Upcoming
  BY <1>4, <1>5, TcpRecvAssumption
<1>7. lens[p] \in Nat /\ lens[p] >= HeadSize
  BY <1>2, PacketType
<1>8. half[1] = <<p, 1>>
  <2>1. half = Seg(All, s, h) /\ Starts(s, p)
    BY <1>3, <1>6 DEF Placed
  <2>2. 1 \in 1..(h - s)
    BY <1>5
  <2>3. half[1] = All[s + 1]
    <3>1. \A i \in 1..(h - s) : Seg(All, s, h)[i] = All[s + i]
      BY <1>4, SegFacts
    <3>2. QED
      BY <2>1, <2>2, <3>1
  <2>4. All[s + 1] = <<p, 1>>
    BY <1>6, <2>1, TcpRecvAssumption DEF Starts
  <2>5. QED
    BY <2>3, <2>4
<1>9. half[1][1] = p
  BY <1>8
<1>10. QED
  BY <1>4, <1>5, <1>6, <1>7, <1>9, TcpRecvAssumption

\* onRecv, processLength, Packet of KxTCPUnit: however the kernel cuts the stream,
\* what has been delivered, what the two buffers hold, what is in the kernel and
\* what is to come are the peer's packets, byte for byte and in order.
THEOREM StreamContiguous == Spec => []Contiguous
<1>1. QED
  BY InitIInv, Preserved, IInvContiguous, PTL DEF Spec

\* m_RecvBuffer is no longer than the packet it begins and holds less than it
\* between two calls: nothing complete is left lying, and no byte of the next
\* packet is taken for one of this.
THEOREM NothingLeftLying == Spec => []HalfLacks
<1>1. QED
  BY InitIInv, Preserved, IInvHalfLacks, PTL DEF Spec

----------------------------------------------------------------------------
(* The promise of the connection *)

\* The packets of which S holds no byte
Absent(S) == {p \in 1..Packets : \A i \in 1..Len(S) : S[i][1] # p}

\* How many of the packets end in the first w bytes
Ended(w) == IF w = Len(All) THEN Packets ELSE All[w + 1][1] - 1

Numbers == [k \in 1..Len(got) |-> Number(got[k])]

LEMMA EndedFacts ==
    ASSUME Lengths, NEW w \in Nat, w <= Len(All)
    PROVE  /\ Ended(w) \in 0..Packets
           /\ \A v \in Nat : w <= v /\ v <= Len(All) => Ended(w) <= Ended(v)
           /\ \A p \in 1..Packets, s \in Nat :
                 Starts(s, p) /\ s <= w =>
                     /\ s + lens[p] <= w => p <= Ended(w)
                     /\ w < s + lens[p] => Ended(w) = p - 1
           /\ \A s \in Nat : Starts(s, Packets + 1) /\ s <= w => Ended(w) = Packets
<1>1. /\ Packets \in Nat /\ Len(All) \in Nat
      /\ \A k \in 1..Len(All) : All[k][1] \in 1..Packets
  BY AllFacts, TcpRecvAssumption
<1>2. \A v \in Nat : v < Len(All) =>
          /\ v + 1 \in 1..Len(All) /\ Ended(v) = All[v + 1][1] - 1 /\ All[v + 1][1] \in 1..Packets
  <2>1. ASSUME NEW v \in Nat, v < Len(All)
        PROVE  v + 1 \in 1..Len(All) /\ v # Len(All)
    BY <1>1, <2>1
  <2>2. QED
    BY <1>1, <2>1 DEF Ended
<1>3. \A v \in Nat : v = Len(All) => Ended(v) = Packets
  BY DEF Ended
<1>4. Ended(w) \in 0..Packets
  <2>1. CASE w = Len(All)
    BY <1>1, <1>3, <2>1
  <2>2. CASE w # Len(All)
    <3>1. w < Len(All)
      BY <1>1, <2>2
    <3>2. QED
      BY <1>1, <1>2, <3>1
  <2>3. QED
    BY <2>1, <2>2
<1>5. ASSUME NEW v \in Nat, w <= v, v <= Len(All) PROVE Ended(w) <= Ended(v)
  <2>1. CASE v = Len(All)
    BY <1>1, <1>3, <1>4, <2>1
  <2>2. CASE v # Len(All)
    <3>1. v < Len(All) /\ w < Len(All) /\ w + 1 <= v + 1
      BY <1>1, <1>5, <2>2
    <3>2. All[w + 1][1] <= All[v + 1][1]
      BY <1>2, <3>1, InTurn
    <3>3. QED
      BY <1>1, <1>2, <3>1, <3>2
  <2>3. QED
    BY <2>1, <2>2
<1>6. ASSUME NEW p \in 1..Packets, NEW s \in Nat, Starts(s, p), s <= w
      PROVE  /\ s + lens[p] <= w => p <= Ended(w)
             /\ w < s + lens[p] => Ended(w) = p - 1
  <2>1. PICK l \in Nat : l = lens[p]
    BY PacketType
  <2>2. PICK t \in Nat : t = s + l
    OBVIOUS
  <2>3. /\ t <= Len(All) /\ Starts(t, p + 1)
        /\ \A j \in 1..l : All[s + j] = <<p, j>>
    BY <1>6, <2>1, <2>2, PacketAt
  <2>4. ASSUME t <= w PROVE p <= Ended(w)
    <3>1. p <= Ended(t)
      <4>1. CASE t = Len(All)
        BY <1>1, <1>3, <4>1
      <4>2. CASE t # Len(All)
        <5>1. t < Len(All) /\ ~(p + 1 > Packets)
          BY <1>1, <2>3, <4>2 DEF Starts
        <5>2. All[t + 1] = <<p + 1, 1>>
          BY <2>3, <5>1 DEF Starts
        <5>3. Ended(t) = (p + 1) - 1
          BY <1>2, <5>1, <5>2
        <5>4. QED
          BY <1>1, <5>3
      <4>3. QED
        BY <4>1, <4>2
    <3>2. Ended(t) <= Ended(w) /\ Ended(t) \in 0..Packets
      <4>1. CASE t = Len(All)
        <5>1. t = w
          BY <1>1, <2>4, <4>1
        <5>2. QED
          BY <1>1, <1>4, <5>1
      <4>2. CASE t # Len(All)
        <5>1. t < Len(All)
          BY <1>1, <2>3, <4>2
        <5>2. Ended(t) \in 0..Packets
          BY <1>1, <1>2, <5>1
        <5>3. Ended(t) <= Ended(w)
          <6>1. CASE w = Len(All)
            BY <1>1, <1>3, <5>2, <6>1
          <6>2. CASE w # Len(All)
            <7>1. w < Len(All) /\ t + 1 <= w + 1
              BY <1>1, <2>4, <6>2
            <7>2. All[t + 1][1] <= All[w + 1][1]
              BY <1>2, <5>1, <7>1, InTurn
            <7>3. QED
              BY <1>1, <1>2, <5>1, <7>1, <7>2
          <6>3. QED
            BY <6>1, <6>2
        <5>4. QED
          BY <5>2, <5>3
      <4>3. QED
        BY <4>1, <4>2
    <3>3. QED
      BY <1>1, <1>4, <3>1, <3>2
  <2>5. ASSUME w < t PROVE Ended(w) = p - 1
    <3>1. PICK j \in 1..l : s + j = w + 1
      <4>1. (w + 1) - s \in 1..l /\ s + ((w + 1) - s) = w + 1
        BY <1>6, <2>2, <2>5
      <4>2. QED
        BY <4>1
    <3>2. All[w + 1] = <<p, j>>
      BY <2>3, <3>1
    <3>3. w < Len(All)
      BY <1>1, <2>3, <2>5
    <3>4. QED
      BY <1>2, <3>2, <3>3
  <2>6. QED
    BY <2>1, <2>2, <2>4, <2>5
<1>7. ASSUME NEW s \in Nat, Starts(s, Packets + 1), s <= w
      PROVE  Ended(w) = Packets
  <2>1. Packets + 1 > Packets
    BY <1>1
  <2>2. s = Len(All)
    BY <1>7, <2>1 DEF Starts
  <2>3. w = Len(All)
    BY <1>1, <1>7, <2>2
  <2>4. QED
    BY <1>3, <2>3
<1>8. QED
  BY <1>4, <1>5, <1>6, <1>7

\* The packets of which nothing is to come are the first ones.
LEMMA WrittenIs ==
    ASSUME Lengths, NEW w \in Nat, w <= Len(All)
    PROVE  Cardinality(Absent(Seg(All, w, Len(All)))) = Ended(w)
<1>1. /\ Packets \in Nat /\ Len(All) \in Nat /\ All \in Seq(Byte)
      /\ \A k \in 1..Len(All) : All[k][1] \in 1..Packets
  BY AllFacts, TcpRecvAssumption
<1>2. PICK S : S = Seg(All, w, Len(All))
  OBVIOUS
<1>3. PICK n \in Nat : n = Len(All) - w
  BY <1>1
<1>4. Len(S) = n /\ \A i \in 1..n : S[i] = All[w + i]
  <2>1. Len(All) <= Len(All)
    BY <1>1
  <2>2. Len(S) = Len(All) - w /\ \A i \in 1..(Len(All) - w) : S[i] = All[w + i]
    BY <1>1, <1>2, <2>1, SegFacts, ZenonT(60)
  <2>3. QED
    BY <1>3, <2>2
<1>5. Ended(w) \in 0..Packets
  BY EndedFacts
<1>6. ASSUME NEW p \in 1..Packets, p <= Ended(w), NEW i \in 1..Len(S) PROVE S[i][1] # p
  <2>1. /\ w < Len(All) /\ w + 1 \in 1..Len(All) /\ w + i \in 1..Len(All) /\ w + 1 <= w + i
        /\ i \in 1..n
    BY <1>1, <1>3, <1>4
  <2>2. All[w + 1][1] <= All[w + i][1]
    BY <2>1, InTurn
  <2>3. Ended(w) = All[w + 1][1] - 1
    BY <1>1, <2>1 DEF Ended
  <2>4. All[w + 1][1] \in 1..Packets /\ All[w + i][1] \in 1..Packets
    BY <1>1, <2>1
  <2>5. All[w + i][1] # p
    BY <1>1, <1>6, <2>2, <2>3, <2>4
  <2>6. QED
    BY <1>4, <2>1, <2>5
<1>7. ASSUME NEW p \in 1..Packets, ~(p <= Ended(w)) PROVE \E i \in 1..Len(S) : S[i][1] = p
  <2>1. PICK s \in Nat : Starts(s, p)
    BY Everywhere
  <2>2. PICK l \in Nat : l = lens[p] /\ l >= 1
    BY PacketType
  <2>3. s + l <= Len(All) /\ \A j \in 1..l : All[s + j] = <<p, j>>
    BY <2>1, <2>2, PacketAt
  <2>4. w < s + l
    <3>1. ASSUME s + l <= w PROVE FALSE
      BY <1>7, <2>1, <2>2, <3>1, EndedFacts
    <3>2. QED
      BY <2>2, <3>1
  <2>5. PICK i \in Nat : i = (s + l) - w
    BY <2>2, <2>4
  <2>6. i \in 1..n /\ w + i = s + l
    BY <1>1, <1>3, <2>2, <2>3, <2>4, <2>5
  <2>7. S[i] = <<p, l>>
    <3>1. S[i] = All[w + i]
      BY <1>4, <2>6
    <3>2. l \in 1..l
      BY <2>2
    <3>3. All[s + l] = <<p, l>>
      BY <2>3, <3>2
    <3>4. QED
      BY <2>6, <3>1, <3>3
  <2>8. QED
    BY <1>4, <2>6, <2>7
<1>8. Absent(S) = 1..Ended(w)
  <2>1. ASSUME NEW p \in Absent(S) PROVE p \in 1..Ended(w)
    BY <1>1, <1>5, <1>7 DEF Absent
  <2>2. ASSUME NEW p \in 1..Ended(w) PROVE p \in Absent(S)
    <3>1. p \in 1..Packets /\ p <= Ended(w)
      BY <1>1, <1>5
    <3>2. QED
      BY <1>6, <3>1 DEF Absent
  <2>3. QED
    BY <2>1, <2>2
<1>9. Cardinality(1..Ended(w)) = Ended(w)
  <2>1. PICK m \in Nat : m = Ended(w)
    BY <1>1, <1>5
  <2>2. Cardinality(1..m) = m
    <3>1. Cardinality(1..m) = IF 1 > m THEN 0 ELSE m - 1 + 1
      BY FS_Interval
    <3>2. QED
      BY <3>1
  <2>3. QED
    BY <2>1, <2>2
<1>10. QED
  BY <1>2, <1>8, <1>9

LEMMA NumberOf ==
    ASSUME Lengths, NEW p \in 1..Packets
    PROVE  Number(Packet(p)) = p
<1>1. ASSUME NEW q \in 1..Packets, Packet(p) = Packet(q) PROVE q = p
  <2>1. 1 \in 1..lens[p] /\ 1 \in 1..lens[q]
    BY PacketType
  <2>2. Packet(p)[1] = <<p, 1>> /\ Packet(q)[1] = <<q, 1>>
    BY <2>1, PacketType
  <2>3. <<p, 1>> = <<q, 1>>
    BY <1>1, <2>2
  <2>4. QED
    BY <2>3
<1>2. PICK b : b = Packet(p)
  OBVIOUS
<1>3. \A q \in 1..Packets : b = Packet(q) <=> q = p
  BY <1>1, <1>2
<1>4. Number(b) = CHOOSE q \in 1..Packets : b = Packet(q)
  BY <1>2 DEF Number
<1>5. QED
  BY <1>2, <1>3, <1>4

LEMMA NumbersAre ==
    ASSUME Lengths, Delivered
    PROVE  Numbers = [k \in 1..Len(got) |-> k]
<1>1. Len(got) \in 0..Packets /\ got = [k \in 1..Len(got) |-> Packet(k)]
  BY DEF Delivered
<1>2. ASSUME NEW k \in 1..Len(got) PROVE Number(got[k]) = k
  <2>1. k \in 1..Packets
    BY <1>1, TcpRecvAssumption
  <2>2. got[k] = Packet(k)
    BY <1>1
  <2>3. QED
    BY <2>1, <2>2, NumberOf
<1>3. QED
  BY <1>2 DEF Numbers

Written == Cardinality(Absent(out))

\* PacketStream's state and steps, in these terms
LEMMA StreamIs ==
    /\ UNCHANGED Stream!vars <=> UNCHANGED <<Written, Numbers, link>>
    /\ Stream!Init <=> Written = 0 /\ Numbers = <<>> /\ link = "open"
    /\ Stream!Write <=>
          /\ Written' \in Nat /\ Written' > Written
          /\ UNCHANGED <<Numbers, link>>
    /\ Stream!Deliver <=>
          /\ link = "open" /\ Len(Numbers) < Written
          /\ Numbers' = Append(Numbers, Len(Numbers) + 1)
          /\ UNCHANGED <<Written, link>>
    /\ Stream!End <=>
          /\ link = "open" /\ Len(Numbers) = Written
          /\ link' = "ended"
          /\ UNCHANGED <<Written, Numbers>>
    /\ Stream!Break <=>
          /\ link = "open"
          /\ link' = "broken"
          /\ UNCHANGED <<Written, Numbers>>
<1>1. UNCHANGED Stream!vars <=> UNCHANGED <<Written, Numbers, link>>
  BY DEF Stream!vars, Written, Absent, Numbers
<1>2. Stream!Init <=> Written = 0 /\ Numbers = <<>> /\ link = "open"
  BY DEF Stream!Init, Written, Absent, Numbers
<1>3. Stream!Write <=> /\ Written' \in Nat /\ Written' > Written
                       /\ UNCHANGED <<Numbers, link>>
  BY DEF Stream!Write, Written, Absent, Numbers
<1>4. Stream!Deliver <=> /\ link = "open" /\ Len(Numbers) < Written
                         /\ Numbers' = Append(Numbers, Len(Numbers) + 1)
                         /\ UNCHANGED <<Written, link>>
  BY DEF Stream!Deliver, Written, Absent, Numbers
<1>5. Stream!End <=> /\ link = "open" /\ Len(Numbers) = Written
                     /\ link' = "ended"
                     /\ UNCHANGED <<Written, Numbers>>
  BY DEF Stream!End, Written, Absent, Numbers
<1>6. Stream!Break <=> /\ link = "open"
                       /\ link' = "broken"
                       /\ UNCHANGED <<Written, Numbers>>
  BY DEF Stream!Break, Written, Absent, Numbers
<1>7. QED
  BY <1>1, <1>2, <1>3, <1>4, <1>5, <1>6

\* The two numbers in a state of the invariant
LEMMA StreamState ==
    ASSUME Lengths, Delivered, NEW w \in Nat, w <= Len(All), out = Seg(All, w, Len(All))
    PROVE  /\ Written = Ended(w) /\ Written \in 0..Packets
           /\ Numbers = [k \in 1..Len(got) |-> k] /\ Len(Numbers) = Len(got)
<1>1. Written = Ended(w)
  BY WrittenIs DEF Written
<1>2. Ended(w) \in 0..Packets
  BY EndedFacts
<1>3. Numbers = [k \in 1..Len(got) |-> k]
  BY NumbersAre
<1>4. Len(got) \in Nat
  BY TcpRecvAssumption DEF Delivered
<1>5. Numbers \in [1..Len(got) -> Nat]
  BY <1>3, <1>4
<1>6. Len(Numbers) = Len(got)
  BY <1>4, <1>5, SeqDef, LenProperties
<1>7. QED
  BY <1>1, <1>2, <1>3, <1>6

LEMMA StreamInit ==
    ASSUME Init
    PROVE  Stream!Init
<1>1. Lengths /\ Delivered
  BY InitIInv DEF IInv
<1>2. out = All /\ got = <<>> /\ link = "open"
  BY DEF Init, All, First
<1>3. 0 <= Len(All) /\ Len(All) \in Nat /\ All \in Seq(Byte) /\ 0 + 1 = 1
  BY <1>1, AllFacts
<1>4. Seg(All, 0, Len(All)) = All
  BY <1>3, SubSeqFull DEF Seg
<1>5. Written = Ended(0) /\ Numbers = [k \in 1..Len(got) |-> k]
  BY <1>1, <1>2, <1>3, <1>4, StreamState
<1>6. Ended(0) = 0
  <2>1. CASE Packets = 0
    <3>1. Ended(0) \in 0..Packets
      BY <1>1, <1>3, EndedFacts
    <3>2. QED
      BY <2>1, <3>1
  <2>2. CASE Packets # 0
    <3>1. 1 \in 1..Packets /\ Starts(0, 1) /\ 0 <= 0
      BY <1>1, <2>2, Everywhere, TcpRecvAssumption
    <3>2. lens[1] \in Nat /\ lens[1] >= 1 /\ 0 < 0 + lens[1]
      BY <1>1, <3>1, PacketType
    <3>3. Ended(0) = 1 - 1
      BY <1>1, <1>3, <3>1, <3>2, EndedFacts
    <3>4. QED
      BY <3>3
  <2>3. QED
    BY <2>1, <2>2
<1>7. Numbers = <<>>
  <2>1. Len(got) = 0
    BY <1>2
  <2>2. Numbers = [k \in 1..0 |-> k]
    BY <1>5, <2>1
  <2>3. [k \in 1..0 |-> k] \in [1..0 -> Nat]
    OBVIOUS
  <2>4. [k \in 1..0 |-> k] \in Seq(Nat) /\ Len([k \in 1..0 |-> k]) = 0
    BY <2>3, SeqDef, LenProperties
  <2>5. QED
    BY <2>2, <2>4, EmptySeq
<1>8. QED
  BY <1>2, <1>5, <1>6, <1>7, StreamIs

\* What a packet whose last byte the peer has not written leaves to be delivered
LEMMA AllDelivered ==
    ASSUME Lengths, Delivered, NEW s \in Nat, NEW h \in Nat, NEW r \in Nat, NEW w \in Nat,
           Placed(s, h, r, w), Waits(s, h, r), wire = <<>>
    PROVE  Ended(w) = Len(got)
<1>1. /\ Len(All) \in Nat /\ s <= w /\ w <= Len(All) /\ r <= w /\ Len(wire) = w - r
      /\ Upcoming \in 1..(Packets + 1)
  BY PlacedFacts
<1>2. Starts(s, Upcoming) /\ h = r /\ Len(wire) = 0
  BY DEF Placed, Waits
<1>3. w = h
  BY <1>1, <1>2
<1>4. Packets \in Nat /\ Len(got) \in Nat /\ Upcoming = Len(got) + 1
  BY TcpRecvAssumption DEF Delivered, Upcoming
<1>5. CASE Upcoming = Packets + 1
  <2>1. Ended(w) = Packets
    BY <1>1, <1>2, <1>5, EndedFacts
  <2>2. QED
    BY <1>4, <1>5, <2>1
<1>6. CASE Upcoming # Packets + 1
  <2>1. PICK p \in 1..Packets : p = Upcoming
    BY <1>1, <1>4, <1>6
  <2>2. lens[p] \in Nat /\ lens[p] >= 1
    BY PacketType
  <2>3. w < s + lens[p]
    BY <1>3, <2>1, <2>2 DEF Waits
  <2>4. Ended(w) = p - 1
    BY <1>1, <1>2, <2>1, <2>3, EndedFacts
  <2>5. QED
    BY <1>4, <2>1, <2>4
<1>7. QED
  BY <1>5, <1>6

LEMMA StreamStep ==
    ASSUME IInv, IInv', [Next]_vars
    PROVE  [Stream!Next]_(Stream!vars)
<1>1. Lengths /\ Delivered /\ Linked /\ Delivered' /\ Linked'
  BY DEF IInv
<1>2. PICK s \in Nat, h \in Nat, r \in Nat, w \in Nat :
          Placed(s, h, r, w) /\ (Waits(s, h, r) \/ Works(s, h, r))
  BY DEF IInv
<1>3. /\ Len(All) \in Nat /\ s <= r /\ r <= w /\ s <= w /\ w <= Len(All)
      /\ out = Seg(All, w, Len(All)) /\ Len(out) = Len(All) - w /\ Starts(s, Upcoming)
  BY <1>1, <1>2, PlacedFacts DEF Placed
<1>4. /\ Written = Ended(w) /\ Written \in 0..Packets
      /\ Numbers = [k \in 1..Len(got) |-> k] /\ Len(Numbers) = Len(got)
  BY <1>1, <1>3, StreamState
<1>5. lens' = lens => \A b : Number(b)' = Number(b)
  BY DEF Number, Packet
<1>6. lens' = lens /\ got' = got => Numbers' = Numbers
  BY <1>5 DEF Numbers
<1>7. lens' = lens /\ out' = out => Written' = Written
  BY DEF Written, Absent
<1>8. CASE PeerWrites
  <2>1. PICK n \in 1..Len(out) : out' = Drop(out, n)
    BY <1>8 DEF PeerWrites
  <2>2. lens' = lens /\ got' = got /\ link' = link
    BY <1>8 DEF PeerWrites
  <2>3. PICK v \in Nat : v = w + n
    BY <1>3
  <2>4. n = v - w /\ w <= v /\ v <= Len(All) /\ Len(All) <= Len(All)
    BY <1>3, <2>3
  <2>5. out' = Seg(All, v, Len(All))
    BY <1>1, <1>3, <2>1, <2>4, AllCut
  <2>6. Written' = Ended(v)
    <3>1. Cardinality(Absent(Seg(All, v, Len(All)))) = Ended(v)
      BY <1>1, <2>4, WrittenIs
    <3>2. Written' = Cardinality(Absent(out'))
      BY DEF Written, Absent
    <3>3. QED
      BY <2>5, <3>1, <3>2
  <2>7. Ended(w) <= Ended(v) /\ Ended(v) \in 0..Packets
    BY <1>1, <1>3, <2>4, EndedFacts
  <2>8. CASE Written' = Written
    BY <1>6, <2>2, <2>8, StreamIs
  <2>9. CASE Written' # Written
    <3>1. Written' \in Nat /\ Written' > Written
      BY <1>4, <2>6, <2>7, <2>9, TcpRecvAssumption
    <3>2. QED
      <4>1. Stream!Write
        BY <1>6, <2>2, <3>1, StreamIs
      <4>2. Stream!Next
        BY <4>1 DEF Stream!Next
      <4>3. QED
        BY <4>2
  <2>10. QED
    BY <2>8, <2>9
<1>9. CASE PeerCloses \/ Poll \/ UNCHANGED vars
  <2>1. lens' = lens /\ got' = got /\ out' = out /\ link' = link
    BY <1>9 DEF PeerCloses, Poll, vars, peer
  <2>2. QED
    BY <1>6, <1>7, <2>1, StreamIs
<1>10. CASE Recv
  <2>1. /\ lens' = lens /\ got' = got /\ out' = out
        /\ link' = "error" \/ link' = link
    BY <1>10 DEF Recv
  <2>2. link' = link
    BY <1>1, <2>1 DEF Linked
  <2>3. QED
    BY <1>6, <1>7, <2>1, <2>2, StreamIs
<1>11. CASE Breaks
  <2>1. /\ lens' = lens /\ got' = got /\ out' = out
        /\ link = "open" /\ link' = "broken"
    BY <1>11 DEF Breaks, peer
  <2>2. QED
    <3>1. Stream!Break
      BY <1>6, <1>7, <2>1, StreamIs
    <3>2. Stream!Next
      BY <3>1 DEF Stream!Next
    <3>3. QED
      BY <3>2
<1>12. CASE RecvNothing
  <2>1. /\ lens' = lens /\ got' = got /\ out' = out
        /\ link' = IF fin THEN "ended" ELSE link
        /\ pc = "recv" /\ wire = <<>>
    BY <1>12 DEF RecvNothing, peer
  <2>2. Numbers' = Numbers /\ Written' = Written
    BY <1>6, <1>7, <2>1
  <2>3. CASE fin
    <3>1. Waits(s, h, r) /\ link = "open"
      BY <1>1, <1>2, <2>1 DEF Works, Linked
    <3>2. Ended(w) = Len(got)
      BY <1>1, <1>2, <2>1, <3>1, AllDelivered
    <3>3. Len(Numbers) = Written
      BY <1>4, <3>2
    <3>4. QED
      <4>1. Stream!End
        BY <2>1, <2>2, <2>3, <3>1, <3>3, StreamIs
      <4>2. Stream!Next
        BY <4>1 DEF Stream!Next
      <4>3. QED
        BY <4>2
  <2>4. CASE ~fin
    BY <2>1, <2>2, <2>4, StreamIs
  <2>5. QED
    BY <2>3, <2>4
<1>13. CASE Process
  <2>1. PICK b : got' = Append(got, b)
    BY <1>13 DEF Process
  <2>2. /\ lens' = lens /\ out' = out /\ pc = "process"
        /\ link' = "error" \/ link' = link
    BY <1>13 DEF Process, peer
  <2>3. link' = link /\ link = "open"
    BY <1>1, <2>2 DEF Linked
  <2>4. PICK p \in 1..Packets : p = Upcoming
    <3>1. Upcoming <= Packets
      BY <1>2, <2>2 DEF Waits, Works
    <3>2. Upcoming \in 1..(Packets + 1)
      BY <1>1, <1>2, PlacedFacts
    <3>3. QED
      BY <3>1, <3>2, TcpRecvAssumption
  <2>5. Len(got) = p - 1 /\ p \in Nat
    BY <1>1, <2>4, TcpRecvAssumption DEF Delivered, Upcoming
  <2>6. Len(Numbers) < Written
    <3>1. Works(s, h, r)
      BY <1>2, <2>2 DEF Waits
    <3>2. lens[p] \in Nat /\ lens[p] <= r - s
      BY <1>1, <2>4, <3>1, PacketType DEF Works
    <3>3. s + lens[p] <= w /\ Starts(s, p)
      BY <1>3, <2>4, <3>2
    <3>4. p <= Ended(w)
      BY <1>1, <1>3, <3>3, EndedFacts
    <3>5. QED
      BY <1>4, <2>5, <3>4, TcpRecvAssumption
  <2>7. Len(got') = p
    <3>1. got = [k \in 1..Len(got) |-> Packet(k)] /\ Len(got) \in 0..Packets
      BY <1>1 DEF Delivered
    <3>2. got \in Seq(Seq(Byte))
      BY <1>1, <3>1, PacketsUpTo
    <3>3. Len(Append(got, b)) = Len(got) + 1
      BY <3>2
    <3>4. QED
      BY <2>1, <2>5, <3>3
  <2>8. Numbers' = [k \in 1..p |-> k]
    <3>1. \A k : Packet(k)' = Packet(k)
      BY <2>2 DEF Packet
    <3>2. got' = [k \in 1..p |-> Packet(k)]
      BY <1>1, <2>7, <3>1 DEF Delivered
    <3>3. ASSUME NEW k \in 1..p PROVE Number(got'[k]) = k
      <4>1. k \in 1..Packets
        BY TcpRecvAssumption
      <4>2. Number(Packet(k)) = k
        BY <1>1, <4>1, NumberOf
      <4>3. QED
        BY <3>2, <4>2
    <3>4. Numbers' = [k \in 1..Len(got') |-> Number(got'[k])]
      <4>1. lens' = lens
        BY <2>2
      <4>2. QED
        BY <4>1 DEF Numbers, Number, Packet
    <3>5. QED
      BY <2>7, <3>3, <3>4
  <2>9. Numbers' = Append(Numbers, Len(Numbers) + 1)
    <3>1. PICK x : x = [k \in 1..(p - 1) |-> k]
      OBVIOUS
    <3>2. PICK y : y = [k \in 1..p |-> k]
      OBVIOUS
    <3>3. x \in [1..(p - 1) -> Nat] /\ y \in [1..p -> Nat] /\ p - 1 \in Nat
      BY <3>1, <3>2
    <3>4. x \in Seq(Nat) /\ Len(x) = p - 1 /\ y \in Seq(Nat) /\ Len(y) = p
      BY <2>5, <3>3, SeqDef, LenProperties
    <3>5. PICK z : z = Append(x, p)
      OBVIOUS
    <3>6. /\ z \in Seq(Nat) /\ Len(z) = p
          /\ \A i \in 1..(p - 1) : z[i] = x[i]
          /\ z[p] = p
      BY <2>5, <3>4, <3>5, AppendProperties
    <3>7. \A i \in 1..p : z[i] = y[i]
      <4>1. ASSUME NEW i \in 1..p, i # p PROVE z[i] = y[i]
        <5>1. i \in 1..(p - 1)
          BY <2>5, <4>1
        <5>2. QED
          BY <3>1, <3>2, <3>6, <5>1
      <4>2. z[p] = y[p]
        BY <2>5, <3>2, <3>6
      <4>3. QED
        BY <4>1, <4>2
    <3>8. z = y
      BY <3>4, <3>6, <3>7, SeqEqual
    <3>9. Numbers = x /\ Len(Numbers) + 1 = p
      BY <1>4, <2>5, <3>1
    <3>10. QED
      BY <2>8, <3>2, <3>5, <3>8, <3>9
  <2>10. QED
    <3>1. Stream!Deliver
      BY <1>7, <2>2, <2>3, <2>6, <2>9, StreamIs
    <3>2. Stream!Next
      BY <3>1 DEF Stream!Next
    <3>3. QED
      BY <3>2
<1>14. QED
  BY <1>8, <1>9, <1>10, <1>11, <1>12, <1>13 DEF Next

\* onRecv and the poller implement what a connection promises, but for the
\* liveness of it: the peer's packets are handed on once, in order, each after
\* its last byte was written, and an orderly end leaves none behind.
THEOREM StreamRefined == Spec => Stream!Init /\ [][Stream!Next]_(Stream!vars)
<1>1. IInv /\ IInv' /\ [Next]_vars => [Stream!Next]_(Stream!vars)
  BY StreamStep
<1>2. Init => Stream!Init
  BY StreamInit
<1>3. QED
  BY <1>1, <1>2, InitIInv, Preserved, PTL DEF Spec
=============================================================================
