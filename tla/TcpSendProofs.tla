--------------------------- MODULE TcpSendProofs ---------------------------
(***************************************************************************)
(* What holds of TcpSend for any number and length of packets and any size *)
(* of the kernel's buffer.                                                 *)
(*                                                                         *)
(* The two places of the interest in EPOLLOUT agree one way only: what     *)
(* m_PollType says is registered (Registered), while a registration made   *)
(* outside the callbacks is not in m_PollType.  The lengths of the data    *)
(* play no part in that.                                                   *)
(*                                                                         *)
(* They are all there is to the second result: wherever the kernel cuts a  *)
(* packet or a queue of buffers, the stream of an open connection carries  *)
(* every byte (Delivered).  A packet that is cut lands in the stream in    *)
(* two places, behind the wire and behind what waits (Spread), and onSend  *)
(* leaves the stream as it is (OnSendKeeps).                               *)
(***************************************************************************)
EXTENDS TcpSend, FiniteSetTheorems, SequenceTheorems, WellFoundedInduction, TLAPS

\* What is in m_PollType is registered with epoll.
Registered == link = "open" /\ tx.out => armed

Fields == {"sendBuf", "list", "wire", "out"}

\* The unit has its fields, the flags are flags.
Shape == /\ tx = [f \in Fields |-> tx[f]]
         /\ tx.out \in BOOLEAN /\ armed \in BOOLEAN

IInv == Shape /\ Registered /\ PendingArmed

----------------------------------------------------------------------------

\* sendData queues only what falls short, and writes no other field.
LEMMA SendDataFacts ==
    ASSUME NEW u, u = [f \in Fields |-> u[f]], NEW b
    PROVE  LET r == SendData(u, b) IN
           /\ r = [f \in Fields |-> r[f]]
           /\ r.out = u.out
           /\ Pending(r) => Pending(u) \/ FallsShort(u, b)
BY DEF Fields, SendData, Pending, FallsShort

\* onSend asks for EPOLLOUT exactly when it leaves something behind.
LEMMA OnSendFacts ==
    ASSUME NEW u
    PROVE  LET r == OnSend(u) IN
           /\ r = [f \in Fields |-> r[f]]
           /\ r.out \in BOOLEAN
           /\ Pending(r) => r.out
<1> DEFINE bufs == Buffers(u)
           all == FlattenSeq(bufs)
           k == Least(Len(all), Free(u))
           size(j) == Len(FlattenSeq(SubSeq(bufs, 1, j)))
           whole == CHOOSE j \in 0..Len(bufs) :
                      size(j) <= k /\ (j < Len(bufs) => k < size(j + 1))
           done == whole = Len(bufs)
           sb == IF done THEN <<>> ELSE From(bufs[whole + 1], k - size(whole))
           ls == IF done THEN <<>> ELSE From(bufs, whole + 1)
           w == u.wire \o SubSeq(all, 1, k)
           r == OnSend(u)
<1>1. OnSend(u) = [sendBuf |-> sb, list |-> ls, wire |-> w, out |-> ~done]
  BY DEF OnSend
<1>2. done \in BOOLEAN /\ (done => sb = <<>> /\ ls = <<>>)
  OBVIOUS
<1> HIDE DEF sb, ls, w, done
<1>3. r = [f \in Fields |-> r[f]]
  BY <1>1 DEF Fields
<1>4. r.out = ~done /\ r.sendBuf = sb /\ r.list = ls
  BY <1>1
<1> HIDE DEF r
<1>5. r.out \in BOOLEAN /\ (Pending(r) => r.out)
  BY <1>2, <1>4 DEF Pending
<1>6. QED
  BY <1>3, <1>5 DEF r

LEMMA SendStep ==
    ASSUME IInv, NEW n, Send(n)
    PROVE  IInv'
<1> DEFINE b == NewPacket(n)
<1>1. /\ link = "open" /\ link' = "open" /\ tx' = SendData(tx, b)
      /\ armed' = (armed \/ FallsShort(tx, b))
  BY DEF Send
<1> HIDE DEF b
<1>2. /\ tx' = [f \in Fields |-> tx'[f]] /\ tx'.out = tx.out
      /\ Pending(tx') => Pending(tx) \/ FallsShort(tx, b)
  BY <1>1, SendDataFacts DEF IInv, Shape
<1>3. FallsShort(tx, b) \in BOOLEAN
  BY DEF FallsShort
<1>4. Shape'
  BY <1>1, <1>2, <1>3 DEF IInv, Shape
<1>5. Registered' /\ PendingArmed'
  BY <1>1, <1>2 DEF IInv, Shape, Registered, PendingArmed
<1>6. QED
  BY <1>4, <1>5 DEF IInv

LEMMA PollStep ==
    ASSUME IInv, NEW reply, Poll(reply)
    PROVE  IInv'
<1> DEFINE writable == armed /\ Free(tx) > 0
           in == IF reply = <<>> THEN tx
                 ELSE [SendData(tx, reply) EXCEPT !.out = @ \/ FallsShort(tx, reply)]
           out == IF writable THEN OnSend(in) ELSE in
<1>1. /\ link = "open" /\ link' = "open" /\ tx' = out
      /\ armed' = IF tx.out # out.out THEN out.out ELSE armed
  BY DEF Poll, ReRegister
\* The reply leaves nothing waiting that m_PollType does not name, unless it
\* was registered before.
<1>2. /\ in = [f \in Fields |-> in[f]] /\ in.out \in BOOLEAN
      /\ Pending(in) => in.out \/ armed
      /\ tx.out => in.out
  <2>1. CASE reply = <<>>
    BY <1>1, <2>1 DEF IInv, Shape, PendingArmed
  <2>2. CASE reply # <<>>
    <3> DEFINE r == SendData(tx, reply)
    <3>1. /\ r = [f \in Fields |-> r[f]] /\ r.out = tx.out
          /\ Pending(r) => Pending(tx) \/ FallsShort(tx, reply)
      BY SendDataFacts DEF IInv, Shape
    <3>2. in = [r EXCEPT !.out = r.out \/ FallsShort(tx, reply)]
      BY <2>2
    <3>3. FallsShort(tx, reply) \in BOOLEAN
      BY DEF FallsShort
    <3> HIDE DEF r, in
    <3>4. /\ in = [f \in Fields |-> in[f]] /\ in.out = (r.out \/ FallsShort(tx, reply))
          /\ in.sendBuf = r.sendBuf /\ in.list = r.list
      BY <3>1, <3>2 DEF Fields
    <3>5. QED
      BY <1>1, <3>1, <3>3, <3>4 DEF IInv, Shape, PendingArmed, Pending
  <2>3. QED
    BY <2>1, <2>2
<1> HIDE DEF in
<1>3. /\ out = [f \in Fields |-> out[f]] /\ out.out \in BOOLEAN
      /\ Pending(out) => out.out \/ (armed /\ (tx.out => out.out))
  <2>1. CASE writable
    BY <2>1, OnSendFacts
  <2>2. CASE ~writable
    BY <1>2, <2>2
  <2>3. QED
    BY <2>1, <2>2
<1> HIDE DEF out
<1>4. Shape'
  BY <1>1, <1>3 DEF IInv, Shape
<1>5. Registered' /\ PendingArmed'
  BY <1>1, <1>3 DEF IInv, Shape, Registered, PendingArmed
<1>6. QED
  BY <1>4, <1>5 DEF IInv

LEMMA SendFailsStep ==
    ASSUME IInv, NEW n, SendFails(n)
    PROVE  IInv'
<1>1. link' # "open" /\ armed' \in BOOLEAN
  BY DEF IInv, Shape, SendFails
<1>2. tx' = [f \in Fields |-> tx'[f]] /\ tx'.out \in BOOLEAN
  BY DEF IInv, Shape, SendFails, Fields
<1>3. QED
  BY <1>1, <1>2 DEF IInv, Shape, Registered, PendingArmed

LEMMA PeerReadsStep ==
    ASSUME IInv, PeerReads
    PROVE  IInv'
<1>1. UNCHANGED <<armed, link>> /\ tx' = [tx EXCEPT !.wire = Tail(tx.wire)]
  BY DEF PeerReads
<1>2. /\ tx' = [f \in Fields |-> tx'[f]]
      /\ tx'.out = tx.out /\ tx'.list = tx.list /\ tx'.sendBuf = tx.sendBuf
  BY <1>1 DEF IInv, Shape, Fields
<1>3. QED
  BY <1>1, <1>2 DEF IInv, Shape, Registered, PendingArmed, Pending

LEMMA Preserved == IInv /\ [Next]_vars => IInv'
<1> SUFFICES ASSUME IInv, [Next]_vars PROVE IInv'
  OBVIOUS
<1>1. CASE Breaks \/ PollError
  BY <1>1 DEF IInv, Shape, Registered, PendingArmed, Breaks, PollError
<1>2. CASE Done \/ UNCHANGED vars
  BY <1>2 DEF IInv, Shape, Registered, PendingArmed, Pending, Done, vars
<1>3. ASSUME NEW n \in 1..MaxLen, Send(n) \/ SendFails(n) \/ Poll(NewPacket(n))
      PROVE  IInv'
  BY <1>3, SendStep, SendFailsStep, PollStep
<1>4. CASE Poll(<<>>) \/ PeerReads
  BY <1>4, PollStep, PeerReadsStep
<1>5. QED
  BY <1>1, <1>2, <1>3, <1>4, Zenon DEF Next

\* Data waiting on an open connection has EPOLLOUT registered, whatever is
\* sent, in callbacks and outside them, and however little the kernel takes.
THEOREM WaitingIsArmed == Spec => []PendingArmed
<1>1. Init => IInv
  <2> SUFFICES ASSUME Init PROVE IInv
    OBVIOUS
  <2>1. /\ tx.out = FALSE /\ tx.sendBuf = <<>> /\ tx.list = <<>> /\ armed = FALSE
        /\ tx = [f \in Fields |-> tx[f]]
    BY DEF Init, Fields
  <2>2. QED
    BY <2>1 DEF IInv, Shape, Registered, PendingArmed, Pending
<1>2. IInv => PendingArmed
  BY DEF IInv
<1>3. QED
  BY <1>1, <1>2, Preserved, PTL DEF Spec
----------------------------------------------------------------------------
(* Least numbers, and induction up to one *)

\* Well-foundedness of the order on numbers, from that of set inclusion.
LEMMA LeastNumber ==
    ASSUME NEW T \in SUBSET Nat, T # {}
    PROVE  \E n \in T : \A m \in T : n <= m
<1> DEFINE R == StrictSubsetOrdering(Nat)
           F == {0 .. n : n \in T}
<1>1. F \subseteq FiniteSubsetsOf(Nat) /\ F # {}
  <2>1. \A n \in Nat : 0 .. n \in FiniteSubsetsOf(Nat)
    BY FS_Interval DEF FiniteSubsetsOf
  <2>2. QED
    BY <2>1
<1>2. \E X \in F : \A Y \in F : ~ (<<Y, X>> \in R)
  <2>1. IsWellFoundedOn(R, FiniteSubsetsOf(Nat))
    BY FS_StrictSubsetOrderingWellFounded
  <2> HIDE DEF F, R
  <2>2. QED
    BY <1>1, <2>1, WFMin
<1>3. PICK n \in T : \A Y \in F : ~ (<<Y, 0 .. n>> \in R)
  BY <1>2
<1>4. ASSUME NEW m \in T, m < n PROVE FALSE
  <2>1. n \in 0 .. n /\ n \notin 0 .. m
    BY <1>4
  <2>2. 0 .. m \subseteq 0 .. n /\ 0 .. m # 0 .. n
    BY <1>4, <2>1
  <2>3. <<0 .. m, 0 .. n>> \in R
    BY <2>2 DEF StrictSubsetOrdering
  <2>4. QED
    BY <1>3, <2>3
<1>5. QED
  BY <1>4

\* Induction up to a number, for a set of numbers.
LEMMA UpTo ==
    ASSUME NEW N \in Nat, NEW T, 0 \in T,
           \A n \in 1..N : n - 1 \in T => n \in T
    PROVE  \A n \in 0..N : n \in T
<1> DEFINE U == {n \in 0..N : n \notin T}
<1>1. SUFFICES ASSUME U # {} PROVE FALSE
  OBVIOUS
<1>2. PICK n \in U : \A m \in U : n <= m
  <2>1. U \in SUBSET Nat
    OBVIOUS
  <2> HIDE DEF U
  <2>2. QED
    BY <1>1, <2>1, LeastNumber
<1>3. n \in 0..N /\ n \notin T /\ n # 0
  BY <1>2
<1>4. n \in 1..N /\ n - 1 \in 0..N /\ n - 1 < n
  BY <1>3
<1>5. n - 1 \in T
  BY <1>2, <1>4
<1>6. QED
  BY <1>3, <1>4, <1>5
----------------------------------------------------------------------------
(* Flattened sequences *)

FlatUpTo(g, seqs, N) ==
    g = [i \in 1..N |-> IF i = 1 THEN seqs[i] ELSE g[i - 1] \o seqs[i]]

LEMMA FlatExists ==
    ASSUME NEW seqs, Len(seqs) \in Nat \ {0}
    PROVE  \E g : FlatUpTo(g, seqs, Len(seqs)) /\ FlattenSeq(seqs) = g[Len(seqs)]
<1> DEFINE L == Len(seqs)
           T == {N \in 0..L : \E g : FlatUpTo(g, seqs, N)}
<1>1. 0 \in T
  <2> DEFINE g == [i \in 1..0 |-> <<>>]
  <2>1. 1..0 = {}
    OBVIOUS
  <2>2. FlatUpTo(g, seqs, 0)
    BY <2>1 DEF FlatUpTo
  <2> HIDE DEF g
  <2>3. QED
    BY <2>2
<1>2. ASSUME NEW N \in 1..L, N - 1 \in T PROVE N \in T
  <2>1. PICK g : FlatUpTo(g, seqs, N - 1)
    BY <1>2
  <2> DEFINE h == [i \in 1..N |-> IF i = N THEN (IF N = 1 THEN seqs[N] ELSE g[N - 1] \o seqs[N])
                                  ELSE g[i]]
  <2>2. \A i \in 1..(N - 1) : g[i] = IF i = 1 THEN seqs[i] ELSE g[i - 1] \o seqs[i]
    BY <2>1, Zenon DEF FlatUpTo
  <2>3. N \in Nat /\ N # 0 /\ \A i \in 1..(N - 1) : i \in 1..N /\ i # N
    OBVIOUS
  <2>4. h[N] = IF N = 1 THEN seqs[N] ELSE h[N - 1] \o seqs[N]
    <3>1. N # 1 => h[N - 1] = g[N - 1]
      BY <2>3
    <3>2. h[N] = IF N = 1 THEN seqs[N] ELSE g[N - 1] \o seqs[N]
      BY <2>3
    <3> HIDE DEF h
    <3>3. QED
      BY <3>1, <3>2
  <2>5. ASSUME NEW i \in 1..N, i # N
        PROVE  h[i] = IF i = 1 THEN seqs[i] ELSE h[i - 1] \o seqs[i]
    <3>1. i \in 1..(N - 1) /\ h[i] = g[i]
      BY <2>5
    <3>2. i # 1 => h[i - 1] = g[i - 1]
      BY <2>5
    <3> HIDE DEF h
    <3>3. QED
      BY <2>2, <3>1, <3>2
  <2>6. FlatUpTo(h, seqs, N)
    <3>1. h = [i \in 1..N |-> h[i]]
      OBVIOUS
    <3> HIDE DEF h
    <3>2. \A i \in 1..N : h[i] = IF i = 1 THEN seqs[i] ELSE h[i - 1] \o seqs[i]
      BY <2>3, <2>4, <2>5
    <3>3. QED
      BY <3>1, <3>2 DEF FlatUpTo
  <2> HIDE DEF h
  <2>7. QED
    BY <2>6
<1>3. L \in T
  <2> HIDE DEF T
  <2>1. \A N \in 0..L : N \in T
    BY <1>1, <1>2, UpTo
  <2>2. QED
    BY <2>1
<1>4. PICK g0 : FlatUpTo(g0, seqs, L)
  BY <1>3
<1> DEFINE Is(f) == f = [i \in 1..L |-> IF i = 1 THEN seqs[i] ELSE f[i - 1] \o seqs[i]]
           k == CHOOSE f : Is(f)
<1>5. FlattenSeq(seqs) = k[L]
  BY DEF FlattenSeq
<1>6. Is(k)
  <2>1. Is(g0)
    BY <1>4 DEF FlatUpTo
  <2> HIDE DEF Is
  <2>2. QED
    BY <2>1
<1>7. FlatUpTo(k, seqs, L)
  BY <1>6, Zenon DEF FlatUpTo
<1> HIDE DEF k
<1>8. QED
  BY <1>5, <1>7

\* One sequence more.
LEMMA FlatAppend ==
    ASSUME NEW X, NEW s \in Seq(Seq(X)), NEW x \in Seq(X), FlattenSeq(s) \in Seq(X)
    PROVE  FlattenSeq(Append(s, x)) = FlattenSeq(s) \o x
<1> DEFINE L == Len(s)
           t == Append(s, x)
<1>1. /\ L \in Nat /\ Len(t) = L + 1
      /\ \A i \in 1..L : t[i] = s[i]
      /\ t[L + 1] = x
  BY AppendProperties, LenProperties
<1> HIDE DEF t
<1>2. PICK g : FlatUpTo(g, t, L + 1) /\ FlattenSeq(t) = g[L + 1]
  BY <1>1, FlatExists
<1>3. \A i \in 1..(L + 1) : g[i] = IF i = 1 THEN t[i] ELSE g[i - 1] \o t[i]
  BY <1>2, Zenon DEF FlatUpTo
<1>4. CASE L = 0
  <2>1. g[1] = t[1] /\ t[1] = x
    BY <1>1, <1>3, <1>4
  <2>2. FlattenSeq(s) = <<>>
    BY <1>4 DEF FlattenSeq
  <2>3. <<>> \o x = x
    BY ConcatEmptySeq
  <2>4. QED
    BY <1>2, <1>4, <2>1, <2>2, <2>3 DEF t
<1>5. CASE L # 0
  <2>1. PICK h : FlatUpTo(h, s, L) /\ FlattenSeq(s) = h[L]
    BY <1>1, <1>5, FlatExists
  <2>2. \A i \in 1..L : h[i] = IF i = 1 THEN s[i] ELSE h[i - 1] \o s[i]
    BY <2>1, Zenon DEF FlatUpTo
  <2> DEFINE T == {i \in 0..L : i = 0 \/ g[i] = h[i]}
  <2>3. ASSUME NEW i \in 1..L, i - 1 \in T PROVE i \in T
    <3>1. i \in 1..(L + 1) /\ t[i] = s[i] /\ (i # 1 => g[i - 1] = h[i - 1])
      BY <1>1, <2>3
    <3>2. g[i] = IF i = 1 THEN s[i] ELSE g[i - 1] \o s[i]
      BY <1>3, <3>1
    <3>3. g[i] = h[i]
      BY <2>2, <3>1, <3>2
    <3>4. QED
      BY <1>1, <3>3
  <2>4. \A i \in 0..L : i \in T
    <3>1. 0 \in T
      BY <1>1
    <3> HIDE DEF T
    <3>2. QED
      BY <1>1, <2>3, <3>1, UpTo
  <2>5. g[L] = h[L]
    BY <1>1, <1>5, <2>4
  <2>6. g[L + 1] = g[L] \o x
    <3>1. L + 1 \in 1..(L + 1) /\ L + 1 # 1 /\ (L + 1) - 1 = L
      BY <1>1, <1>5
    <3>2. g[L + 1] = g[(L + 1) - 1] \o t[L + 1]
      BY <1>3, <3>1
    <3>3. QED
      BY <1>1, <3>1, <3>2
  <2>7. QED
    BY <1>2, <2>1, <2>5, <2>6 DEF t
<1>6. QED
  BY <1>4, <1>5

LEMMA FlatEmpty == FlattenSeq(<<>>) = <<>>
BY DEF FlattenSeq

\* The first n + 1 of a sequence.
LEMMA NextPrefix ==
    ASSUME NEW X, NEW s \in Seq(X), NEW n \in 1..Len(s)
    PROVE  /\ SubSeq(s, 1, n) = Append(SubSeq(s, 1, n - 1), s[n])
           /\ SubSeq(s, 1, n - 1) \in Seq(X) /\ s[n] \in X
<1>1. Len(s) \in Nat /\ \A i \in 1..Len(s) : s[i] \in X
  BY LenProperties, ElementOfSeq
<1>2. 1 \in 1..Len(s) /\ n \in 1..Len(s) /\ n - 1 \in Int
  BY <1>1
<1>3. \A i \in 1..(n - 1) : s[i] \in X
  BY <1>1
<1>4. SubSeq(s, 1, n - 1) \in Seq(X)
  BY <1>2, <1>3, SubSeqProperties
<1>5. SubSeq(s, 1, n) = SubSeq(s, 1, n - 1) \o <<s[n]>>
  BY <1>2, SubSeqRecursiveSecond
<1>6. QED
  BY <1>1, <1>4, <1>5, AppendIsConcat

LEMMA FlatType ==
    ASSUME NEW X, NEW s \in Seq(Seq(X))
    PROVE  FlattenSeq(s) \in Seq(X)
<1> DEFINE T == {n \in 0..Len(s) : FlattenSeq(SubSeq(s, 1, n)) \in Seq(X)}
<1>1. Len(s) \in Nat
  BY LenProperties
<1>2. 0 \in T
  <2>1. SubSeq(s, 1, 0) = <<>>
    BY SubSeqEmpty
  <2>2. FlattenSeq(SubSeq(s, 1, 0)) \in Seq(X)
    BY <2>1, FlatEmpty, EmptySeq
  <2>3. QED
    BY <1>1, <2>2
<1>3. ASSUME NEW n \in 1..Len(s), n - 1 \in T PROVE n \in T
  <2>1. /\ SubSeq(s, 1, n) = Append(SubSeq(s, 1, n - 1), s[n])
        /\ SubSeq(s, 1, n - 1) \in Seq(Seq(X)) /\ s[n] \in Seq(X)
    BY NextPrefix
  <2>2. FlattenSeq(SubSeq(s, 1, n - 1)) \in Seq(X)
    BY <1>3
  <2>3. FlattenSeq(SubSeq(s, 1, n)) = FlattenSeq(SubSeq(s, 1, n - 1)) \o s[n]
    BY <2>1, <2>2, FlatAppend
  <2>4. FlattenSeq(SubSeq(s, 1, n)) \in Seq(X)
    BY <2>1, <2>2, <2>3, ConcatProperties, ZenonT(60)
  <2>5. QED
    BY <1>1, <2>4
<1>4. \A n \in 0..Len(s) : n \in T
  <2> HIDE DEF T
  <2>1. QED
    BY <1>1, <1>2, <1>3, UpTo
<1>5. FlattenSeq(SubSeq(s, 1, Len(s))) \in Seq(X)
  BY <1>1, <1>4
<1>6. SubSeq(s, 1, Len(s)) = s
  BY SubSeqFull
<1>7. QED
  BY <1>5, <1>6

LEMMA Assoc ==
    ASSUME NEW X, NEW a \in Seq(X), NEW b \in Seq(X), NEW c \in Seq(X)
    PROVE  (a \o b) \o c = a \o (b \o c)
BY ConcatAssociative

LEMMA ConcatAppend ==
    ASSUME NEW X, NEW a \in Seq(X), NEW b \in Seq(X), NEW x \in X
    PROVE  a \o Append(b, x) = Append(a \o b, x)
<1>1. <<x>> \in Seq(X) /\ a \o b \in Seq(X)
  BY ConcatProperties
<1>2. Append(b, x) = b \o <<x>> /\ Append(a \o b, x) = (a \o b) \o <<x>>
  BY <1>1, AppendIsConcat
<1>3. (a \o b) \o <<x>> = a \o (b \o <<x>>)
  BY <1>1, Assoc
<1>4. QED
  BY <1>2, <1>3

LEMMA FlatStep ==
    ASSUME NEW X, NEW x \in Seq(X), NEW s \in Seq(Seq(X)), NEW q \in Seq(Seq(X)),
           FlattenSeq(s \o q) = FlattenSeq(s) \o FlattenSeq(q)
    PROVE  FlattenSeq(s \o Append(q, x)) = FlattenSeq(s) \o FlattenSeq(Append(q, x))
<1>1. PICK a : a = FlattenSeq(s)
  OBVIOUS
<1>2. PICK b : b = FlattenSeq(q)
  OBVIOUS
<1>3. a \in Seq(X) /\ b \in Seq(X)
  BY <1>1, <1>2, FlatType
<1>4. FlattenSeq(Append(q, x)) = b \o x
  BY <1>2, <1>3, FlatAppend
<1>5. s \o Append(q, x) = Append(s \o q, x)
  BY ConcatAppend, SMTT(30)
<1>6. s \o q \in Seq(Seq(X)) /\ a \o b \in Seq(X)
  BY <1>3, ConcatProperties
<1>7. FlattenSeq(Append(s \o q, x)) = FlattenSeq(s \o q) \o x
  BY <1>1, <1>2, <1>6, FlatAppend
<1>8. (a \o b) \o x = a \o (b \o x)
  BY <1>3, Assoc, SMTT(30)
<1>9. QED
  BY <1>1, <1>2, <1>4, <1>5, <1>7, <1>8

LEMMA FlatConcat ==
    ASSUME NEW X, NEW s \in Seq(Seq(X)), NEW t \in Seq(Seq(X))
    PROVE  FlattenSeq(s \o t) = FlattenSeq(s) \o FlattenSeq(t)
<1> DEFINE p(n) == SubSeq(t, 1, n)
           T == {n \in 0..Len(t) : FlattenSeq(s \o p(n)) = FlattenSeq(s) \o FlattenSeq(p(n))}
<1>1. Len(t) \in Nat
  BY LenProperties
<1>2. 0 \in T
  <2>1. p(0) = <<>>
    BY SubSeqEmpty
  <2>2. s \o <<>> = s
    BY ConcatEmptySeq
  <2>3. FlattenSeq(s) \o <<>> = FlattenSeq(s)
    BY FlatType, ConcatEmptySeq
  <2> HIDE DEF p
  <2>4. FlattenSeq(s \o p(0)) = FlattenSeq(s) \o FlattenSeq(p(0))
    BY <2>1, <2>2, <2>3, FlatEmpty
  <2>5. QED
    BY <1>1, <2>4
<1>3. ASSUME NEW n \in 1..Len(t), n - 1 \in T PROVE n \in T
  <2>1. p(n) = Append(p(n - 1), t[n]) /\ p(n - 1) \in Seq(Seq(X)) /\ t[n] \in Seq(X)
    BY NextPrefix
  <2>2. FlattenSeq(s \o p(n - 1)) = FlattenSeq(s) \o FlattenSeq(p(n - 1))
    BY <1>3
  <2> HIDE DEF p
  <2>4. FlattenSeq(s \o Append(p(n - 1), t[n]))
          = FlattenSeq(s) \o FlattenSeq(Append(p(n - 1), t[n]))
    BY <2>1, <2>2, FlatStep
  <2>5. FlattenSeq(s \o p(n)) = FlattenSeq(s) \o FlattenSeq(p(n))
    BY <2>1, <2>4
  <2>6. QED
    BY <1>1, <2>5
<1>4. \A n \in 0..Len(t) : n \in T
  <2> HIDE DEF T
  <2>1. QED
    BY <1>1, <1>2, <1>3, UpTo
<1>5. FlattenSeq(s \o p(Len(t))) = FlattenSeq(s) \o FlattenSeq(p(Len(t)))
  BY <1>1, <1>4
<1>6. p(Len(t)) = t
  BY SubSeqFull
<1>7. QED
  BY <1>5, <1>6
----------------------------------------------------------------------------
(* Cutting sequences *)

LEMMA Cut ==
    ASSUME NEW X, NEW s \in Seq(X), NEW k \in 0..Len(s)
    PROVE  /\ SubSeq(s, 1, k) \in Seq(X) /\ Len(SubSeq(s, 1, k)) = k
           /\ From(s, k) \in Seq(X) /\ Len(From(s, k)) = Len(s) - k
           /\ SubSeq(s, 1, k) \o From(s, k) = s
           /\ \A i \in 1..k : SubSeq(s, 1, k)[i] = s[i]
           /\ \A i \in 1..(Len(s) - k) : From(s, k)[i] = s[k + i]
<1> DEFINE L == Len(s)
<1>1. L \in Nat /\ \A i \in 1..L : s[i] \in X
  BY LenProperties, ElementOfSeq
<1>2. k \in Nat /\ k <= L /\ 1 \in Int /\ k \in Int /\ k + 1 \in Int /\ L \in Int
  BY <1>1
<1>3. /\ SubSeq(s, 1, k) \in Seq(X)
      /\ Len(SubSeq(s, 1, k)) = IF 1 <= k THEN k - 1 + 1 ELSE 0
      /\ \A i \in 1..(k - 1 + 1) : SubSeq(s, 1, k)[i] = s[1 + i - 1]
  <2>1. \A i \in 1..k : s[i] \in X
    BY <1>1, <1>2
  <2>2. QED
    BY <1>2, <2>1, SubSeqProperties
<1>4. /\ From(s, k) \in Seq(X)
      /\ Len(From(s, k)) = IF k + 1 <= L THEN L - (k + 1) + 1 ELSE 0
      /\ \A i \in 1..(L - (k + 1) + 1) : From(s, k)[i] = s[(k + 1) + i - 1]
  <2>1. \A i \in (k + 1)..L : s[i] \in X
    BY <1>1, <1>2
  <2> HIDE DEF L
  <2>2. /\ SubSeq(s, k + 1, L) \in Seq(X)
        /\ Len(SubSeq(s, k + 1, L)) = IF k + 1 <= L THEN L - (k + 1) + 1 ELSE 0
        /\ \A i \in 1..(L - (k + 1) + 1) : SubSeq(s, k + 1, L)[i] = s[(k + 1) + i - 1]
    BY <1>2, <2>1, SubSeqProperties
  <2>3. QED
    BY <2>2 DEF From, L
<1>5. SubSeq(s, 1, k) \o From(s, k) = s
  <2>1. 1 \in 1..(L + 1) /\ k \in (1 - 1)..L /\ L \in k..L
    BY <1>1, <1>2
  <2>2. SubSeq(s, 1, k) \o SubSeq(s, k + 1, L) = SubSeq(s, 1, L)
    BY <2>1, ConcatAdjacentSubSeq
  <2>3. QED
    BY <2>2, SubSeqFull DEF From
<1>6. Len(SubSeq(s, 1, k)) = k /\ Len(From(s, k)) = L - k
  BY <1>2, <1>3, <1>4
<1>7. \A i \in 1..k : SubSeq(s, 1, k)[i] = s[i]
  BY <1>2, <1>3
<1>8. \A i \in 1..(L - k) : From(s, k)[i] = s[k + i]
  BY <1>2, <1>4
<1>9. QED
  BY <1>3, <1>4, <1>5, <1>6, <1>7, <1>8

LEMMA Prefix ==
    ASSUME NEW X, NEW a \in Seq(X), NEW b \in Seq(X)
    PROVE  SubSeq(a \o b, 1, Len(a)) = a
<1> DEFINE s == a \o b
<1>1. /\ Len(a) \in Nat /\ Len(b) \in Nat /\ s \in Seq(X) /\ Len(s) = Len(a) + Len(b)
      /\ \A i \in 1..Len(a) : s[i] = a[i]
  BY ConcatProperties, LenProperties
<1> HIDE DEF s
<1>2. Len(a) \in 0..Len(s)
  BY <1>1
<1>3. /\ SubSeq(s, 1, Len(a)) \in Seq(X) /\ Len(SubSeq(s, 1, Len(a))) = Len(a)
      /\ \A i \in 1..Len(a) : SubSeq(s, 1, Len(a))[i] = s[i]
  BY <1>1, <1>2, Cut
<1>4. \A i \in 1..Len(a) : SubSeq(s, 1, Len(a))[i] = a[i]
  BY <1>1, <1>3
<1>5. SubSeq(s, 1, Len(a)) = a
  BY <1>3, <1>4, SeqEqual
<1>6. QED
  BY <1>5 DEF s

\* How far a number of bytes reaches into a sequence of buffers.
LEMMA Reach ==
    ASSUME NEW X, NEW bufs \in Seq(Seq(X)), NEW k \in Nat
    PROVE  \E j \in 0..Len(bufs) :
              /\ Len(FlattenSeq(SubSeq(bufs, 1, j))) <= k
              /\ j < Len(bufs) => k < Len(FlattenSeq(SubSeq(bufs, 1, j + 1)))
<1> DEFINE L == Len(bufs)
           size(j) == Len(FlattenSeq(SubSeq(bufs, 1, j)))
           T == {j \in 0..L : j = L \/ k < size(j + 1)}
<1>1. L \in Nat
  BY LenProperties
<1>2. \A j \in 0..L : size(j) \in Nat
  <2>1. ASSUME NEW j \in 0..L PROVE size(j) \in Nat
    <3>1. SubSeq(bufs, 1, j) \in Seq(Seq(X))
      BY Cut
    <3>2. FlattenSeq(SubSeq(bufs, 1, j)) \in Seq(X)
      BY <3>1, FlatType
    <3>3. QED
      BY <3>2, LenProperties
  <2>2. QED
    BY <2>1
<1>3. size(0) = 0
  <2>1. SubSeq(bufs, 1, 0) = <<>>
    BY SubSeqEmpty
  <2>2. QED
    BY <2>1, FlatEmpty, EmptySeq
<1> HIDE DEF size
<1>4. PICK j \in T : \A i \in T : j <= i
  <2>1. T \in SUBSET Nat /\ L \in T
    BY <1>1
  <2> HIDE DEF T
  <2>2. QED
    BY <2>1, LeastNumber
<1>5. j \in 0..L /\ (j < L => k < size(j + 1))
  BY <1>1, <1>4
<1>6. size(j) <= k
  <2>1. CASE j = 0
    BY <1>3, <2>1
  <2>2. CASE j # 0
    <3>1. j - 1 \in 0..L /\ j - 1 # L /\ (j - 1) + 1 = j /\ ~(j <= j - 1)
      BY <1>1, <1>5, <2>2
    <3>2. j - 1 \notin T
      BY <1>4, <3>1
    <3>3. ~(k < size(j))
      BY <3>1, <3>2
    <3>4. QED
      BY <1>2, <1>5, <3>3
  <2>3. QED
    BY <2>1, <2>2
<1>7. QED
  BY <1>5, <1>6 DEF size
----------------------------------------------------------------------------
(* The bytes on their way *)

Byte == Nat \X Nat

\* A unit's buffers hold bytes, and the kernel takes no more than it has room for.
Unit == [sendBuf : Seq(Byte), list : Seq(Seq(Byte)), wire : Seq(Byte), out : BOOLEAN]
Holds(u) == u \in Unit /\ Len(u.wire) <= Room

\* What the unit has still to write, and what the peer has still to read.
Waiting(u) == u.sendBuf \o FlattenSeq(u.list)
Ahead(u) == u.wire \o Waiting(u)

LEMMA AheadType ==
    ASSUME NEW u, Holds(u)
    PROVE  /\ FlattenSeq(u.list) \in Seq(Byte)
           /\ u.sendBuf \o FlattenSeq(u.list) \in Seq(Byte)
           /\ Ahead(u) \in Seq(Byte)
<1>1. FlattenSeq(u.list) \in Seq(Byte)
  BY FlatType DEF Holds, Unit
<1>2. u.sendBuf \o FlattenSeq(u.list) \in Seq(Byte)
  BY <1>1, ConcatProperties DEF Holds, Unit
<1>3. QED
  BY <1>1, <1>2, ConcatProperties DEF Holds, Unit, Ahead, Waiting

LEMMA BuffersAll ==
    ASSUME NEW u, Holds(u)
    PROVE  /\ Buffers(u) \in Seq(Seq(Byte))
           /\ FlattenSeq(Buffers(u)) = u.sendBuf \o FlattenSeq(u.list)
<1>1. PICK b : b = u.sendBuf
  OBVIOUS
<1>2. PICK l : l = u.list
  OBVIOUS
<1>3. b \in Seq(Byte) /\ l \in Seq(Seq(Byte)) /\ FlattenSeq(l) \in Seq(Byte)
  BY <1>1, <1>2, FlatType DEF Holds, Unit
<1>4. CASE b = <<>>
  <2>1. <<>> \o FlattenSeq(l) = FlattenSeq(l)
    BY <1>3, ConcatEmptySeq
  <2>2. Buffers(u) = l
    BY <1>1, <1>2, <1>4 DEF Buffers
  <2>3. QED
    BY <1>1, <1>2, <1>3, <1>4, <2>1, <2>2
<1>5. CASE b # <<>>
  <2>1. Buffers(u) = <<b>> \o l
    BY <1>1, <1>2, <1>5 DEF Buffers
  <2>2. <<b>> \in Seq(Seq(Byte)) /\ <<>> \in Seq(Seq(Byte)) /\ <<>> \in Seq(Byte)
    BY <1>3
  <2>3. FlattenSeq(<<b>>) = b
    <3>1. <<b>> = Append(<<>>, b)
      BY <1>3
    <3>2. FlattenSeq(<<>>) \in Seq(Byte)
      BY <2>2, FlatEmpty
    <3>3. FlattenSeq(Append(<<>>, b)) = FlattenSeq(<<>>) \o b
      BY <1>3, <2>2, <3>2, FlatAppend
    <3>4. <<>> \o b = b
      BY <1>3, ConcatEmptySeq
    <3>5. QED
      BY <3>1, <3>3, <3>4, FlatEmpty
  <2>4. FlattenSeq(<<b>> \o l) = FlattenSeq(<<b>>) \o FlattenSeq(l)
    BY <1>3, <2>2, FlatConcat
  <2>5. <<b>> \o l \in Seq(Seq(Byte))
    BY <1>3, <2>2, ConcatProperties
  <2>6. QED
    BY <1>1, <1>2, <2>1, <2>3, <2>4, <2>5
<1>6. QED
  BY <1>4, <1>5

\* What a kernel with room takes of all that waits.
LEMMA KernelTakes ==
    ASSUME NEW u, Holds(u), NEW all \in Seq(Byte)
    PROVE  LET k == Least(Len(all), Free(u)) IN
           /\ k \in 0..Len(all)
           /\ u.wire \o SubSeq(all, 1, k) \in Seq(Byte)
           /\ Len(u.wire \o SubSeq(all, 1, k)) <= Room
<1> DEFINE k == Least(Len(all), Free(u))
           t == SubSeq(all, 1, k)
<1>1. Len(all) \in Nat /\ Len(u.wire) \in Nat /\ Len(u.wire) <= Room /\ Room \in Nat
  BY TcpSendAssumption, LenProperties DEF Holds, Unit
<1>2. k \in 0..Len(all) /\ k <= Room - Len(u.wire)
  <2>1. PICK n, f : n = Len(all) /\ f = Room - Len(u.wire)
    OBVIOUS
  <2>2. n \in Nat /\ f \in Nat
    BY <1>1, <2>1
  <2>3. k = IF n <= f THEN n ELSE f
    BY <2>1 DEF Least, Free
  <2> HIDE DEF k
  <2>4. k \in 0..n /\ k <= f
    BY <2>2, <2>3
  <2>5. QED
    BY <2>1, <2>4
<1> HIDE DEF k
<1>3. t \in Seq(Byte) /\ Len(t) = k
  BY <1>2, Cut
<1> HIDE DEF t
<1>4. u.wire \o t \in Seq(Byte) /\ Len(u.wire \o t) = Len(u.wire) + Len(t)
  BY <1>3, ConcatProperties DEF Holds, Unit
<1>5. Len(u.wire \o t) <= Room
  BY <1>1, <1>2, <1>3, <1>4
<1>6. QED
  BY <1>2, <1>4, <1>5 DEF t, k

\* Concatenation and the set of sequences under names of their own: kept
\* closed, they leave the solver nothing but the law of association.
Cat(a, b) == a \o b
Str(X) == Seq(X)

LEMMA CatStr == \A X : \A a, b \in Str(X) : Cat(a, b) \in Str(X)
<1>1. ASSUME NEW X, NEW a \in Seq(X), NEW b \in Seq(X) PROVE a \o b \in Seq(X)
  BY ConcatProperties
<1>2. QED
  BY <1>1, Zenon DEF Cat, Str

LEMMA CatAssoc ==
    \A X : \A a, b, c \in Str(X) : Cat(Cat(a, b), c) = Cat(a, Cat(b, c))
<1>1. ASSUME NEW X, NEW a \in Seq(X), NEW b \in Seq(X), NEW c \in Seq(X)
      PROVE  (a \o b) \o c = a \o (b \o c)
  BY Assoc
<1>2. QED
  BY <1>1, Zenon DEF Cat, Str

\* Pieces of a sequence, put together in two ways.
LEMMA Regroup ==
    ASSUME NEW X, NEW p \in Str(X), NEW x1 \in Str(X), NEW x2 \in Str(X), NEW q \in Str(X)
    PROVE  Cat(Cat(p, x1), Cat(x2, q)) = Cat(Cat(p, Cat(x1, x2)), q)
<1>1. Cat(p, x1) \in Str(X)
  BY CatStr
<1>2. Cat(Cat(p, x1), Cat(x2, q)) = Cat(Cat(Cat(p, x1), x2), q)
  BY <1>1, CatAssoc
<1>3. Cat(Cat(p, x1), x2) = Cat(p, Cat(x1, x2))
  BY CatAssoc
<1>4. QED
  BY <1>2, <1>3

\* onSend moves bytes from the buffers to the kernel and changes nothing of
\* their order, wherever the kernel is full.
LEMMA OnSendKeeps ==
    ASSUME NEW u, Holds(u)
    PROVE  Holds(OnSend(u)) /\ Ahead(OnSend(u)) = Ahead(u)
<1>1. PICK bufs : bufs = Buffers(u)
  OBVIOUS
<1> DEFINE size(j) == Len(FlattenSeq(SubSeq(bufs, 1, j)))
<1>2. PICK all : all = FlattenSeq(bufs)
  OBVIOUS
<1>3. PICK k : k = Least(Len(all), Free(u))
  OBVIOUS
<1>4. PICK w : w = u.wire \o SubSeq(all, 1, k)
  OBVIOUS
<1>5. /\ bufs \in Seq(Seq(Byte)) /\ all \in Seq(Byte)
      /\ all = u.sendBuf \o FlattenSeq(u.list)
      /\ Len(bufs) \in Nat /\ Len(all) \in Nat
  BY <1>1, <1>2, BuffersAll, FlatType, LenProperties
<1>6. k \in 0..Len(all) /\ w \in Seq(Byte) /\ Len(w) <= Room
  BY <1>3, <1>4, <1>5, KernelTakes
<1>7. PICK whole : whole = CHOOSE j \in 0..Len(bufs) :
                              size(j) <= k /\ (j < Len(bufs) => k < size(j + 1))
  OBVIOUS
<1>8. /\ whole \in 0..Len(bufs) /\ size(whole) <= k
      /\ whole < Len(bufs) => k < size(whole + 1)
  <2>1. \E j \in 0..Len(bufs) : size(j) <= k /\ (j < Len(bufs) => k < size(j + 1))
    <3>1. bufs \in Seq(Seq(Byte))
      BY <1>5
    <3>2. k \in Nat
      BY <1>5, <1>6
    <3>3. QED
      BY <3>1, <3>2, Reach
  <2> HIDE DEF size
  <2>2. QED
    BY <1>7, <2>1
<1>9. PICK r : r = OnSend(u)
  OBVIOUS
<1>10. r = [sendBuf |-> IF whole = Len(bufs) THEN <<>> ELSE From(bufs[whole + 1], k - size(whole)),
            list    |-> IF whole = Len(bufs) THEN <<>> ELSE From(bufs, whole + 1),
            wire    |-> w,
            out     |-> ~(whole = Len(bufs))]
  BY <1>1, <1>2, <1>3, <1>4, <1>7, <1>9 DEF OnSend
<1>11. PICK P : P = FlattenSeq(SubSeq(bufs, 1, whole))
  OBVIOUS
<1>12. P \in Seq(Byte) /\ Len(P) \in Nat /\ size(whole) = Len(P)
  <2>1. SubSeq(bufs, 1, whole) \in Seq(Seq(Byte))
    BY <1>5, <1>8, Cut
  <2>2. P \in Seq(Byte)
    BY <1>11, <2>1, FlatType
  <2>3. QED
    BY <1>1, <1>11, <2>2, LenProperties
<1>13. CASE whole = Len(bufs)
  <2>1. P = all
    BY <1>2, <1>5, <1>11, <1>13, SubSeqFull
  <2>2. k = Len(all)
    <3>1. Len(all) <= k
      BY <1>8, <1>12, <2>1
    <3>2. PICK n : n = Len(all)
      OBVIOUS
    <3>3. n \in Nat /\ n <= k /\ k \in 0..n
      BY <1>5, <1>6, <3>1, <3>2
    <3>4. k = n
      BY <3>3
    <3>5. QED
      BY <3>2, <3>4
  <2>3. w = u.wire \o all
    BY <1>4, <1>5, <2>2, SubSeqFull
  <2> HIDE DEF size
  <2>4. r.sendBuf = <<>> /\ r.list = <<>> /\ r.wire = w
    BY <1>10, <1>13
  <2>5. Holds(r)
    <3>1. <<>> \in Seq(Byte) /\ <<>> \in Seq(Seq(Byte))
      BY EmptySeq
    <3>2. r = [sendBuf |-> <<>>, list |-> <<>>, wire |-> w, out |-> FALSE]
      BY <1>10, <1>13
    <3>3. QED
      BY <1>6, <3>1, <3>2 DEF Holds, Unit
  <2>6. <<>> \o <<>> = <<>> /\ w \o <<>> = w
    BY <1>6, ConcatEmptySeq
  <2>7. Ahead(r) = w
    BY <2>4, <2>6, FlatEmpty DEF Ahead, Waiting
  <2>8. QED
    BY <1>5, <1>9, <2>3, <2>5, <2>7 DEF Ahead, Waiting
<1>14. CASE whole # Len(bufs)
  <2>1. whole + 1 \in 1..Len(bufs) /\ whole + 1 \in 0..Len(bufs) /\ whole < Len(bufs)
    BY <1>5, <1>8, <1>14
  <2>2. PICK x : x = bufs[whole + 1]
    OBVIOUS
  <2>3. x \in Seq(Byte) /\ Len(x) \in Nat
    BY <1>5, <2>1, <2>2, ElementOfSeq, LenProperties
  <2>4. PICK L : L = From(bufs, whole + 1)
    OBVIOUS
  <2>5. PICK Q : Q = FlattenSeq(L)
    OBVIOUS
  <2>6. PICK H : H = SubSeq(bufs, 1, whole + 1)
    OBVIOUS
  <2>7. /\ H \in Seq(Seq(Byte)) /\ L \in Seq(Seq(Byte)) /\ H \o L = bufs
    BY <1>5, <2>1, <2>4, <2>6, Cut
  <2>8. Q \in Seq(Byte)
    BY <2>5, <2>7, FlatType
  <2>9. FlattenSeq(H) = P \o x
    <3>1. PICK G : G = SubSeq(bufs, 1, whole)
      OBVIOUS
    <3>2. (whole + 1) - 1 = whole
      BY <1>8
    <3>3. H = Append(G, x) /\ G \in Seq(Seq(Byte))
      BY <1>5, <2>1, <2>2, <2>6, <3>1, <3>2, NextPrefix
    <3>4. FlattenSeq(G) = P
      BY <1>11, <3>1
    <3>5. FlattenSeq(Append(G, x)) = FlattenSeq(G) \o x
      BY <1>12, <2>3, <3>3, <3>4, FlatAppend
    <3>6. QED
      BY <3>3, <3>4, <3>5
  <2>10. all = (P \o x) \o Q
    <3>1. FlattenSeq(H \o L) = FlattenSeq(H) \o FlattenSeq(L)
      BY <2>7, FlatConcat
    <3>2. QED
      BY <1>2, <2>5, <2>7, <2>9, <3>1
  <2>11. size(whole + 1) = Len(P) + Len(x)
    <3>1. Len(P \o x) = Len(P) + Len(x)
      BY <1>12, <2>3, ConcatProperties
    <3>2. QED
      BY <1>1, <2>6, <2>9, <3>1
  <2>12. PICK d : d = k - Len(P)
    OBVIOUS
  <2>13. d \in 0..Len(x) /\ k = Len(P) + d
    BY <1>6, <1>8, <1>12, <2>1, <2>3, <2>11, <2>12
  <2>14. PICK x1 : x1 = SubSeq(x, 1, d)
    OBVIOUS
  <2>15. PICK x2 : x2 = From(x, d)
    OBVIOUS
  <2>16. x1 \in Seq(Byte) /\ x2 \in Seq(Byte) /\ x1 \o x2 = x /\ Len(x1) = d
    BY <2>3, <2>13, <2>14, <2>15, Cut
  <2>17. SubSeq(all, 1, k) = P \o x1
    <3>1. PICK s1 : s1 = P \o x1
      OBVIOUS
    <3>2. PICK s2 : s2 = x2 \o Q
      OBVIOUS
    <3>3. s1 \in Seq(Byte) /\ s2 \in Seq(Byte) /\ Len(s1) = k
      BY <1>12, <2>8, <2>13, <2>16, <3>1, <3>2, ConcatProperties
    <3>4. all = s1 \o s2
      <4>1. P \in Str(Byte) /\ x1 \in Str(Byte) /\ x2 \in Str(Byte) /\ Q \in Str(Byte)
        BY <1>12, <2>8, <2>16 DEF Str
      <4>2. Cat(Cat(P, x1), Cat(x2, Q)) = Cat(Cat(P, Cat(x1, x2)), Q)
        BY <4>1, Regroup
      <4>3. (P \o x1) \o (x2 \o Q) = (P \o (x1 \o x2)) \o Q
        BY <4>2 DEF Cat
      <4>4. QED
        BY <2>10, <2>16, <3>1, <3>2, <4>3
    <3>5. SubSeq(s1 \o s2, 1, Len(s1)) = s1
      BY <3>3, Prefix
    <3>6. QED
      BY <3>1, <3>3, <3>4, <3>5
  <2>18. k - size(whole) = d
    BY <1>12, <2>12
  <2> HIDE DEF size
  <2>19. r.sendBuf = x2 /\ r.list = L /\ r.wire = w
    BY <1>10, <1>14, <2>2, <2>4, <2>15, <2>18
  <2>20. Holds(r)
    BY <1>6, <1>10, <2>7, <2>16, <2>19 DEF Holds, Unit
  <2>21. Ahead(r) = (u.wire \o (P \o x1)) \o (x2 \o Q)
    BY <1>4, <2>5, <2>17, <2>19 DEF Ahead, Waiting
  <2>22. (u.wire \o (P \o x1)) \o (x2 \o Q) = u.wire \o ((P \o (x1 \o x2)) \o Q)
    <3>1. PICK v : v = u.wire
      OBVIOUS
    <3>2. /\ v \in Str(Byte) /\ P \in Str(Byte) /\ x1 \in Str(Byte) /\ x2 \in Str(Byte)
          /\ Q \in Str(Byte)
      BY <1>12, <2>8, <2>16, <3>1 DEF Holds, Unit, Str
    <3>3. Cat(P, x1) \in Str(Byte) /\ Cat(x2, Q) \in Str(Byte)
      BY <3>2, CatStr
    <3>4. Cat(Cat(v, Cat(P, x1)), Cat(x2, Q)) = Cat(v, Cat(Cat(P, x1), Cat(x2, Q)))
      BY <3>2, <3>3, CatAssoc
    <3>5. Cat(Cat(P, x1), Cat(x2, Q)) = Cat(Cat(P, Cat(x1, x2)), Q)
      BY <3>2, Regroup
    <3>6. Cat(Cat(v, Cat(P, x1)), Cat(x2, Q)) = Cat(v, Cat(Cat(P, Cat(x1, x2)), Q))
      BY <3>4, <3>5
    <3>7. QED
      BY <3>1, <3>6 DEF Cat
  <2>23. Ahead(u) = u.wire \o ((P \o x) \o Q)
    BY <1>5, <2>10 DEF Ahead, Waiting
  <2>24. QED
    BY <1>9, <2>16, <2>20, <2>21, <2>22, <2>23
<1>15. QED
  BY <1>13, <1>14

\* sendData lets part of the packet through, behind what is on the wire, and
\* has the rest wait behind what waits.
LEMMA SendDataParts ==
    ASSUME NEW u, Holds(u), NEW b \in Seq(Byte)
    PROVE  LET r == SendData(u, b) IN
           /\ Holds(r)
           /\ \E t, q \in Seq(Byte) : /\ t \o q = b
                                     /\ r.wire = u.wire \o t
                                     /\ Waiting(r) = Waiting(u) \o q
<1>1. PICK k : k = Taken(u, b)
  OBVIOUS
<1>2. PICK r : r = SendData(u, b)
  OBVIOUS
<1>3. PICK t : t = SubSeq(b, 1, k)
  OBVIOUS
<1>4. PICK q : q = From(b, k)
  OBVIOUS
<1>5. Len(b) \in Nat /\ k \in 0..Len(b) /\ (u.list # <<>> => k = 0)
  <2>1. Len(b) \in Nat
    BY LenProperties
  <2>2. Least(Len(b), Free(u)) \in 0..Len(b)
    BY KernelTakes
  <2>3. QED
    BY <1>1, <2>1, <2>2 DEF Taken
<1>6. /\ t \in Seq(Byte) /\ Len(t) = k /\ q \in Seq(Byte) /\ Len(q) = Len(b) - k
      /\ t \o q = b
  BY <1>3, <1>4, <1>5, Cut, ZenonT(60)
<1>7. u.wire \o t \in Seq(Byte) /\ Len(u.wire \o t) <= Room
  <2>1. CASE u.list = <<>>
    <3>1. k = Least(Len(b), Free(u))
      BY <1>1, <2>1 DEF Taken
    <3>2. QED
      BY <1>3, <3>1, KernelTakes
  <2>2. CASE u.list # <<>>
    <3>1. t = <<>>
      BY <1>5, <1>6, <2>2, EmptySeq
    <3>2. u.wire \in Seq(Byte) /\ Len(u.wire) <= Room
      BY DEF Holds, Unit
    <3>3. u.wire \o <<>> = u.wire
      BY <3>2, ConcatEmptySeq
    <3>4. QED
      BY <3>1, <3>2, <3>3
  <2>3. QED
    BY <2>1, <2>2
<1>8. r = [u EXCEPT !.wire = u.wire \o t, !.list = IF k < Len(b) THEN Append(u.list, q) ELSE u.list]
  BY <1>1, <1>2, <1>3, <1>4 DEF SendData
<1>9. PICK l : l = IF k < Len(b) THEN Append(u.list, q) ELSE u.list
  OBVIOUS
<1>10. l \in Seq(Seq(Byte))
  BY <1>6, <1>9, AppendProperties DEF Holds, Unit
<1>11. r.wire = u.wire \o t /\ r.list = l /\ r.sendBuf = u.sendBuf /\ r \in Unit
  BY <1>7, <1>8, <1>9, <1>10 DEF Holds, Unit
<1>12. Holds(r)
  BY <1>7, <1>11 DEF Holds
<1>13. FlattenSeq(l) = FlattenSeq(u.list) \o q
  <2>1. PICK ul : ul = u.list
    OBVIOUS
  <2>2. ul \in Seq(Seq(Byte)) /\ FlattenSeq(ul) \in Seq(Byte)
    BY <2>1, FlatType DEF Holds, Unit
  <2>3. CASE k < Len(b)
    <3>1. FlattenSeq(Append(ul, q)) = FlattenSeq(ul) \o q
      BY <1>6, <2>2, FlatAppend
    <3>2. QED
      BY <1>9, <2>1, <2>3, <3>1
  <2>4. CASE ~(k < Len(b))
    <3>1. q = <<>>
      BY <1>5, <1>6, <2>4, EmptySeq
    <3>2. FlattenSeq(ul) \o <<>> = FlattenSeq(ul)
      BY <2>2, ConcatEmptySeq
    <3>3. QED
      BY <1>9, <2>1, <2>4, <3>1, <3>2
  <2>5. QED
    BY <2>3, <2>4
<1>14. Waiting(r) = Waiting(u) \o q
  <2>1. PICK a : a = u.sendBuf
    OBVIOUS
  <2>2. PICK f : f = FlattenSeq(u.list)
    OBVIOUS
  <2>3. a \in Seq(Byte) /\ f \in Seq(Byte)
    BY <2>1, <2>2, FlatType DEF Holds, Unit
  <2>4. (a \o f) \o q = a \o (f \o q)
    <3>1. a \in Str(Byte) /\ f \in Str(Byte) /\ q \in Str(Byte)
      BY <2>3, <1>6 DEF Str
    <3>2. Cat(Cat(a, f), q) = Cat(a, Cat(f, q))
      BY <3>1, CatAssoc
    <3>3. QED
      BY <3>2 DEF Cat
  <2>5. QED
    BY <1>11, <1>13, <2>1, <2>2, <2>4 DEF Waiting
<1>15. QED
  BY <1>2, <1>6, <1>11, <1>12, <1>14
----------------------------------------------------------------------------
(* Every byte once, in the order of its packet *)

\* S carries the bytes of packets of lengths ls.
Carries(S, ls) ==
    /\ \A p \in DOMAIN ls : \A k \in 1..ls[p] : \E i \in DOMAIN S : S[i] = <<p, k>>
    /\ \A i \in DOMAIN S : \E p \in DOMAIN ls : \E k \in 1..ls[p] : S[i] = <<p, k>>
    /\ \A i, j \in DOMAIN S : i < j /\ S[i][1] = S[j][1] => S[i][2] < S[j][2]

LEMMA Pieces ==
    ASSUME NEW X, NEW a \in Seq(X), NEW b \in Seq(X)
    PROVE  /\ a \o b \in Seq(X) /\ Len(a) \in Nat /\ Len(b) \in Nat
           /\ Len(a \o b) = Len(a) + Len(b)
           /\ \A i \in 1..Len(a) : (a \o b)[i] = a[i]
           /\ \A i \in 1..Len(b) : (a \o b)[Len(a) + i] = b[i]
<1>1. Len(a) \in Nat /\ Len(b) \in Nat
  BY LenProperties
<1>2. PICK s : s = a \o b
  OBVIOUS
<1>3. /\ s \in Seq(X) /\ Len(s) = Len(a) + Len(b)
      /\ \A i \in 1..(Len(a) + Len(b)) : s[i] = IF i <= Len(a) THEN a[i] ELSE b[i - Len(a)]
  BY <1>2, ConcatProperties
<1>4. PICK la, lb : la = Len(a) /\ lb = Len(b)
  OBVIOUS
<1>5. \A i \in 1..(la + lb) : s[i] = IF i <= la THEN a[i] ELSE b[i - la]
  BY <1>3, <1>4
<1>6. ASSUME NEW i \in 1..la PROVE s[i] = a[i]
  <2>1. i \in 1..(la + lb) /\ i <= la
    BY <1>1, <1>4
  <2>2. QED
    BY <1>5, <2>1
<1>7. ASSUME NEW i \in 1..lb PROVE s[la + i] = b[i]
  <2>1. la + i \in 1..(la + lb) /\ ~(la + i <= la) /\ (la + i) - la = i
    BY <1>1, <1>4
  <2>2. s[la + i] = b[(la + i) - la]
    BY <1>5, <2>1
  <2>3. QED
    BY <2>1, <2>2
<1>8. QED
  BY <1>1, <1>2, <1>3, <1>4, <1>6, <1>7

\* Elements h of a + c move up by d behind the first a; elements k of d + e
\* fill the gap and the end: every place once, and each in their order.
At(a, d, h) == IF h <= a THEN h ELSE h + d
On(a, c, d, k) == IF k <= d THEN a + k ELSE (a + c) + k

LEMMA Slots ==
    ASSUME NEW a \in Nat, NEW c \in Nat, NEW d \in Nat, NEW e \in Nat
    PROVE  /\ \A h \in 1..(a + c) : At(a, d, h) \in 1..(((a + d) + c) + e)
           /\ \A k \in 1..(d + e) : On(a, c, d, k) \in 1..(((a + d) + c) + e)
           /\ \A h, g \in 1..(a + c) : At(a, d, h) < At(a, d, g) => h < g
           /\ \A k, g \in 1..(d + e) : On(a, c, d, k) < On(a, c, d, g) => k < g
<1>1. \A h \in 1..(a + c) : At(a, d, h) \in 1..(((a + d) + c) + e)
  BY DEF At
<1>2. \A k \in 1..(d + e) : On(a, c, d, k) \in 1..(((a + d) + c) + e)
  BY DEF On
<1>3. \A h, g \in 1..(a + c) : At(a, d, h) < At(a, d, g) => h < g
  BY DEF At
<1>4. \A k, g \in 1..(d + e) : On(a, c, d, k) < On(a, c, d, g) => k < g
  BY DEF On
<1>5. QED
  BY <1>1, <1>2, <1>3, <1>4

Cover(a, c, d, e) ==
    \A i \in 1..(((a + d) + c) + e) :
        \/ \E h \in 1..(a + c) : i = At(a, d, h)
        \/ \E k \in 1..(d + e) : i = On(a, c, d, k)

LEMMA SlotsCover ==
    ASSUME NEW a \in Nat, NEW c \in Nat, NEW d \in Nat, NEW e \in Nat
    PROVE  Cover(a, c, d, e)
<1> SUFFICES ASSUME NEW i \in 1..(((a + d) + c) + e)
             PROVE  \/ \E h \in 1..(a + c) : i = At(a, d, h)
                    \/ \E k \in 1..(d + e) : i = On(a, c, d, k)
  BY DEF Cover
<1>1. CASE i <= a
  <2>1. i \in 1..(a + c) /\ i = At(a, d, i)
    BY <1>1 DEF At
  <2>2. QED
    BY <2>1
<1>2. CASE ~(i <= a) /\ i <= a + d
  <2>1. i - a \in 1..(d + e) /\ i = On(a, c, d, i - a)
    BY <1>2 DEF On
  <2>2. QED
    BY <2>1
<1>3. CASE ~(i <= a + d) /\ i <= (a + d) + c
  <2>1. i - d \in 1..(a + c) /\ i = At(a, d, i - d)
    BY <1>3 DEF At
  <2>2. QED
    BY <2>1
<1>4. CASE ~(i <= (a + d) + c)
  <2>1. i - (a + c) \in 1..(d + e) /\ i = On(a, c, d, i - (a + c))
    BY <1>4 DEF On
  <2>2. QED
    BY <2>1
<1>5. QED
  BY <1>1, <1>2, <1>3, <1>4

\* One packet more, its bytes in two parts with C between them.
LEMMA Spread ==
    ASSUME NEW A \in Seq(Byte), NEW C \in Seq(Byte), NEW t \in Seq(Byte), NEW q \in Seq(Byte),
           NEW ls \in Seq(Nat), NEW n \in Nat, Carries(A \o C, ls),
           t \o q = Bytes(Len(ls) + 1, n)
    PROVE  Carries((A \o t) \o (C \o q), Append(ls, n))
<1>1. PICK O, N, b : O = A \o C /\ N = (A \o t) \o (C \o q) /\ b = t \o q
  OBVIOUS
<1>2. PICK a, c, d, e : a = Len(A) /\ c = Len(C) /\ d = Len(t) /\ e = Len(q)
  OBVIOUS
<1>3. a \in Nat /\ c \in Nat /\ d \in Nat /\ e \in Nat
  BY <1>2, LenProperties
<1>4. PICK m, new : m = Len(ls) + 1 /\ new = Append(ls, n)
  OBVIOUS
<1>5. Len(ls) \in Nat /\ m \in Nat
  BY <1>4, LenProperties
<1>6. /\ DOMAIN new = 1..m /\ DOMAIN ls = 1..(m - 1)
      /\ new[m] = n /\ \A p \in 1..(m - 1) : new[p] = ls[p]
  BY <1>4, <1>5, AppendProperties, LenProperties
<1>7. n = d + e
  <2>1. b = Bytes(m, n) /\ Len(b) = d + e
    BY <1>1, <1>2, <1>4, Pieces
  <2>2. Len(b) = n
    BY <2>1 DEF Bytes
  <2>3. QED
    BY <2>1, <2>2
<1>7b. \A k \in 1..n : b[k] = <<m, k>>
  BY <1>1, <1>4 DEF Bytes
<1>8. /\ O \in Seq(Byte) /\ N \in Seq(Byte)
      /\ Len(O) = a + c /\ Len(N) = ((a + d) + c) + e
      /\ \A i \in 1..a : N[i] = O[i]
      /\ \A i \in 1..c : N[(a + d) + i] = O[a + i]
      /\ \A i \in 1..d : N[a + i] = b[i]
      /\ \A i \in 1..e : N[((a + d) + c) + i] = b[d + i]
  <2>1. PICK F : F = A \o t
    OBVIOUS
  <2>2. PICK G : G = C \o q
    OBVIOUS
  <2>3. N = F \o G
    BY <1>1, <2>1, <2>2
  <2>4. /\ a \in Nat /\ c \in Nat /\ O \in Seq(Byte) /\ Len(O) = a + c
        /\ \A i \in 1..a : O[i] = A[i]
        /\ \A i \in 1..c : O[a + i] = C[i]
    <3>1. /\ A \o C \in Seq(Byte) /\ Len(A \o C) = Len(A) + Len(C)
          /\ \A i \in 1..Len(A) : (A \o C)[i] = A[i]
          /\ \A i \in 1..Len(C) : (A \o C)[Len(A) + i] = C[i]
      BY Pieces
    <3>2. QED
      BY <1>1, <1>2, <1>3, <3>1, Zenon
  <2>5. /\ d \in Nat /\ e \in Nat /\ Len(b) = d + e
        /\ \A i \in 1..d : b[i] = t[i]
        /\ \A i \in 1..e : b[d + i] = q[i]
    <3>1. /\ Len(t \o q) = Len(t) + Len(q)
          /\ \A i \in 1..Len(t) : (t \o q)[i] = t[i]
          /\ \A i \in 1..Len(q) : (t \o q)[Len(t) + i] = q[i]
      BY Pieces
    <3>2. QED
      BY <1>1, <1>2, <1>3, <3>1, Zenon
  <2>6. /\ F \in Seq(Byte) /\ Len(F) = a + d
        /\ \A i \in 1..a : F[i] = A[i]
        /\ \A i \in 1..d : F[a + i] = t[i]
    <3>1. /\ A \o t \in Seq(Byte) /\ Len(A \o t) = Len(A) + Len(t)
          /\ \A i \in 1..Len(A) : (A \o t)[i] = A[i]
          /\ \A i \in 1..Len(t) : (A \o t)[Len(A) + i] = t[i]
      BY Pieces
    <3>2. QED
      BY <1>2, <2>1, <3>1, Zenon
  <2>7. /\ G \in Seq(Byte) /\ Len(G) = c + e
        /\ \A i \in 1..c : G[i] = C[i]
        /\ \A i \in 1..e : G[c + i] = q[i]
    <3>1. /\ C \o q \in Seq(Byte) /\ Len(C \o q) = Len(C) + Len(q)
          /\ \A i \in 1..Len(C) : (C \o q)[i] = C[i]
          /\ \A i \in 1..Len(q) : (C \o q)[Len(C) + i] = q[i]
      BY Pieces
    <3>2. QED
      BY <1>2, <2>2, <3>1, Zenon
  <2>8. /\ N \in Seq(Byte) /\ Len(N) = Len(F) + Len(G)
        /\ \A i \in 1..Len(F) : N[i] = F[i]
        /\ \A i \in 1..Len(G) : N[Len(F) + i] = G[i]
    <3>1. F \in Seq(Byte)
      BY <2>6
    <3>2. G \in Seq(Byte)
      BY <2>7
    <3>3. QED
      BY <2>3, <3>1, <3>2, Pieces
  <2>9. Len(F) = a + d /\ Len(G) = c + e /\ Len(N) = Len(F) + Len(G)
    BY <2>6, <2>7, <2>8
  <2>10. ASSUME NEW i \in 1..a PROVE N[i] = O[i]
    <3>1. i \in 1..Len(F)
      BY <1>3, <2>9
    <3>2. QED
      BY <2>4, <2>6, <2>8, <3>1
  <2>11. ASSUME NEW i \in 1..c PROVE N[(a + d) + i] = O[a + i]
    <3>1. i \in 1..Len(G)
      BY <1>3, <2>9
    <3>2. N[Len(F) + i] = G[i]
      BY <2>8, <3>1
    <3>3. QED
      BY <2>4, <2>6, <2>7, <3>2
  <2>12. ASSUME NEW i \in 1..d PROVE N[a + i] = b[i]
    <3>1. a + i \in 1..Len(F)
      BY <1>3, <2>9
    <3>2. N[a + i] = F[a + i]
      BY <2>8, <3>1
    <3>3. QED
      BY <2>5, <2>6, <3>2
  <2>13. ASSUME NEW i \in 1..e PROVE N[((a + d) + c) + i] = b[d + i]
    <3>1. c + i \in 1..Len(G) /\ (a + d) + (c + i) = ((a + d) + c) + i
      <4>1. c + i \in 1..(c + e) /\ (a + d) + (c + i) = ((a + d) + c) + i
        BY <1>3
      <4>2. QED
        BY <2>9, <4>1
    <3>2. N[Len(F) + (c + i)] = G[c + i]
      BY <2>8, <3>1
    <3>3. QED
      BY <2>5, <2>6, <2>7, <3>1, <3>2
  <2>14. Len(N) = ((a + d) + c) + e
    BY <1>3, <2>9
  <2>15. QED
    BY <2>4, <2>8, <2>10, <2>11, <2>12, <2>13, <2>14
<1>9. DOMAIN O = 1..(a + c) /\ DOMAIN N = 1..(((a + d) + c) + e)
  BY <1>8, LenProperties
<1>10. /\ \A p \in DOMAIN ls : \A k \in 1..ls[p] : \E i \in DOMAIN O : O[i] = <<p, k>>
       /\ \A i \in DOMAIN O : \E p \in DOMAIN ls : \E k \in 1..ls[p] : O[i] = <<p, k>>
       /\ \A i, j \in DOMAIN O : i < j /\ O[i][1] = O[j][1] => O[i][2] < O[j][2]
  BY <1>1 DEF Carries
<1> DEFINE at(h) == At(a, d, h)
           on(k) == On(a, c, d, k)
<1>11. ASSUME NEW h \in DOMAIN O PROVE at(h) \in DOMAIN N /\ N[at(h)] = O[h]
  <2>1. h \in 1..(a + c)
    BY <1>9
  <2>2. at(h) \in DOMAIN N
    BY <1>3, <1>9, <2>1, Slots
  <2>3. CASE h <= a
    <3>1. h \in 1..a /\ at(h) = h
      BY <2>1, <2>3 DEF At
    <3>2. QED
      BY <1>8, <2>2, <3>1
  <2>4. CASE ~(h <= a)
    <3>1. /\ h - a \in 1..c /\ (a + d) + (h - a) = h + d /\ a + (h - a) = h
          /\ at(h) = h + d
      BY <1>3, <2>1, <2>4 DEF At
    <3>2. N[(a + d) + (h - a)] = O[a + (h - a)]
      BY <1>8, <3>1
    <3>3. QED
      BY <2>2, <3>1, <3>2
  <2>5. QED
    BY <2>3, <2>4
<1>12. ASSUME NEW k \in 1..n PROVE on(k) \in DOMAIN N /\ N[on(k)] = <<m, k>>
  <2>1. k \in 1..(d + e)
    BY <1>7
  <2>2. on(k) \in DOMAIN N
    BY <1>3, <1>9, <2>1, Slots
  <2>3. CASE k <= d
    <3>1. k \in 1..d /\ on(k) = a + k
      BY <2>1, <2>3 DEF On
    <3>2. N[a + k] = b[k]
      BY <1>8, <3>1
    <3>3. QED
      BY <1>7b, <2>2, <3>1, <3>2
  <2>4. CASE ~(k <= d)
    <3>1. /\ k - d \in 1..e /\ ((a + d) + c) + (k - d) = (a + c) + k /\ d + (k - d) = k
          /\ on(k) = (a + c) + k
      BY <1>3, <2>1, <2>4 DEF On
    <3>2. N[((a + d) + c) + (k - d)] = b[d + (k - d)]
      BY <1>8, <3>1
    <3>3. QED
      BY <1>7b, <2>2, <3>1, <3>2
  <2>5. QED
    BY <2>3, <2>4
<1>13. \A i \in DOMAIN N :
          (\E h \in DOMAIN O : i = at(h)) \/ (\E k \in 1..n : i = on(k))
  <2>1. Cover(a, c, d, e)
    BY <1>3, SlotsCover
  <2>2. QED
    BY <1>7, <1>9, <2>1 DEF Cover
<1>14. \A h, g \in DOMAIN O : at(h) < at(g) => h < g
  <2>1. \A h, g \in 1..(a + c) : At(a, d, h) < At(a, d, g) => h < g
    BY <1>3, Slots
  <2>2. QED
    BY <1>9, <2>1
<1>15. \A k, g \in 1..n : on(k) < on(g) => k < g
  <2>1. \A k, g \in 1..(d + e) : On(a, c, d, k) < On(a, c, d, g) => k < g
    BY <1>3, Slots
  <2>2. QED
    BY <1>7, <2>1
<1> HIDE DEF at, on
<1>16. \A p \in DOMAIN new : \A k \in 1..new[p] : \E i \in DOMAIN N : N[i] = <<p, k>>
  <2>1. ASSUME NEW p \in DOMAIN new, NEW k \in 1..new[p]
        PROVE  \E i \in DOMAIN N : N[i] = <<p, k>>
    <3>1. CASE p = m
      BY <1>6, <1>12, <3>1
    <3>2. CASE p # m
      <4>1. p \in 1..(m - 1)
        BY <1>5, <1>6, <3>2
      <4>2. p \in DOMAIN ls /\ k \in 1..ls[p]
        BY <1>6, <4>1
      <4>3. PICK h \in DOMAIN O : O[h] = <<p, k>>
        BY <1>10, <4>2
      <4>4. QED
        BY <1>11, <4>3
    <3>3. QED
      BY <3>1, <3>2
  <2>2. QED
    BY <2>1
\* Where an element of N comes from.
<1>17. ASSUME NEW h \in DOMAIN O
       PROVE  \E p \in 1..(m - 1) : \E k \in 1..new[p] : N[at(h)] = <<p, k>> /\ O[h] = <<p, k>>
  <2>1. PICK p \in DOMAIN ls : \E k \in 1..ls[p] : O[h] = <<p, k>>
    BY <1>10
  <2>2. p \in 1..(m - 1) /\ new[p] = ls[p]
    BY <1>6
  <2>3. QED
    BY <1>11, <2>1, <2>2
<1>18. \A i \in DOMAIN N : \E p \in DOMAIN new : \E k \in 1..new[p] : N[i] = <<p, k>>
  <2>1. ASSUME NEW i \in DOMAIN N
        PROVE  \E p \in DOMAIN new : \E k \in 1..new[p] : N[i] = <<p, k>>
    <3>1. ASSUME NEW h \in DOMAIN O, i = at(h)
          PROVE  \E p \in DOMAIN new : \E k \in 1..new[p] : N[i] = <<p, k>>
      <4>1. PICK p \in 1..(m - 1) : \E k \in 1..new[p] : N[at(h)] = <<p, k>>
        BY <1>17
      <4>2. p \in DOMAIN new
        BY <1>5, <1>6
      <4>3. QED
        BY <3>1, <4>1, <4>2
    <3>2. ASSUME NEW k \in 1..n, i = on(k)
          PROVE  \E p \in DOMAIN new : \E g \in 1..new[p] : N[i] = <<p, g>>
      <4>1. m \in DOMAIN new /\ new[m] = n
        <5>1. m \in 1..m
          BY <1>4, <1>5
        <5>2. QED
          BY <1>6, <5>1
      <4>2. k \in 1..new[m] /\ N[i] = <<m, k>>
        BY <1>12, <3>2, <4>1
      <4>3. QED
        BY <4>1, <4>2
    <3>3. QED
      BY <1>13, <3>1, <3>2
  <2>2. QED
    BY <2>1
<1>19. \A i, j \in DOMAIN N : i < j /\ N[i][1] = N[j][1] => N[i][2] < N[j][2]
  <2>1. ASSUME NEW i \in DOMAIN N, NEW j \in DOMAIN N, i < j, N[i][1] = N[j][1]
        PROVE  N[i][2] < N[j][2]
    <3>1. ASSUME NEW h \in DOMAIN O, i = at(h), NEW g \in DOMAIN O, j = at(g)
          PROVE  N[i][2] < N[j][2]
      <4>1. h < g
        BY <1>14, <2>1, <3>1
      <4>2. N[i] = O[h] /\ N[j] = O[g]
        BY <1>11, <3>1
      <4>3. QED
        BY <1>10, <2>1, <4>1, <4>2
    <3>2. ASSUME NEW k \in 1..n, i = on(k), NEW g \in 1..n, j = on(g)
          PROVE  N[i][2] < N[j][2]
      <4>1. k < g
        BY <1>15, <2>1, <3>2
      <4>2. N[i] = <<m, k>> /\ N[j] = <<m, g>>
        BY <1>12, <3>2
      <4>3. QED
        BY <4>1, <4>2
    <3>3. ASSUME NEW h \in DOMAIN O, NEW k \in 1..n PROVE N[at(h)][1] # N[on(k)][1]
      <4>1. PICK p \in 1..(m - 1) : \E g \in 1..new[p] : N[at(h)] = <<p, g>>
        BY <1>17
      <4>2. N[at(h)][1] = p /\ p # m
        BY <1>5, <4>1
      <4>3. N[on(k)] = <<m, k>>
        BY <1>12
      <4>4. QED
        BY <4>2, <4>3
    <3>4. QED
      BY <1>13, <2>1, <3>1, <3>2, <3>3
  <2>2. QED
    BY <2>1
<1>20. Carries(N, new)
  BY <1>16, <1>18, <1>19 DEF Carries
<1>21. QED
  BY <1>1, <1>4, <1>20
----------------------------------------------------------------------------
(* Sending, flushing and reading *)

\* What is sent joins the stream behind what is on the wire and behind what waits.
LEMMA SentCarried ==
    ASSUME NEW u, Holds(u), NEW g \in Seq(Byte), NEW ls \in Seq(Nat), NEW n \in Nat,
           Carries(g \o Ahead(u), ls)
    PROVE  LET r == SendData(u, Bytes(Len(ls) + 1, n)) IN
           Holds(r) /\ Carries(g \o Ahead(r), Append(ls, n))
<1>1. PICK b : b = Bytes(Len(ls) + 1, n)
  OBVIOUS
<1>2. b \in Seq(Byte)
  <2>1. Len(ls) + 1 \in Nat
    BY LenProperties
  <2>2. \A i \in 1..n : <<Len(ls) + 1, i>> \in Byte
    BY <2>1 DEF Byte
  <2>3. QED
    BY <1>1, <2>2 DEF Bytes
<1>3. PICK r : r = SendData(u, b)
  OBVIOUS
<1>4. Holds(r)
  BY <1>2, <1>3, SendDataParts
<1>5. PICK t, q \in Seq(Byte) : t \o q = b /\ r.wire = u.wire \o t /\ Waiting(r) = Waiting(u) \o q
  <2>1. \E t, q \in Seq(Byte) : /\ t \o q = b
                               /\ SendData(u, b).wire = u.wire \o t
                               /\ Waiting(SendData(u, b)) = Waiting(u) \o q
    BY <1>2, SendDataParts
  <2>2. QED
    BY <1>3, <2>1
<1>6. PICK w, C : w = u.wire /\ C = Waiting(u)
  OBVIOUS
<1>7. w \in Seq(Byte) /\ C \in Seq(Byte)
  BY <1>6, AheadType DEF Holds, Unit, Waiting
<1>8. /\ g \in Str(Byte) /\ w \in Str(Byte) /\ C \in Str(Byte)
      /\ t \in Str(Byte) /\ q \in Str(Byte)
  BY <1>5, <1>7 DEF Str
<1>9. /\ Cat(g, w) \in Str(Byte) /\ Cat(w, t) \in Str(Byte) /\ Cat(C, q) \in Str(Byte)
  BY <1>8, CatStr
<1>10. Cat(Cat(g, w), C) = Cat(g, Cat(w, C))
  BY <1>8, CatAssoc
<1>11. Cat(Cat(Cat(g, w), t), Cat(C, q)) = Cat(g, Cat(Cat(w, t), Cat(C, q)))
  <2>1. Cat(Cat(g, w), t) = Cat(g, Cat(w, t))
    BY <1>8, CatAssoc
  <2>2. Cat(Cat(g, Cat(w, t)), Cat(C, q)) = Cat(g, Cat(Cat(w, t), Cat(C, q)))
    BY <1>8, <1>9, CatAssoc
  <2>3. QED
    BY <2>1, <2>2
<1>12. PICK A : A = g \o w
  OBVIOUS
<1>13. A \in Seq(Byte)
  BY <1>9, <1>12 DEF Cat, Str
<1>14. A \o C = g \o Ahead(u)
  BY <1>6, <1>10, <1>12 DEF Cat, Ahead
<1>15. (A \o t) \o (C \o q) = g \o Ahead(r)
  BY <1>5, <1>6, <1>11, <1>12 DEF Cat, Ahead
<1>16. Carries(A \o C, ls)
  BY <1>14
<1>17. t \o q = Bytes(Len(ls) + 1, n)
  BY <1>1, <1>5
<1>18. Carries((A \o t) \o (C \o q), Append(ls, n))
  BY <1>5, <1>7, <1>13, <1>16, <1>17, Spread
<1>19. QED
  BY <1>1, <1>3, <1>4, <1>15, <1>18

\* The peer takes the first byte on the wire, and the stream is the same.
LEMMA ReadKeeps ==
    ASSUME NEW u, Holds(u), NEW g \in Seq(Byte), u.wire # <<>>
    PROVE  LET r == [u EXCEPT !.wire = Tail(u.wire)]
               h == Append(g, Head(u.wire))
           IN Holds(r) /\ h \in Seq(Byte) /\ h \o Ahead(r) = g \o Ahead(u)
<1>1. PICK w, C : w = u.wire /\ C = Waiting(u)
  OBVIOUS
<1>2. w \in Seq(Byte) /\ C \in Seq(Byte) /\ w # <<>> /\ Len(w) <= Room
  BY <1>1, AheadType DEF Holds, Unit, Waiting
<1>3. PICK x, y : x = <<Head(w)>> /\ y = Tail(w)
  OBVIOUS
<1>4. Head(w) \in Byte /\ y \in Seq(Byte) /\ Len(y) = Len(w) - 1 /\ Len(w) \in Nat
  BY <1>2, <1>3, HeadTailProperties, LenProperties
<1>5. PICK r : r = [u EXCEPT !.wire = y]
  OBVIOUS
<1>6. r.wire = y /\ r.sendBuf = u.sendBuf /\ r.list = u.list /\ r \in Unit
  BY <1>4, <1>5 DEF Holds, Unit
<1>7. Holds(r)
  <2>1. Room \in Nat
    BY TcpSendAssumption
  <2>2. Len(y) <= Room
    BY <1>2, <1>4, <2>1
  <2>3. QED
    BY <1>6, <2>2 DEF Holds
<1>8. Waiting(r) = C
  BY <1>1, <1>6 DEF Waiting
<1>9. x \in Seq(Byte) /\ x \o y = w
  <2>1. x \in Seq(Byte)
    BY <1>3, <1>4
  <2>2. w = <<Head(w)>> \o Tail(w)
    <3>1. Len(w) \in Nat /\ Len(w) # 0
      BY <1>2, LenProperties, EmptySeq
    <3>2. 1 \in 1..Len(w) /\ Len(w) \in 1..Len(w)
      BY <3>1
    <3>3. SubSeq(w, 1, Len(w)) = <<w[1]>> \o SubSeq(w, 1 + 1, Len(w))
      BY <1>2, <3>2, SubSeqRecursiveFirst
    <3>4. SubSeq(w, 1, Len(w)) = w /\ Tail(w) = SubSeq(w, 2, Len(w)) /\ Head(w) = w[1]
      BY <1>2, SubSeqFull, TailIsSubSeq
    <3>5. QED
      BY <3>3, <3>4
  <2>3. QED
    BY <1>3, <2>1, <2>2
<1>10. Append(g, Head(w)) = g \o x /\ Append(g, Head(w)) \in Seq(Byte)
  BY <1>3, <1>4, AppendIsConcat, AppendProperties
<1>11. g \in Str(Byte) /\ x \in Str(Byte) /\ y \in Str(Byte) /\ C \in Str(Byte)
  BY <1>2, <1>4, <1>9 DEF Str
<1>12. Cat(Cat(g, x), Cat(y, C)) = Cat(g, Cat(Cat(x, y), C))
  <2>1. Cat(y, C) \in Str(Byte)
    BY <1>11, CatStr
  <2>2. Cat(Cat(g, x), Cat(y, C)) = Cat(g, Cat(x, Cat(y, C)))
    BY <1>11, <2>1, CatAssoc
  <2>3. Cat(x, Cat(y, C)) = Cat(Cat(x, y), C)
    BY <1>11, CatAssoc
  <2>4. QED
    BY <2>2, <2>3
<1>13. (g \o x) \o (y \o C) = g \o ((x \o y) \o C)
  BY <1>12 DEF Cat
<1>14. (g \o x) \o Ahead(r) = g \o Ahead(u)
  BY <1>1, <1>6, <1>8, <1>9, <1>13 DEF Ahead
<1>15. QED
  BY <1>1, <1>3, <1>5, <1>7, <1>10, <1>14

----------------------------------------------------------------------------
(* The bytes of an open connection *)

Delivered ==
    link = "open" =>
        /\ Holds(tx) /\ got \in Seq(Byte) /\ sent \in Seq(Nat)
        /\ Carries(got \o Ahead(tx), sent)

LEMMA DeliveredInit == Init => Delivered
<1> SUFFICES ASSUME Init PROVE Delivered
  OBVIOUS
<1>1. /\ tx = [sendBuf |-> <<>>, list |-> <<>>, wire |-> <<>>, out |-> FALSE]
      /\ sent = <<>> /\ got = <<>>
  BY DEF Init
<1>2. <<>> \in Seq(Byte) /\ <<>> \in Seq(Seq(Byte)) /\ <<>> \in Seq(Nat) /\ Len(<<>>) = 0
  BY EmptySeq
<1>3. Holds(tx)
  BY <1>1, <1>2, TcpSendAssumption DEF Holds, Unit
<1>4. Ahead(tx) = <<>>
  <2>1. <<>> \o <<>> = <<>>
    BY <1>2, ConcatEmptySeq
  <2>2. QED
    BY <1>1, <2>1, FlatEmpty DEF Ahead, Waiting
<1>5. got \o Ahead(tx) = <<>>
  BY <1>1, <1>2, <1>4, ConcatEmptySeq
<1>6. DOMAIN <<>> = {}
  OBVIOUS
<1>7. Carries(<<>>, <<>>)
  BY <1>6 DEF Carries
<1>8. QED
  BY <1>1, <1>2, <1>3, <1>5, <1>7 DEF Delivered

LEMMA PollDelivers ==
    ASSUME Delivered, NEW n \in Nat, NEW reply,
           Poll(reply), reply = <<>> \/ reply = NewPacket(n)
    PROVE  Delivered'
<1>1. /\ link = "open" /\ Holds(tx) /\ got \in Seq(Byte) /\ sent \in Seq(Nat)
      /\ Carries(got \o Ahead(tx), sent) /\ got' = got
  BY DEF Poll, Delivered
<1>2. PICK in : in = IF reply = <<>> THEN tx
                     ELSE [SendData(tx, reply) EXCEPT !.out = @ \/ FallsShort(tx, reply)]
  OBVIOUS
<1>3. tx' = in \/ tx' = OnSend(in)
  BY <1>2 DEF Poll
<1>4. Holds(in) /\ sent' \in Seq(Nat) /\ Carries(got \o Ahead(in), sent')
  <2>1. CASE reply = <<>>
    <3>1. sent' = sent
      BY <2>1 DEF Poll
    <3>2. QED
      BY <1>1, <1>2, <2>1, <3>1
  <2>2. CASE reply # <<>>
    <3>1. reply = Bytes(Len(sent) + 1, n)
      BY <2>2 DEF NewPacket
    <3>2. Len(reply) = n
      BY <3>1 DEF Bytes
    <3>3. sent' = Append(sent, n)
      BY <2>2, <3>2 DEF Poll
    <3>4. PICK r : r = SendData(tx, reply)
      OBVIOUS
    <3>5. Holds(r) /\ Carries(got \o Ahead(r), Append(sent, n))
      BY <1>1, <3>1, <3>4, SentCarried
    <3>6. PICK o : o = (r.out \/ FallsShort(tx, reply))
      OBVIOUS
    <3>7. o \in BOOLEAN
      BY <3>5, <3>6 DEF Holds, Unit, FallsShort
    <3>8. in = [r EXCEPT !.out = o]
      BY <1>2, <2>2, <3>4, <3>6
    <3>9. /\ in \in Unit /\ in.wire = r.wire /\ in.sendBuf = r.sendBuf /\ in.list = r.list
      BY <3>5, <3>7, <3>8 DEF Holds, Unit
    <3>10. Holds(in) /\ Ahead(in) = Ahead(r)
      BY <3>5, <3>9 DEF Holds, Ahead, Waiting
    <3>11. Append(sent, n) \in Seq(Nat)
      BY <1>1, AppendProperties
    <3>12. QED
      BY <3>3, <3>5, <3>10, <3>11
  <2>3. QED
    BY <2>1, <2>2
<1>5. Holds(tx') /\ Ahead(tx') = Ahead(in)
  BY <1>3, <1>4, OnSendKeeps
<1>6. PICK u : u = tx'
  OBVIOUS
<1>7. Holds(u) /\ Ahead(u) = Ahead(in)
  BY <1>5, <1>6
<1>8. QED
  BY <1>1, <1>4, <1>5 DEF Delivered, Holds, Ahead, Waiting

LEMMA SendDelivers ==
    ASSUME Delivered, NEW n \in Nat, Send(n)
    PROVE  Delivered'
<1>1. /\ link = "open" /\ Holds(tx) /\ got \in Seq(Byte) /\ sent \in Seq(Nat)
      /\ Carries(got \o Ahead(tx), sent) /\ got' = got
  BY DEF Send, Delivered
<1>2. PICK u : u = SendData(tx, Bytes(Len(sent) + 1, n))
  OBVIOUS
<1>3. Holds(u) /\ Carries(got \o Ahead(u), Append(sent, n))
  BY <1>1, <1>2, SentCarried
<1>4. tx' = u /\ sent' = Append(sent, n)
  BY <1>2 DEF Send, NewPacket
<1>5. Append(sent, n) \in Seq(Nat)
  BY <1>1, AppendProperties
<1>6. Holds(tx') /\ Ahead(tx') = Ahead(u)
  BY <1>3, <1>4
<1>7. QED
  BY <1>1, <1>3, <1>4, <1>5, <1>6 DEF Delivered, Holds, Ahead, Waiting

LEMMA ReadDelivers ==
    ASSUME Delivered, PeerReads
    PROVE  Delivered'
<1>1. /\ link = "open" /\ Holds(tx) /\ got \in Seq(Byte) /\ sent \in Seq(Nat)
      /\ Carries(got \o Ahead(tx), sent) /\ sent' = sent /\ tx.wire # <<>>
  BY DEF PeerReads, Delivered
<1>2. PICK u : u = [tx EXCEPT !.wire = Tail(tx.wire)]
  OBVIOUS
<1>3. PICK h : h = Append(got, Head(tx.wire))
  OBVIOUS
<1>4. Holds(u) /\ h \in Seq(Byte) /\ h \o Ahead(u) = got \o Ahead(tx)
  BY <1>1, <1>2, <1>3, ReadKeeps
<1>5. tx' = u /\ got' = h
  BY <1>2, <1>3 DEF PeerReads
<1>6. Holds(tx') /\ Ahead(tx') = Ahead(u)
  BY <1>4, <1>5
<1>7. QED
  BY <1>1, <1>4, <1>5, <1>6 DEF Delivered, Holds, Ahead, Waiting

LEMMA DeliveredPreserved == Delivered /\ [Next]_vars => Delivered'
<1> SUFFICES ASSUME Delivered, [Next]_vars PROVE Delivered'
  OBVIOUS
<1>1. CASE Breaks \/ PollError
  BY <1>1 DEF Delivered, Breaks, PollError
<1>2. CASE Done \/ UNCHANGED vars
  BY <1>2 DEF Done, vars, Delivered, Holds, Ahead, Waiting
<1>3. ASSUME NEW n \in 1..MaxLen, Send(n) \/ SendFails(n) \/ Poll(NewPacket(n))
      PROVE  Delivered'
  <2>1. n \in Nat
    OBVIOUS
  <2>2. CASE Send(n)
    BY <2>1, <2>2, SendDelivers
  <2>3. CASE SendFails(n)
    BY <2>3 DEF SendFails, Delivered
  <2>4. CASE Poll(NewPacket(n))
    BY <2>1, <2>4, PollDelivers
  <2>5. QED
    BY <1>3, <2>2, <2>3, <2>4
<1>4. CASE Poll(<<>>) \/ PeerReads
  <2>1. 0 \in Nat
    OBVIOUS
  <2>2. QED
    BY <1>4, <2>1, PollDelivers, ReadDelivers
<1>5. QED
  BY <1>1, <1>2, <1>3, <1>4, Zenon DEF Next

\* However the packets are cut between the kernel and the queues, and whatever
\* onSend and replies in callbacks do in between, an open connection carries
\* every byte given to sendData, each once, a packet's bytes in their order.
THEOREM BytesConserved == Spec => []Conserved
<1>1. Delivered => Conserved
  <2> SUFFICES ASSUME Delivered, link = "open" PROVE Conserved
    BY DEF Conserved
  <2>1. Holds(tx) /\ got \in Seq(Byte) /\ Carries(got \o Ahead(tx), sent)
    BY DEF Delivered
  <2>2. PICK w, b, f : w = tx.wire /\ b = tx.sendBuf /\ f = FlattenSeq(tx.list)
    OBVIOUS
  <2>3. got \in Str(Byte) /\ w \in Str(Byte) /\ b \in Str(Byte) /\ f \in Str(Byte)
    BY <2>1, <2>2, FlatType DEF Holds, Unit, Str
  <2>4. Cat(Cat(Cat(got, w), b), f) = Cat(got, Cat(w, Cat(b, f)))
    <3>1. Cat(got, w) \in Str(Byte) /\ Cat(b, f) \in Str(Byte)
      BY <2>3, CatStr
    <3>2. Cat(Cat(Cat(got, w), b), f) = Cat(Cat(got, w), Cat(b, f))
      BY <2>3, <3>1, CatAssoc
    <3>3. Cat(Cat(got, w), Cat(b, f)) = Cat(got, Cat(w, Cat(b, f)))
      BY <2>3, <3>1, CatAssoc
    <3>4. QED
      BY <3>2, <3>3
  <2>5. Stream = got \o Ahead(tx)
    BY <2>2, <2>4 DEF Cat, Stream, Ahead, Waiting
  <2>6. Carries(Stream, sent)
    BY <2>1, <2>5
  <2>7. QED
    BY <2>6 DEF Carries, Conserved
<1>2. QED
  BY <1>1, DeliveredInit, DeliveredPreserved, PTL DEF Spec
============================================================================
