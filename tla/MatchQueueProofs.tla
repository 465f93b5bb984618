--------------------------- MODULE MatchQueueProofs --------------------------
(***************************************************************************)
(* What holds of MatchQueue for any number of players and levels and any   *)
(* intervals.                                                              *)
(***************************************************************************)
EXTENDS MatchQueue, FiniteSetTheorems, SequenceTheorems, WellFoundedInduction, TLAPS

Node == [uid : Uids, userLv : PlayerLvs, integral : Integrals, age : Nat]

\* A list is in descending order of player level.
Descends(list) ==
    \A i, j \in DOMAIN list : i < j => list[i].userLv >= list[j].userLv

\* new has m at the p-th place, between the nodes of list.
Between(new, list, p, m) ==
    /\ p \in 1..(Len(list) + 1)
    /\ DOMAIN new = 1..(Len(list) + 1)
    /\ new[p] = m
    /\ \A i \in 1..Len(list) : IF i < p THEN new[i] = list[i] ELSE new[i + 1] = list[i]

\* new has the nodes of list at the positions of S, in their order.
Part(new, list, S) ==
    \E e \in [DOMAIN new -> S] :
       /\ \A i \in DOMAIN new : new[i] = list[e[i]]
       /\ \A i, j \in DOMAIN new : i < j => e[i] < e[j]
       /\ \A k \in S : \E i \in DOMAIN new : e[i] = k

Shape == [Levels -> Seq(Node)]

\* A player has one node in the lists.
Single(ls) ==
    \A k, l \in Levels : \A i \in DOMAIN ls[k], j \in DOMAIN ls[l] :
        ls[k][i].uid = ls[l][j].uid => k = l /\ i = j

Sound(ls) == ls \in Shape /\ Single(ls) /\ \A l \in Levels : Descends(ls[l])

\* The players of the nodes of list at the positions of S.
UidsAt(list, S) == {list[i].uid : i \in S}

\* The players who have a node in the lists.
Held(ls) == {u \in Uids : \E l \in Levels : \E i \in DOMAIN ls[l] : ls[l][i].uid = u}

----------------------------------------------------------------------------
(* Least numbers, and the recursive functions of the model *)

\* Well-foundedness of the order on numbers, from that of set inclusion.
LEMMA Least ==
    ASSUME NEW T \in SUBSET Nat, T # {}
    PROVE  \E n \in T : \A m \in T : n <= m
<1> DEFINE R == StrictSubsetOrdering(Nat)
           F == {0 .. n : n \in T}
<1>1. F \subseteq FiniteSubsetsOf(Nat) /\ F # {}
  <2>1. \A n \in Nat : 0 .. n \in FiniteSubsetsOf(Nat)
    BY FS_Interval DEF FiniteSubsetsOf
  <2>2. QED
    BY <2>1
<1>2. \E X \in F : \A Y \in F : ~ (<<Y, X>> \in R)
  <2>1. IsWellFoundedOn(R, FiniteSubsetsOf(Nat))
    BY FS_StrictSubsetOrderingWellFounded
  <2> HIDE DEF F, R
  <2>2. QED
    BY <1>1, <2>1, WFMin
<1>3. PICK n \in T : \A Y \in F : ~ (<<Y, 0 .. n>> \in R)
  BY <1>2
<1>4. ASSUME NEW m \in T, m < n PROVE FALSE
  <2>1. n \in 0 .. n /\ n \notin 0 .. m
    BY <1>4
  <2>2. 0 .. m \subseteq 0 .. n /\ 0 .. m # 0 .. n
    BY <1>4, <2>1
  <2>3. <<0 .. m, 0 .. n>> \in R
    BY <2>2 DEF StrictSubsetOrdering
  <2>4. QED
    BY <1>3, <2>3
<1>5. QED
  BY <1>4

\* Induction up to a number, for a set of numbers.
LEMMA UpTo ==
    ASSUME NEW N \in Nat, NEW T, 0 \in T,
           \A n \in 1..N : n - 1 \in T => n \in T
    PROVE  \A n \in 0..N : n \in T
<1> DEFINE U == {n \in 0..N : n \notin T}
<1>1. SUFFICES ASSUME U # {} PROVE FALSE
  OBVIOUS
<1>2. PICK n \in U : \A m \in U : n <= m
  <2>1. U \in SUBSET Nat
    OBVIOUS
  <2> HIDE DEF U
  <2>2. QED
    BY <1>1, <2>1, Least
<1>3. n \in 0..N /\ n \notin T /\ n # 0
  BY <1>2
<1>4. n \in 1..N /\ n - 1 \in 0..N /\ n - 1 < n
  BY <1>3
<1>5. n - 1 \in T
  BY <1>2, <1>4
<1>6. QED
  BY <1>3, <1>4, <1>5
KeptUpTo(g, list, S, N) ==
    g = [n \in 0..N |-> IF n = 0 THEN <<>>
                        ELSE IF n \in S THEN Append(g[n - 1], list[n]) ELSE g[n - 1]]

LEMMA KeptExists ==
    ASSUME NEW list, Len(list) \in Nat, NEW S
    PROVE  \E g : KeptUpTo(g, list, S, Len(list)) /\ Kept(list, S) = g[Len(list)]
<1> DEFINE L == Len(list)
           T == {N \in 0..L : \E g : KeptUpTo(g, list, S, N)}
<1>1. 0 \in T
  <2> DEFINE g == [n \in 0..0 |-> <<>>]
  <2>1. KeptUpTo(g, list, S, 0)
    BY DEF KeptUpTo
  <2> HIDE DEF g
  <2>2. QED
    BY <2>1
<1>2. ASSUME NEW N \in 1..L, N - 1 \in T PROVE N \in T
  <2>1. PICK g : KeptUpTo(g, list, S, N - 1)
    BY <1>2
  <2> DEFINE h == [n \in 0..N |-> IF n = N THEN (IF N \in S THEN Append(g[N - 1], list[N]) ELSE g[N - 1])
                                  ELSE g[n]]
  <2>2. \A n \in 0..(N - 1) :
           g[n] = IF n = 0 THEN <<>> ELSE IF n \in S THEN Append(g[n - 1], list[n]) ELSE g[n - 1]
    BY <2>1, Zenon DEF KeptUpTo
  <2>3. N \in Nat /\ N # 0 /\ \A n \in 0..(N - 1) : n \in 0..N /\ n # N
    OBVIOUS
  <2>4. h[N] = IF N \in S THEN Append(h[N - 1], list[N]) ELSE h[N - 1]
    <3>1. h[N - 1] = g[N - 1]
      BY <2>3
    <3>2. QED
      BY <2>3, <3>1
  <2>5. ASSUME NEW n \in 0..N, n # N
        PROVE  h[n] = IF n = 0 THEN <<>> ELSE IF n \in S THEN Append(h[n - 1], list[n]) ELSE h[n - 1]
    <3>1. n \in 0..(N - 1) /\ h[n] = g[n]
      BY <2>5
    <3>2. n # 0 => h[n - 1] = g[n - 1]
      BY <2>5
    <3> HIDE DEF h
    <3>3. QED
      BY <2>2, <3>1, <3>2
  <2>6. KeptUpTo(h, list, S, N)
    <3>1. h = [n \in 0..N |-> h[n]]
      OBVIOUS
    <3> HIDE DEF h
    <3>2. \A n \in 0..N :
            h[n] = IF n = 0 THEN <<>> ELSE IF n \in S THEN Append(h[n - 1], list[n]) ELSE h[n - 1]
      BY <2>3, <2>4, <2>5
    <3>3. QED
      BY <3>1, <3>2 DEF KeptUpTo
  <2> HIDE DEF h
  <2>7. QED
    BY <2>6
<1>3. L \in T
  <2> HIDE DEF T
  <2>1. \A n \in 0..L : n \in T
    BY <1>1, <1>2, UpTo
  <2>2. QED
    BY <2>1
<1>4. PICK g0 : KeptUpTo(g0, list, S, L)
  BY <1>3
<1> DEFINE Is(f) == f = [n \in 0..L |-> IF n = 0 THEN <<>>
                                       ELSE IF n \in S THEN Append(f[n - 1], list[n]) ELSE f[n - 1]]
           k == CHOOSE f : Is(f)
<1>5. Kept(list, S) = k[L]
  BY DEF Kept
<1>6. Is(k)
  <2>1. Is(g0)
    BY <1>4 DEF KeptUpTo
  <2> HIDE DEF Is
  <2>2. QED
    BY <2>1
<1>7. KeptUpTo(k, list, S, L)
  BY <1>6 DEF KeptUpTo
<1> HIDE DEF k
<1>8. QED
  BY <1>5, <1>7

LEMMA KeptPart ==
    ASSUME NEW X, NEW list \in Seq(X), NEW S \in SUBSET (DOMAIN list)
    PROVE  Kept(list, S) \in Seq(X) /\ Part(Kept(list, S), list, S)
<1> DEFINE L == Len(list)
<1>1. L \in Nat /\ DOMAIN list = 1..L
  OBVIOUS
<1>2. PICK k : KeptUpTo(k, list, S, L) /\ Kept(list, S) = k[L]
  BY <1>1, KeptExists
<1>3. /\ k[0] = <<>>
      /\ \A n \in 1..L : k[n] = IF n \in S THEN Append(k[n - 1], list[n]) ELSE k[n - 1]
  <2>1. \A n \in 0..L :
           k[n] = IF n = 0 THEN <<>> ELSE IF n \in S THEN Append(k[n - 1], list[n]) ELSE k[n - 1]
    BY <1>2, Zenon DEF KeptUpTo
  <2>2. 0 \in 0..L /\ \A n \in 1..L : n \in 0..L /\ n # 0
    BY <1>1
  <2>3. QED
    BY <2>1, <2>2
<1> DEFINE T == {n \in 0..L : k[n] \in Seq(X) /\ Part(k[n], list, S \cap 1..n)}
<1>4. 0 \in T
  <2>1. k[0] \in Seq(X) /\ DOMAIN k[0] = {} /\ S \cap 1..0 = {}
    BY <1>3
  <2>2. Part(k[0], list, S \cap 1..0)
    <3> DEFINE e == [i \in DOMAIN k[0] |-> 0]
    <3>1. e \in [DOMAIN k[0] -> S \cap 1..0]
      BY <2>1
    <3>2. QED
      BY <2>1, <3>1 DEF Part
  <2>3. QED
    BY <1>1, <2>1, <2>2
<1>5. ASSUME NEW n \in 1..L, n - 1 \in T PROVE n \in T
  <2> DEFINE old == k[n - 1]
             p == Len(old)
  <2>1. old \in Seq(X) /\ p \in Nat /\ DOMAIN old = 1..p
    BY <1>5
  <2>2. Part(old, list, S \cap 1..(n - 1))
    BY <1>5
  <2> HIDE DEF old
  <2>3. PICK e \in [DOMAIN old -> S \cap 1..(n - 1)] :
           /\ \A i \in DOMAIN old : old[i] = list[e[i]]
           /\ \A i, j \in DOMAIN old : i < j => e[i] < e[j]
           /\ \A m \in S \cap 1..(n - 1) : \E i \in DOMAIN old : e[i] = m
    BY <2>2 DEF Part
  <2>4. /\ e \in [1..p -> S \cap 1..(n - 1)]
        /\ \A i \in 1..p : old[i] = list[e[i]]
        /\ \A i, j \in 1..p : i < j => e[i] < e[j]
        /\ \A m \in S \cap 1..(n - 1) : \E i \in 1..p : e[i] = m
    BY <2>1, <2>3
  <2>5. CASE n \in S
    <3> DEFINE f == [i \in 1..(p + 1) |-> IF i = p + 1 THEN n ELSE e[i]]
    <3>1. k[n] = Append(old, list[n]) /\ list[n] \in X
      <4>1. list[n] \in X
        BY <1>1, ElementOfSeq
      <4>2. QED
        BY <1>3, <2>5, <4>1 DEF old
    <3>2. /\ k[n] \in Seq(X) /\ DOMAIN k[n] = 1..(p + 1)
          /\ k[n][p + 1] = list[n] /\ \A i \in 1..p : k[n][i] = old[i]
      BY <2>1, <3>1
    <3>3. \A i \in 1..(p + 1) : i # p + 1 => i \in 1..p
      BY <2>1
    <3>4. /\ f[p + 1] = n
          /\ \A i \in 1..p : f[i] = e[i] /\ f[i] \in S /\ f[i] \in 1..(n - 1)
      BY <2>1, <2>4
    <3>5. f \in [1..(p + 1) -> S \cap 1..n]
      BY <2>4, <2>5, <3>3
    <3> HIDE DEF f
    <3>6. \A i \in 1..(p + 1) : k[n][i] = list[f[i]]
      BY <2>4, <3>2, <3>3, <3>4
    <3>7. ASSUME NEW i \in 1..(p + 1), NEW j \in 1..(p + 1), i < j
          PROVE  f[i] < f[j]
      <4>1. i \in 1..p
        BY <2>1, <3>7
      <4>2. CASE j = p + 1
        BY <3>4, <4>1, <4>2
      <4>3. CASE j # p + 1
        BY <2>4, <3>3, <3>4, <3>7, <4>1, <4>3
      <4>4. QED
        BY <4>2, <4>3
    <3>8. ASSUME NEW m \in S \cap 1..n PROVE \E i \in 1..(p + 1) : f[i] = m
      <4>1. CASE m = n
        BY <2>1, <3>4, <4>1
      <4>2. CASE m # n
        <5>1. m \in S \cap 1..(n - 1)
          BY <4>2
        <5>2. PICK i \in 1..p : e[i] = m
          BY <2>4, <5>1
        <5>3. i \in 1..(p + 1) /\ f[i] = m
          BY <2>1, <3>4, <5>2
        <5>4. QED
          BY <5>3
      <4>3. QED
        BY <4>1, <4>2
    <3>9. Part(k[n], list, S \cap 1..n)
      <4>1. /\ f \in [DOMAIN k[n] -> S \cap 1..n]
            /\ \A i \in DOMAIN k[n] : k[n][i] = list[f[i]]
            /\ \A i, j \in DOMAIN k[n] : i < j => f[i] < f[j]
            /\ \A m \in S \cap 1..n : \E i \in DOMAIN k[n] : f[i] = m
        BY <3>2, <3>5, <3>6, <3>7, <3>8
      <4>2. QED
        BY <4>1 DEF Part
    <3>10. QED
      BY <1>1, <3>2, <3>9
  <2>6. CASE n \notin S
    <3>1. k[n] = old
      BY <1>3, <2>6 DEF old
    <3>2. S \cap 1..n = S \cap 1..(n - 1)
      BY <2>6
    <3>3. Part(k[n], list, S \cap 1..n)
      <4>1. Part(old, list, S \cap 1..(n - 1))
        BY <1>5 DEF old
      <4>2. QED
        BY <3>1, <3>2, <4>1
    <3>4. QED
      BY <1>1, <2>1, <3>1, <3>3
  <2>7. QED
    BY <2>5, <2>6
<1>6. L \in T
  <2> HIDE DEF T
  <2>1. \A n \in 0..L : n \in T
    BY <1>1, <1>4, <1>5, UpTo
  <2>2. QED
    BY <1>1, <2>1
<1>7. S \cap 1..L = S
  BY <1>1
<1>8. QED
  BY <1>2, <1>6, <1>7
----------------------------------------------------------------------------
(* Inserting a node *)

LEMMA NodeFacts ==
    ASSUME NEW list \in Seq(Node)
    PROVE  /\ Len(list) \in Nat /\ DOMAIN list = 1..Len(list)
           /\ \A i \in 1..Len(list) :
                 /\ list[i] \in Node /\ list[i].uid \in Uids
                 /\ list[i].userLv \in Nat /\ list[i].integral \in Nat /\ list[i].age \in Nat
<1>1. /\ Len(list) \in Nat /\ DOMAIN list = 1..Len(list)
      /\ \A i \in 1..Len(list) : list[i] \in Node
  BY ElementOfSeq, LenProperties
<1>2. \A m \in Node : /\ m.uid \in Uids /\ m.userLv \in Nat
                      /\ m.integral \in Nat /\ m.age \in Nat
  BY MatchAssumption DEF Node
<1>3. QED
  BY <1>1, <1>2

LEMMA InsertAtFacts ==
    ASSUME NEW X, NEW l \in Seq(X), NEW i \in 1..(Len(l) + 1), NEW t \in X
    PROVE  /\ InsertAt(l, i, t) \in Seq(X)
           /\ Len(InsertAt(l, i, t)) = Len(l) + 1
           /\ \A m \in 1..(Len(l) + 1) :
                 InsertAt(l, i, t)[m] = IF m < i THEN l[m] ELSE IF m = i THEN t ELSE l[m - 1]
<1> DEFINE a == SubSeq(l, 1, i - 1)
           b == SubSeq(l, i, Len(l))
           c == a \o <<t>>
<1>1. /\ a \in Seq(X) /\ Len(a) = i - 1
      /\ \A m \in 1..(i - 1) : a[m] = l[m]
  BY SubSeqProperties
<1>2. /\ b \in Seq(X) /\ Len(b) = Len(l) - i + 1
      /\ \A m \in 1..(Len(l) - i + 1) : b[m] = l[i + m - 1]
  BY SubSeqProperties
<1> HIDE DEF a, b
<1>3. /\ c \in Seq(X) /\ Len(c) = i
      /\ \A m \in 1..i : c[m] = IF m < i THEN l[m] ELSE t
  BY <1>1, ConcatProperties
<1> HIDE DEF c
<1>4. /\ c \o b \in Seq(X) /\ Len(c \o b) = Len(l) + 1
      /\ \A m \in 1..(Len(l) + 1) : (c \o b)[m] = IF m <= i THEN c[m] ELSE b[m - i]
  BY <1>2, <1>3, ConcatProperties
<1>5. ASSUME NEW m \in 1..(Len(l) + 1)
      PROVE  (c \o b)[m] = IF m < i THEN l[m] ELSE IF m = i THEN t ELSE l[m - 1]
  <2>1. CASE m <= i
    <3>1. m \in 1..i /\ (c \o b)[m] = c[m]
      BY <1>4, <2>1
    <3>2. QED
      BY <1>3, <3>1
  <2>2. CASE ~(m <= i)
    <3>1. m - i \in 1..(Len(l) - i + 1) /\ i + (m - i) - 1 = m - 1
      BY <2>2
    <3>2. b[m - i] = l[m - 1]
      BY <1>2, <3>1
    <3>3. QED
      BY <1>4, <2>2, <3>2
  <2>3. QED
    BY <2>1, <2>2
<1>6. QED
  BY <1>4, <1>5 DEF InsertAt, a, b, c

LEMMA InsertAtBetween ==
    ASSUME NEW X, NEW list \in Seq(X), NEW p \in 1..(Len(list) + 1), NEW m \in X
    PROVE  InsertAt(list, p, m) \in Seq(X) /\ Between(InsertAt(list, p, m), list, p, m)
<1> DEFINE L == Len(list)
           new == InsertAt(list, p, m)
<1>1. /\ new \in Seq(X) /\ Len(new) = L + 1 /\ L \in Nat /\ p \in 1..(L + 1)
      /\ \A i \in 1..(L + 1) :
            new[i] = IF i < p THEN list[i] ELSE IF i = p THEN m ELSE list[i - 1]
  BY InsertAtFacts
<1> HIDE DEF new
<1>2. DOMAIN new = 1..(L + 1)
  BY <1>1
<1>3. new[p] = m
  BY <1>1
<1>4. ASSUME NEW i \in 1..L PROVE IF i < p THEN new[i] = list[i] ELSE new[i + 1] = list[i]
  <2>1. i \in 1..(L + 1) /\ i + 1 \in 1..(L + 1) /\ (i + 1) - 1 = i
    BY <1>1
  <2>2. CASE i < p
    BY <1>1, <2>1, <2>2
  <2>3. CASE ~(i < p)
    <3>1. ~(i + 1 < p) /\ i + 1 # p
      BY <1>1, <2>3
    <3>2. new[i + 1] = list[(i + 1) - 1]
      BY <1>1, <2>1, <3>1
    <3>3. QED
      BY <2>1, <2>3, <3>2
  <2>4. QED
    BY <2>2, <2>3
<1>5. QED
  BY <1>1, <1>2, <1>3, <1>4 DEF Between, new

\* insert puts a node in front of those of a lower level and behind those of a
\* higher one.
LEMMA InsertFacts ==
    ASSUME NEW list \in Seq(Node), NEW m \in Node, Descends(list)
    PROVE  /\ Insert(list, m) \in Seq(Node)
           /\ \E p \in Nat :
                 /\ Between(Insert(list, m), list, p, m)
                 /\ \A i \in 1..Len(list) : IF i < p THEN list[i].userLv >= m.userLv
                                            ELSE list[i].userLv <= m.userLv
<1> DEFINE L == Len(list)
           stops == {i \in DOMAIN list : Below(list[i], m) \/ Above(list[i], m) \/ i = L}
<1>1. /\ L \in Nat /\ DOMAIN list = 1..L
      /\ \A i \in 1..L : list[i].userLv \in Nat /\ list[i].integral \in Nat
      /\ m.userLv \in Nat /\ m.integral \in Nat
  <2>1. m.userLv \in Nat /\ m.integral \in Nat
    BY MatchAssumption DEF Node
  <2>2. QED
    BY <2>1, NodeFacts
<1>2. CASE list = <<>>
  <2>1. Insert(list, m) = <<m>> /\ L = 0
    BY <1>2 DEF Insert
  <2>2. Insert(list, m) \in Seq(Node) /\ Between(Insert(list, m), list, 1, m)
    BY <2>1 DEF Between
  <2>3. \A i \in 1..L : FALSE
    BY <2>1
  <2>4. QED
    BY <2>2, <2>3
<1>3. CASE list # <<>>
  <2>1. L \in 1..L /\ L \in stops /\ stops \in SUBSET Nat
    <3>1. L # 0
      BY <1>1, <1>3
    <3>2. QED
      BY <1>1, <3>1
  <2>2. \E i \in stops : \A j \in stops : i <= j
    <3> HIDE DEF stops
    <3>1. QED
      BY <2>1, Least
  <2>3. PICK i : i = Min(stops)
    OBVIOUS
  <2>4. i \in stops /\ \A j \in stops : i <= j
    <3> HIDE DEF stops
    <3>1. QED
      BY <2>2, <2>3 DEF Min
  <2>5. i \in 1..L /\ i \in Nat
    BY <1>1, <2>4
  <2>6. Below(list[i], m) \/ Above(list[i], m) \/ i = L
    BY <2>4
  <2>7. ASSUME NEW j \in 1..L, j < i PROVE list[j].userLv >= m.userLv
    <3>1. ~Below(list[j], m)
      <4>1. Below(list[j], m) => j \in stops
        BY <1>1
      <4> HIDE DEF stops
      <4>2. QED
        BY <2>4, <2>5, <2>7, <4>1
    <3>2. list[j].userLv \in Nat
      BY <1>1
    <3>3. QED
      BY <1>1, <3>1, <3>2 DEF Below
  <2>8. ASSUME NEW j \in 1..L, i < j PROVE list[i].userLv >= list[j].userLv
    BY <1>1, <2>5, <2>8 DEF Descends
  <2>9. Insert(list, m) = InsertAt(list, IF Below(list[i], m) THEN i ELSE i + 1, m)
    BY <1>3, <2>3 DEF Insert
  <2>10. \A j \in 1..L : list[j].userLv \in Nat
    BY <1>1
  <2> HIDE DEF stops
  <2>11. CASE Below(list[i], m)
    <3>1. list[i].userLv <= m.userLv
      BY <1>1, <2>5, <2>10, <2>11 DEF Below
    <3>2. ASSUME NEW j \in 1..L
          PROVE  IF j < i THEN list[j].userLv >= m.userLv ELSE list[j].userLv <= m.userLv
      <4>1. CASE j < i
        BY <2>7, <4>1
      <4>2. CASE j = i
        BY <3>1, <4>2, <2>5
      <4>3. CASE i < j
        <5>1. list[i].userLv >= list[j].userLv
          BY <2>8, <4>3
        <5>2. QED
          BY <1>1, <2>5, <2>10, <3>1, <4>3, <5>1
      <4>4. QED
        BY <2>5, <4>1, <4>2, <4>3
    <3>3. i \in 1..(L + 1)
      BY <1>1, <2>5
    <3>4. Insert(list, m) \in Seq(Node) /\ Between(Insert(list, m), list, i, m)
      BY <2>9, <2>11, <3>3, InsertAtBetween
    <3>5. QED
      BY <2>5, <3>2, <3>4
  <2>12. CASE ~Below(list[i], m)
    <3>1. list[i].userLv >= m.userLv
      BY <1>1, <2>5, <2>10, <2>12 DEF Below
    <3>2. ASSUME NEW j \in 1..L
          PROVE  IF j < i + 1 THEN list[j].userLv >= m.userLv ELSE list[j].userLv <= m.userLv
      <4>1. CASE j < i
        BY <2>5, <2>7, <4>1
      <4>2. CASE j = i
        BY <3>1, <4>2, <2>5
      <4>3. CASE i < j
        <5>1. ~(j < i + 1) /\ i # L
          <6>1. L \in Nat
            BY <1>1
          <6>2. j \in Nat /\ j <= L
            BY <6>1
          <6>3. QED
            BY <2>5, <4>3, <6>1, <6>2
        <5>2. list[i].userLv = m.userLv
          BY <2>6, <2>12, <5>1 DEF Above
        <5>3. list[i].userLv >= list[j].userLv
          BY <2>8, <4>3
        <5>4. QED
          BY <1>1, <2>10, <5>1, <5>2, <5>3
      <4>4. QED
        BY <2>5, <4>1, <4>2, <4>3
    <3>3. i + 1 \in 1..(L + 1) /\ i + 1 \in Nat
      BY <1>1, <2>5
    <3>4. Insert(list, m) \in Seq(Node) /\ Between(Insert(list, m), list, i + 1, m)
      <4>1. Insert(list, m) = InsertAt(list, i + 1, m)
        BY <2>9, <2>12
      <4>2. QED
        BY <3>3, <4>1, InsertAtBetween
    <3>5. QED
      BY <3>2, <3>3, <3>4
  <2>13. QED
    BY <2>11, <2>12
<1>4. QED
  BY <1>2, <1>3
----------------------------------------------------------------------------
(* What is taken out of a list and what is put into it *)

LEMMA SameSize ==
    ASSUME NEW S, NEW T, IsFiniteSet(S), NEW f \in [S -> T],
           \A i, j \in S : f[i] = f[j] => i = j,
           \A t \in T : \E i \in S : f[i] = t
    PROVE  IsFiniteSet(T) /\ Cardinality(T) = Cardinality(S)
<1>1. f \in Bijection(S, T)
  BY DEF Bijection, Injection, Surjection, IsInjective
<1>2. ExistsBijection(S, T)
  BY <1>1 DEF ExistsBijection
<1>3. QED
  BY <1>2, FS_Bijection

LEMMA IntervalSize ==
    ASSUME NEW N \in Nat
    PROVE  IsFiniteSet(1..N) /\ Cardinality(1..N) = N
<1>1. 1 \in Int /\ N \in Int
  OBVIOUS
<1>2. IsFiniteSet(1..N) /\ Cardinality(1..N) = IF 1 > N THEN 0 ELSE N - 1 + 1
  BY <1>1, FS_Interval
<1>3. QED
  BY <1>2

LEMMA PartSize ==
    ASSUME NEW X, NEW new \in Seq(X), NEW list, NEW S \in SUBSET Int, Part(new, list, S)
    PROVE  IsFiniteSet(S) /\ Cardinality(S) = Len(new)
<1>1. PICK e \in [DOMAIN new -> S] :
         /\ \A i, j \in DOMAIN new : i < j => e[i] < e[j]
         /\ \A k \in S : \E i \in DOMAIN new : e[i] = k
  BY DEF Part
<1>2. Len(new) \in Nat /\ DOMAIN new = 1..Len(new)
  BY LenProperties
<1>3. ASSUME NEW i \in 1..Len(new), NEW j \in 1..Len(new), e[i] = e[j] PROVE i = j
  <2>1. e[i] \in Int /\ e[j] \in Int
    BY <1>1, <1>2
  <2>2. ~(i < j) /\ ~(j < i)
    BY <1>1, <1>2, <1>3, <2>1
  <2>3. QED
    BY <1>2, <2>2
<1>4. IsFiniteSet(1..Len(new)) /\ Cardinality(1..Len(new)) = Len(new)
  BY <1>2, IntervalSize
<1>5. /\ e \in [1..Len(new) -> S]
      /\ \A i, j \in 1..Len(new) : e[i] = e[j] => i = j
      /\ \A k \in S : \E i \in 1..Len(new) : e[i] = k
  BY <1>1, <1>2, <1>3
<1>6. QED
  BY <1>4, <1>5, SameSize, ZenonT(60)

LEMMA PartDescends ==
    ASSUME NEW list \in Seq(Node), NEW S \in SUBSET DOMAIN list, NEW new,
           DOMAIN new \subseteq Int, Part(new, list, S), Descends(list)
    PROVE  Descends(new)
<1>1. PICK e \in [DOMAIN new -> S] :
         /\ \A i \in DOMAIN new : new[i] = list[e[i]]
         /\ \A i, j \in DOMAIN new : i < j => e[i] < e[j]
  BY DEF Part
<1>2. ASSUME NEW i \in DOMAIN new, NEW j \in DOMAIN new, i < j
      PROVE  new[i].userLv >= new[j].userLv
  <2>1. e[i] \in DOMAIN list /\ e[j] \in DOMAIN list /\ e[i] < e[j]
    BY <1>1, <1>2
  <2>2. list[e[i]].userLv >= list[e[j]].userLv
    BY <2>1 DEF Descends
  <2>3. QED
    BY <1>1, <2>2
<1>3. QED
  BY <1>2 DEF Descends

LEMMA HeldFinite ==
    ASSUME NEW ls
    PROVE  IsFiniteSet(Held(ls)) /\ Cardinality(Held(ls)) \in Nat
<1>1. Held(ls) \in SUBSET Uids
  BY DEF Held
<1>2. IsFiniteSet(Held(ls))
  BY <1>1, MatchAssumption, FS_Subset
<1>3. QED
  BY <1>2, FS_CardinalityType

\* Taking nodes out of the list of one level.
LEMMA TakenOut ==
    ASSUME NEW ls, Sound(ls), NEW n \in Levels, NEW S \in SUBSET DOMAIN ls[n],
           NEW new \in Seq(Node), Part(new, ls[n], S)
    PROVE  /\ Sound([ls EXCEPT ![n] = new])
           /\ Held([ls EXCEPT ![n] = new]) \subseteq Held(ls)
           /\ \A i \in DOMAIN ls[n] \ S : ls[n][i].uid \notin Held([ls EXCEPT ![n] = new])
           /\ Held(ls) \subseteq Held([ls EXCEPT ![n] = new]) \cup UidsAt(ls[n], DOMAIN ls[n] \ S)
<1> DEFINE new2 == [ls EXCEPT ![n] = new]
<1>1. PICK e \in [DOMAIN new -> S] :
         /\ \A i \in DOMAIN new : new[i] = ls[n][e[i]]
         /\ \A i, j \in DOMAIN new : i < j => e[i] < e[j]
         /\ \A k \in S : \E i \in DOMAIN new : e[i] = k
  BY DEF Part
<1>2. PICK r : r = new2
  OBVIOUS
<1>3. /\ ls \in Shape /\ r \in Shape /\ r[n] = new
      /\ \A l \in Levels : l # n => r[l] = ls[l]
  BY <1>2 DEF Sound, Shape
<1>4. /\ ls[n] \in Seq(Node) /\ Len(new) \in Nat /\ DOMAIN new = 1..Len(new)
      /\ DOMAIN ls[n] \subseteq Int
  BY <1>3, NodeFacts DEF Shape
<1> HIDE DEF new2
<1>5. \A i, j \in DOMAIN new : e[i] = e[j] => i = j
  <2>1. ASSUME NEW i \in DOMAIN new, NEW j \in DOMAIN new, e[i] = e[j] PROVE i = j
    <3>1. e[i] \in Int /\ e[j] \in Int /\ i \in Int /\ j \in Int
      BY <1>1, <1>4
    <3>2. ~(i < j) /\ ~(j < i)
      BY <1>1, <2>1, <3>1
    <3>3. QED
      BY <3>1, <3>2
  <2>2. QED
    BY <2>1
<1>6. Single(r)
  <2>1. ASSUME NEW k \in Levels, NEW l \in Levels, NEW i \in DOMAIN r[k], NEW j \in DOMAIN r[l],
               r[k][i].uid = r[l][j].uid
        PROVE  k = l /\ i = j
    <3>1. PICK a \in DOMAIN ls[k] : r[k][i] = ls[k][a] /\ (k = n => i \in DOMAIN new /\ a = e[i]) /\ (k # n => a = i)
      BY <1>1, <1>3
    <3>2. PICK b \in DOMAIN ls[l] : r[l][j] = ls[l][b] /\ (l = n => j \in DOMAIN new /\ b = e[j]) /\ (l # n => b = j)
      BY <1>1, <1>3
    <3>3. k = l /\ a = b
      BY <2>1, <3>1, <3>2 DEF Sound, Single
    <3>4. QED
      BY <1>5, <3>1, <3>2, <3>3
  <2>2. QED
    BY <2>1 DEF Single
<1>7. \A l \in Levels : Descends(r[l])
  <2>1. Descends(r[n])
    BY <1>3, <1>4, PartDescends DEF Sound
  <2>2. QED
    BY <1>3, <2>1 DEF Sound
<1>8. /\ Held(r) \subseteq Held(ls)
      /\ \A i \in DOMAIN ls[n] \ S : ls[n][i].uid \notin Held(r)
      /\ Held(ls) \subseteq Held(r) \cup UidsAt(ls[n], DOMAIN ls[n] \ S)
  <2>1. ASSUME NEW u \in Held(r)
        PROVE  u \in Held(ls) /\ \A m \in DOMAIN ls[n] \ S : ls[n][m].uid # u
    <3>0. PICK l \in Levels : \E i \in DOMAIN r[l] : r[l][i].uid = u
      BY DEF Held
    <3>1. PICK i \in DOMAIN r[l] : r[l][i].uid = u /\ u \in Uids
      BY <3>0 DEF Held
    <3>2. PICK a \in DOMAIN ls[l] : r[l][i] = ls[l][a] /\ (l = n => a \in S)
      BY <1>1, <1>3, <3>1
    <3>3. u \in Held(ls)
      BY <3>1, <3>2 DEF Held
    <3>4. ASSUME NEW m \in DOMAIN ls[n] \ S PROVE ls[n][m].uid # u
      BY <3>1, <3>2 DEF Sound, Single
    <3>5. QED
      BY <3>3, <3>4
  <2>2. ASSUME NEW u \in Held(ls), \A m \in DOMAIN ls[n] \ S : ls[n][m].uid # u
        PROVE  u \in Held(r)
    <3>0. PICK l \in Levels : \E a \in DOMAIN ls[l] : ls[l][a].uid = u
      BY DEF Held
    <3>1. PICK a \in DOMAIN ls[l] : ls[l][a].uid = u /\ u \in Uids
      BY <3>0 DEF Held
    <3>2. CASE l = n
      <4>1. a \in S
        BY <2>2, <3>1, <3>2
      <4>2. PICK i \in DOMAIN new : e[i] = a
        BY <1>1, <4>1
      <4>3. r[n][i].uid = u /\ i \in DOMAIN r[n]
        BY <1>1, <1>3, <3>1, <3>2, <4>2
      <4>4. QED
        BY <3>1, <4>3 DEF Held
    <3>3. CASE l # n
      <4>1. a \in DOMAIN r[l] /\ r[l][a].uid = u
        BY <1>3, <3>1, <3>3
      <4>2. QED
        BY <3>1, <4>1 DEF Held
    <3>4. QED
      BY <3>2, <3>3
  <2>3. \A u \in Held(ls) :
           (\A m \in DOMAIN ls[n] \ S : ls[n][m].uid # u) \/ u \in UidsAt(ls[n], DOMAIN ls[n] \ S)
    BY DEF UidsAt
  <2>4. QED
    BY <2>1, <2>2, <2>3
<1>9. Sound(r)
  BY <1>3, <1>6, <1>7 DEF Sound
<1>10. QED
  BY <1>2, <1>8, <1>9 DEF new2

\* How many players that takes away.
LEMMA TakenSize ==
    ASSUME NEW ls, Sound(ls), NEW n \in Levels, NEW S \in SUBSET DOMAIN ls[n],
           NEW new \in Seq(Node), Part(new, ls[n], S)
    PROVE  /\ IsFiniteSet(Held(ls))
           /\ Cardinality(Held(ls)) \in Nat
           /\ Cardinality(Held([ls EXCEPT ![n] = new])) =
                 Cardinality(Held(ls)) - (Len(ls[n]) - Len(new))
<1> DEFINE list == ls[n]
           D == DOMAIN list \ S
           gone == {list[i].uid : i \in D}
<1>1. IsFiniteSet(Held(ls)) /\ Cardinality(Held(ls)) \in Nat
  BY HeldFinite
<1>2. list \in Seq(Node)
  BY DEF Sound, Shape
<1>3. /\ Len(list) \in Nat /\ DOMAIN list = 1..Len(list)
      /\ \A i \in 1..Len(list) : list[i].uid \in Uids
  BY <1>2, NodeFacts
<1>4. IsFiniteSet(DOMAIN list) /\ Cardinality(DOMAIN list) = Len(list)
  BY <1>3, IntervalSize
<1>5. IsFiniteSet(S) /\ Cardinality(S) = Len(new)
  <2>1. S \in SUBSET Int
    BY <1>3
  <2> HIDE DEF list
  <2>2. QED
    BY <2>1, PartSize
<1>6. IsFiniteSet(D) /\ Cardinality(D) = Len(list) - Len(new)
  <2>1. DOMAIN list \cap S = S
    OBVIOUS
  <2>2. /\ IsFiniteSet(DOMAIN list \ S)
        /\ Cardinality(DOMAIN list \ S) =
              Cardinality(DOMAIN list) - Cardinality(DOMAIN list \cap S)
    BY <1>4, FS_Difference
  <2>3. QED
    BY <1>4, <1>5, <2>1, <2>2
<1>7. IsFiniteSet(gone) /\ Cardinality(gone) = Cardinality(D)
  <2> DEFINE f == [i \in D |-> list[i].uid]
  <2>1. f \in [D -> gone]
    OBVIOUS
  <2>2. \A i, j \in D : f[i] = f[j] => i = j
    BY DEF Sound, Single
  <2>3. \A t \in gone : \E i \in D : f[i] = t
    OBVIOUS
  <2> HIDE DEF f, gone, D
  <2>4. QED
    BY <1>6, <2>1, <2>2, <2>3, SameSize
<1>8. gone \subseteq Held(ls)
  BY <1>3 DEF Held
<1>9. Held([ls EXCEPT ![n] = new]) = Held(ls) \ gone
  <2>1. gone = UidsAt(list, D)
    BY DEF UidsAt
  <2>2. \A u \in gone : u \notin Held([ls EXCEPT ![n] = new])
    <3>1. \A i \in D : list[i].uid \notin Held([ls EXCEPT ![n] = new])
      BY TakenOut
    <3>2. QED
      BY <3>1
  <2>3. /\ Held([ls EXCEPT ![n] = new]) \subseteq Held(ls)
        /\ Held(ls) \subseteq Held([ls EXCEPT ![n] = new]) \cup UidsAt(ls[n], DOMAIN ls[n] \ S)
    BY TakenOut
  <2> HIDE DEF gone
  <2>4. QED
    BY <2>1, <2>2, <2>3
<1>10. Cardinality(Held(ls) \ gone) = Cardinality(Held(ls)) - Cardinality(gone)
  <2>1. Held(ls) \cap gone = gone
    BY <1>8
  <2> HIDE DEF gone
  <2>2. QED
    BY <1>1, <2>1, FS_Difference, ZenonT(60)
<1>11. QED
  BY <1>1, <1>6, <1>7, <1>9, <1>10

\* Putting a node of a player who has none into a list.
LEMMA Put ==
    ASSUME NEW ls, Sound(ls), NEW n \in Levels, NEW m \in Node, m.uid \notin Held(ls)
    PROVE  /\ Sound([ls EXCEPT ![n] = Insert(@, m)])
           /\ Held([ls EXCEPT ![n] = Insert(@, m)]) = Held(ls) \cup {m.uid}
           /\ Cardinality(Held([ls EXCEPT ![n] = Insert(@, m)])) = Cardinality(Held(ls)) + 1
<1> DEFINE list == ls[n]
           L == Len(list)
<1>1. /\ ls \in Shape /\ list \in Seq(Node) /\ Descends(list) /\ m.uid \in Uids
      /\ \A l \in Levels : ls[l] \in Seq(Node)
  BY DEF Sound, Shape, Node
<1>2. PICK new : new = Insert(list, m)
  OBVIOUS
<1>3. PICK r : r = [ls EXCEPT ![n] = new]
  OBVIOUS
<1>4. /\ new \in Seq(Node)
      /\ \E p \in Nat :
            /\ Between(new, list, p, m)
            /\ \A i \in 1..L : IF i < p THEN list[i].userLv >= m.userLv
                               ELSE list[i].userLv <= m.userLv
  BY <1>1, <1>2, InsertFacts
<1>5. PICK p \in Nat :
         /\ Between(new, list, p, m)
         /\ \A i \in 1..L : IF i < p THEN list[i].userLv >= m.userLv
                            ELSE list[i].userLv <= m.userLv
  BY <1>4
<1>6. /\ r \in Shape /\ r[n] = new /\ \A l \in Levels : l # n => r[l] = ls[l]
  BY <1>1, <1>3, <1>4 DEF Shape
<1>7. /\ L \in Nat /\ DOMAIN list = 1..L /\ DOMAIN new = 1..(L + 1)
      /\ p \in 1..(L + 1) /\ new[p] = m
      /\ \A i \in 1..L : list[i].userLv \in Nat
      /\ m.userLv \in Nat
  <2>1. L \in Nat /\ DOMAIN list = 1..L /\ \A i \in 1..L : list[i].userLv \in Nat
    BY <1>1, NodeFacts
  <2>2. m.userLv \in Nat
    BY MatchAssumption DEF Node
  <2>3. QED
    BY <1>5, <2>1, <2>2 DEF Between
<1>8. ASSUME NEW i \in DOMAIN new
      PROVE  \/ i = p /\ new[i] = m
             \/ i < p /\ i \in DOMAIN list /\ new[i] = list[i]
             \/ p < i /\ i - 1 \in DOMAIN list /\ new[i] = list[i - 1]
  <2>1. CASE i = p
    BY <1>7, <2>1
  <2>2. CASE i < p
    <3>1. i \in 1..L
      BY <1>7, <2>2
    <3>2. QED
      BY <1>5, <1>7, <2>2, <3>1 DEF Between
  <2>3. CASE p < i
    <3>1. i - 1 \in 1..L /\ ~(i - 1 < p) /\ (i - 1) + 1 = i
      BY <1>7, <2>3
    <3>2. new[(i - 1) + 1] = list[i - 1]
      BY <1>5, <3>1 DEF Between
    <3>3. QED
      BY <1>7, <2>3, <3>1, <3>2
  <2>4. QED
    BY <1>7, <2>1, <2>2, <2>3
<1> HIDE DEF list, L
<1>9. Descends(new)
  <2>1. ASSUME NEW i \in DOMAIN new, NEW j \in DOMAIN new, i < j
        PROVE  new[i].userLv >= new[j].userLv
    <3>1. i \in Int /\ j \in Int /\ p \in Int
      BY <1>7
    <3>2. CASE i = p
      <4>1. j - 1 \in 1..L /\ ~(j - 1 < p) /\ new[j] = list[j - 1]
        BY <1>7, <1>8, <2>1, <3>1, <3>2
      <4>2. list[j - 1].userLv <= m.userLv
        BY <1>5, <4>1
      <4>3. QED
        BY <1>7, <3>2, <4>1, <4>2
    <3>3. CASE j = p
      <4>1. i \in 1..L /\ i < p /\ new[i] = list[i]
        BY <1>7, <1>8, <2>1, <3>1, <3>3
      <4>2. list[i].userLv >= m.userLv
        BY <1>5, <4>1
      <4>3. QED
        BY <1>7, <3>3, <4>1, <4>2
    <3>4. CASE i # p /\ j # p
      <4>1. PICK a \in DOMAIN list : new[i] = list[a] /\ (i < p => a = i) /\ (p < i => a = i - 1)
        BY <1>8, <3>1, <3>4
      <4>2. PICK b \in DOMAIN list : new[j] = list[b] /\ (j < p => b = j) /\ (p < j => b = j - 1)
        BY <1>8, <3>1, <3>4
      <4>3. a < b
        BY <2>1, <3>1, <3>4, <4>1, <4>2
      <4>4. QED
        BY <1>1, <4>1, <4>2, <4>3 DEF Descends
    <3>5. QED
      BY <3>2, <3>3, <3>4
  <2>2. QED
    BY <2>1 DEF Descends
<1>10. ASSUME NEW k \in Levels, NEW i \in DOMAIN r[k]
       PROVE  \/ k = n /\ i = p /\ r[k][i] = m
              \/ \E a \in DOMAIN ls[k] : /\ r[k][i] = ls[k][a]
                                         /\ k # n => a = i
                                         /\ k = n => /\ i # p
                                                     /\ i < p => a = i
                                                     /\ p < i => a = i - 1
  <2>1. CASE k = n
    <3>1. i \in DOMAIN new /\ r[k][i] = new[i] /\ ls[k] = list
      BY <1>6, <2>1 DEF list
    <3>2. i \in Int /\ p \in Int
      BY <1>7, <3>1
    <3>3. QED
      BY <1>8, <2>1, <3>1, <3>2
  <2>2. CASE k # n
    BY <1>6, <2>2
  <2>3. QED
    BY <2>1, <2>2
<1>11. \A k \in Levels : \A a \in DOMAIN ls[k] : ls[k][a].uid # m.uid
  BY <1>1 DEF Held
<1>12. Single(r)
  <2>1. ASSUME NEW k \in Levels, NEW l \in Levels, NEW i \in DOMAIN r[k], NEW j \in DOMAIN r[l],
               r[k][i].uid = r[l][j].uid
        PROVE  k = l /\ i = j
    <3>1. CASE k = n /\ i = p /\ r[k][i] = m
      BY <1>10, <1>11, <2>1, <3>1
    <3>2. CASE l = n /\ j = p /\ r[l][j] = m
      BY <1>10, <1>11, <2>1, <3>2
    <3>3. CASE ~(k = n /\ i = p /\ r[k][i] = m) /\ ~(l = n /\ j = p /\ r[l][j] = m)
      <4>1. PICK a \in DOMAIN ls[k] : /\ r[k][i] = ls[k][a]
                                      /\ k # n => a = i
                                      /\ k = n => /\ i # p
                                                  /\ i < p => a = i
                                                  /\ p < i => a = i - 1
        BY <1>10, <3>3
      <4>2. PICK b \in DOMAIN ls[l] : /\ r[l][j] = ls[l][b]
                                      /\ l # n => b = j
                                      /\ l = n => /\ j # p
                                                  /\ j < p => b = j
                                                  /\ p < j => b = j - 1
        BY <1>10, <3>3
      <4>3. k = l /\ a = b
        BY <2>1, <4>1, <4>2 DEF Sound, Single
      <4>4. CASE k = n
        <5>1. i \in Int /\ j \in Int /\ p \in Int
          BY <1>6, <1>7, <4>3, <4>4
        <5>2. QED
          BY <4>1, <4>2, <4>3, <4>4, <5>1
      <4>5. QED
        BY <4>1, <4>2, <4>3, <4>4
    <3>4. QED
      BY <3>1, <3>2, <3>3
  <2>2. QED
    BY <2>1 DEF Single
<1>13. Sound(r)
  <2>1. ASSUME NEW l \in Levels PROVE Descends(r[l])
    BY <1>6, <1>9 DEF Sound
  <2>2. QED
    BY <1>6, <1>12, <2>1 DEF Sound
<1>14. Held(r) = Held(ls) \cup {m.uid}
  <2>1. ASSUME NEW u \in Held(r) PROVE u \in Held(ls) \cup {m.uid}
    <3>1. PICK k \in Levels : \E i \in DOMAIN r[k] : r[k][i].uid = u
      BY DEF Held
    <3>2. PICK i \in DOMAIN r[k] : r[k][i].uid = u
      BY <3>1
    <3>3. u = m.uid \/ \E a \in DOMAIN ls[k] : ls[k][a].uid = u
      BY <1>10, <3>2
    <3>4. QED
      BY <3>3 DEF Held
  <2>2. ASSUME NEW u \in Held(ls) PROVE u \in Held(r)
    <3>1. PICK k \in Levels : \E a \in DOMAIN ls[k] : ls[k][a].uid = u
      BY DEF Held
    <3>2. PICK a \in DOMAIN ls[k] : ls[k][a].uid = u
      BY <3>1
    <3>3. \E i \in DOMAIN r[k] : r[k][i] = ls[k][a]
      <4>1. CASE k # n
        BY <1>6, <4>1
      <4>2. CASE k = n
        <5>1. a \in 1..L /\ r[k] = new /\ ls[k] = list
          BY <1>6, <1>7, <4>2 DEF list
        <5>2. a \in DOMAIN new /\ a + 1 \in DOMAIN new
          BY <1>7, <5>1
        <5>3. new[a] = list[a] \/ new[a + 1] = list[a]
          BY <1>5, <5>1 DEF Between, L
        <5>4. QED
          BY <5>1, <5>2, <5>3
      <4>3. QED
        BY <4>1, <4>2
    <3>4. QED
      BY <3>2, <3>3 DEF Held
  <2>3. m.uid \in Held(r)
    <3>1. p \in DOMAIN r[n] /\ r[n][p].uid = m.uid
      BY <1>6, <1>7
    <3>2. QED
      BY <1>1, <3>1 DEF Held
  <2>4. QED
    BY <2>1, <2>2, <2>3
<1>15. Cardinality(Held(r)) = Cardinality(Held(ls)) + 1
  BY <1>14, HeldFinite, FS_AddElement
<1>16. r = [ls EXCEPT ![n] = Insert(@, m)]
  BY <1>2, <1>3 DEF list
<1>17. QED
  BY <1>13, <1>14, <1>15, <1>16

\* removeFromMatchList, in every list.
LEMMA Removed ==
    ASSUME NEW ls, Sound(ls), NEW u \in Uids
    PROVE  /\ Sound([l \in Levels |-> Without(ls[l], u)])
           /\ Held([l \in Levels |-> Without(ls[l], u)]) = Held(ls) \ {u}
<1> DEFINE S(l) == {i \in DOMAIN ls[l] : ls[l][i].uid # u}
<1>1. PICK r : r = [l \in Levels |-> Without(ls[l], u)]
  OBVIOUS
<1>2. ASSUME NEW l \in Levels
      PROVE  /\ r[l] = Without(ls[l], u)
             /\ r[l] \in Seq(Node) /\ DOMAIN r[l] \subseteq Int
             /\ Part(r[l], ls[l], S(l))
  <2>1. ls[l] \in Seq(Node) /\ S(l) \in SUBSET DOMAIN ls[l]
    BY DEF Sound, Shape
  <2>2. r[l] = Kept(ls[l], S(l))
    BY <1>1 DEF Without
  <2>3. r[l] \in Seq(Node) /\ Part(r[l], ls[l], S(l))
    <3> HIDE DEF S
    <3>1. QED
      BY <2>1, <2>2, KeptPart
  <2>4. QED
    BY <1>1, <2>3, NodeFacts
<1>3. r \in Shape
  BY <1>1, <1>2 DEF Shape
<1>4. ASSUME NEW l \in Levels, NEW i \in DOMAIN r[l], NEW j \in DOMAIN r[l]
      PROVE  \E a, b \in DOMAIN ls[l] :
                /\ r[l][i] = ls[l][a] /\ r[l][j] = ls[l][b]
                /\ a = b => i = j
                /\ ls[l][a].uid # u
  <2>1. PICK e \in [DOMAIN r[l] -> S(l)] :
           /\ \A x \in DOMAIN r[l] : r[l][x] = ls[l][e[x]]
           /\ \A x, y \in DOMAIN r[l] : x < y => e[x] < e[y]
    BY <1>2 DEF Part
  <2>2. e[i] \in S(l) /\ e[j] \in S(l)
    BY <2>1
  <2>3. e[i] = e[j] => i = j
    <3>1. i \in Int /\ j \in Int /\ e[i] \in Int /\ e[j] \in Int
      <4>1. DOMAIN ls[l] \subseteq Int
        BY NodeFacts DEF Sound, Shape
      <4>2. QED
        BY <1>2, <2>2, <4>1
    <3>2. i < j \/ j < i \/ i = j
      BY <3>1
    <3>3. (i < j => e[i] < e[j]) /\ (j < i => e[j] < e[i])
      BY <2>1
    <3>4. QED
      BY <3>1, <3>2, <3>3
  <2>4. QED
    BY <2>1, <2>2, <2>3
<1>5. Single(r)
  <2>1. ASSUME NEW k \in Levels, NEW l \in Levels, NEW i \in DOMAIN r[k], NEW j \in DOMAIN r[l],
               r[k][i].uid = r[l][j].uid
        PROVE  k = l /\ i = j
    <3>1. k = l
      <4>1. PICK a \in DOMAIN ls[k] : r[k][i] = ls[k][a]
        BY <1>4
      <4>2. PICK b \in DOMAIN ls[l] : r[l][j] = ls[l][b]
        BY <1>4
      <4>3. QED
        BY <2>1, <4>1, <4>2 DEF Sound, Single
    <3>2. PICK a \in DOMAIN ls[k] : \E b \in DOMAIN ls[k] :
             r[k][i] = ls[k][a] /\ r[k][j] = ls[k][b] /\ (a = b => i = j)
      BY <1>4, <3>1
    <3>3. PICK b \in DOMAIN ls[k] :
             r[k][i] = ls[k][a] /\ r[k][j] = ls[k][b] /\ (a = b => i = j)
      BY <3>2
    <3>4. a = b
      BY <2>1, <3>1, <3>3 DEF Sound, Single
    <3>5. QED
      BY <3>1, <3>3, <3>4
  <2>2. QED
    BY <2>1 DEF Single
<1>6. ASSUME NEW l \in Levels PROVE Descends(r[l])
  <2>1. ls[l] \in Seq(Node) /\ S(l) \in SUBSET DOMAIN ls[l] /\ Descends(ls[l])
    BY DEF Sound, Shape
  <2> HIDE DEF S
  <2>2. QED
    BY <1>2, <2>1, PartDescends
<1>7. Held(r) = Held(ls) \ {u}
  <2>1. ASSUME NEW v \in Held(r) PROVE v \in Held(ls) \ {u}
    <3>1. PICK l \in Levels : \E i \in DOMAIN r[l] : r[l][i].uid = v
      BY DEF Held
    <3>2. PICK i \in DOMAIN r[l] : r[l][i].uid = v
      BY <3>1
    <3>3. PICK a \in DOMAIN ls[l] : r[l][i] = ls[l][a] /\ ls[l][a].uid # u
      BY <1>4
    <3>4. QED
      BY <3>2, <3>3 DEF Held
  <2>2. ASSUME NEW v \in Held(ls), v # u PROVE v \in Held(r)
    <3>1. PICK l \in Levels : \E a \in DOMAIN ls[l] : ls[l][a].uid = v
      BY DEF Held
    <3>2. PICK a \in DOMAIN ls[l] : ls[l][a].uid = v
      BY <3>1
    <3>3. a \in S(l)
      BY <2>2, <3>2
    <3>4. PICK e \in [DOMAIN r[l] -> S(l)] :
             /\ \A x \in DOMAIN r[l] : r[l][x] = ls[l][e[x]]
             /\ \A k \in S(l) : \E x \in DOMAIN r[l] : e[x] = k
      BY <1>2 DEF Part
    <3>5. \E x \in DOMAIN r[l] : r[l][x].uid = v
      BY <3>2, <3>3, <3>4
    <3>6. QED
      BY <3>5 DEF Held
  <2>3. QED
    BY <2>1, <2>2
<1>8. Sound(r)
  BY <1>3, <1>5, <1>6 DEF Sound
<1>9. QED
  BY <1>1, <1>7, <1>8

\* Nodes that have the same players of the same levels.
LEMMA SamePlayers ==
    ASSUME NEW ls, Sound(ls), NEW r \in Shape,
           \A l \in Levels :
               /\ DOMAIN r[l] = DOMAIN ls[l]
               /\ \A i \in DOMAIN ls[l] : /\ r[l][i].uid = ls[l][i].uid
                                          /\ r[l][i].userLv = ls[l][i].userLv
    PROVE  Sound(r) /\ Held(r) = Held(ls)
<1>1. Single(r)
  BY DEF Sound, Single
<1>2. \A l \in Levels : Descends(r[l])
  <2>1. ASSUME NEW l \in Levels PROVE Descends(r[l])
    <3>1. Descends(ls[l])
      BY DEF Sound
    <3>2. QED
      BY <3>1 DEF Descends
  <2>2. QED
    BY <2>1
<1>3. Held(r) = Held(ls)
  BY DEF Held
<1>4. QED
  BY <1>1, <1>2, <1>3 DEF Sound
----------------------------------------------------------------------------
(* Pairs *)

\* No two nodes of list, of players in A, are near enough to be paired.
Apart(list, A) ==
    \A i, j \in DOMAIN list :
        i < j /\ list[i].uid \in A /\ list[j].uid \in A => ~Near(list[i], list[j])

\* None of the nodes of list is a player's of A.
NoneOf(list, A) == \A i \in DOMAIN list : list[i].uid \notin A

\* A node passed over because its neighbour is not near has nobody near behind it.
Steady(list) ==
    \A i, j \in DOMAIN list : i < j /\ Near(list[i], list[j]) => Near(list[i], list[i + 1])

WalkFrom(g, list, k) ==
    g = [i \in k..(Len(list) + 2) |->
            IF i >= Len(list) THEN {}
            ELSE IF Near(list[i], list[i + 1]) THEN {i, i + 1} \cup g[i + 2]
            ELSE g[i + 1]]

LEMMA WalkExists ==
    ASSUME NEW list, Len(list) \in Nat
    PROVE  \E g : WalkFrom(g, list, 1) /\ Paired(list) = g[1]
<1> DEFINE L == Len(list)
           Turn(f, i) == IF i >= L THEN {}
                         ELSE IF Near(list[i], list[i + 1]) THEN {i, i + 1} \cup f[i + 2]
                         ELSE f[i + 1]
           T == {N \in 0..(L + 1) : \E g : WalkFrom(g, list, L + 2 - N)}
<1>1. 0 \in T
  <2> DEFINE g == [i \in (L + 2 - 0)..(L + 2) |-> {}]
  <2>1. WalkFrom(g, list, L + 2 - 0)
    <3>1. \A i \in (L + 2 - 0)..(L + 2) : i >= L
      OBVIOUS
    <3>2. QED
      BY <3>1 DEF WalkFrom
  <2> HIDE DEF g
  <2>2. QED
    BY <2>1
<1>2. ASSUME NEW N \in 1..(L + 1), N - 1 \in T PROVE N \in T
  <2>1. PICK k : k = L + 2 - N
    OBVIOUS
  <2>2. k \in 1..(L + 1) /\ L + 2 - (N - 1) = k + 1
    BY <2>1
  <2>3. PICK g : WalkFrom(g, list, k + 1)
    BY <1>2, <2>2
  <2>4. \A i \in (k + 1)..(L + 2) : g[i] = Turn(g, i)
    BY <2>3, Zenon DEF WalkFrom
  <2> DEFINE h == [i \in k..(L + 2) |-> IF i = k THEN Turn(g, k) ELSE g[i]]
  <2>5. \A i \in (k + 1)..(L + 2) : i \in k..(L + 2) /\ h[i] = g[i]
    BY <2>2
  <2>6. ASSUME NEW i \in k..(L + 2) PROVE Turn(h, i) = Turn(g, i)
    <3>1. CASE i >= L
      BY <3>1
    <3>2. CASE ~(i >= L)
      <4>1. i + 1 \in (k + 1)..(L + 2) /\ i + 2 \in (k + 1)..(L + 2)
        BY <2>2, <3>2
      <4>2. h[i + 1] = g[i + 1] /\ h[i + 2] = g[i + 2]
        BY <2>5, <4>1
      <4> HIDE DEF h
      <4>3. QED
        BY <4>2
    <3>3. QED
      BY <3>1, <3>2
  <2>7. ASSUME NEW i \in k..(L + 2) PROVE h[i] = Turn(h, i)
    <3>1. CASE i = k
      <4>1. h[i] = Turn(g, i)
        BY <3>1
      <4> HIDE DEF h, Turn
      <4>2. QED
        BY <2>6, <4>1
    <3>2. CASE i # k
      <4>1. i \in (k + 1)..(L + 2)
        BY <2>2, <3>2
      <4> HIDE DEF h, Turn
      <4>2. QED
        BY <2>4, <2>5, <2>6, <4>1
    <3>3. QED
      BY <3>1, <3>2
  <2>8. h = [i \in k..(L + 2) |-> h[i]]
    OBVIOUS
  <2> HIDE DEF h
  <2>9. h = [i \in k..(L + 2) |-> Turn(h, i)]
    <3> HIDE DEF Turn
    <3>1. QED
      BY <2>7, <2>8
  <2>10. WalkFrom(h, list, k)
    BY <2>9, Zenon DEF WalkFrom
  <2>11. QED
    BY <2>1, <2>10
<1>3. L + 1 \in T
  <2> HIDE DEF T
  <2>1. L + 1 \in Nat
    OBVIOUS
  <2>2. \A N \in 0..(L + 1) : N \in T
    BY <1>1, <1>2, <2>1, UpTo
  <2>3. QED
    BY <2>1, <2>2
<1>4. PICK g0 : WalkFrom(g0, list, L + 2 - (L + 1))
  BY <1>3
<1> DEFINE Is(f) == f = [i \in 1..(L + 2) |-> Turn(f, i)]
           k == CHOOSE f : Is(f)
<1>5. Paired(list) = k[1]
  BY DEF Paired
<1>6. Is(k)
  <2>1. L + 2 - (L + 1) = 1
    OBVIOUS
  <2>2. Is(g0)
    BY <1>4, <2>1 DEF WalkFrom
  <2> HIDE DEF Is
  <2>3. QED
    BY <2>2
<1>7. WalkFrom(k, list, 1)
  BY <1>6 DEF WalkFrom
<1> HIDE DEF k
<1>8. QED
  BY <1>5, <1>7

\* Two nodes that the walk leaves are not near.
LEMMA WalkApart ==
    ASSUME NEW list \in Seq(Node), Steady(list),
           NEW a \in DOMAIN list \ Paired(list), NEW b \in DOMAIN list \ Paired(list), a < b
    PROVE  ~Near(list[a], list[b])
<1> DEFINE L == Len(list)
<1>1. L \in Nat /\ DOMAIN list = 1..L
  OBVIOUS
<1>2. PICK g : WalkFrom(g, list, 1) /\ Paired(list) = g[1]
  BY <1>1, WalkExists
<1>3. \A i \in 1..(L + 2) :
         g[i] = IF i >= L THEN {}
                ELSE IF Near(list[i], list[i + 1]) THEN {i, i + 1} \cup g[i + 2]
                ELSE g[i + 1]
  BY <1>2, Zenon DEF WalkFrom
<1> DEFINE Parted(k) == \A i, j \in k..L : i < j /\ i \notin g[k] /\ j \notin g[k]
                                         => ~Near(list[i], list[j])
           T == {N \in 0..(L + 1) : \A k \in (L + 2 - N)..(L + 2) : Parted(k)}
<1>4. 0 \in T
  <2>1. \A k \in (L + 2 - 0)..(L + 2) : \A i \in k..L : FALSE
    BY <1>1
  <2>2. QED
    BY <1>1, <2>1
<1>5. ASSUME NEW N \in 1..(L + 1), N - 1 \in T PROVE N \in T
  <2>1. PICK k : k = L + 2 - N
    OBVIOUS
  <2>2. k \in 1..(L + 1) /\ L + 2 - (N - 1) = k + 1 /\ k \in 1..(L + 2)
    BY <1>1, <2>1
  <2>3. \A i \in (k + 1)..(L + 2) : Parted(i)
    BY <1>5, <2>2
  <2>4. ASSUME NEW i \in k..L, NEW j \in k..L, i < j, i \notin g[k], j \notin g[k]
        PROVE  ~Near(list[i], list[j])
    <3>1. ~(k >= L) /\ i \in DOMAIN list /\ j \in DOMAIN list
      BY <1>1, <2>2, <2>4
    <3>2. k + 1 \in (k + 1)..(L + 2) /\ k + 2 \in (k + 1)..(L + 2)
      BY <1>1, <2>2, <3>1
    <3>3. CASE Near(list[k], list[k + 1])
      <4>1. g[k] = {k, k + 1} \cup g[k + 2]
        BY <1>3, <2>2, <3>1, <3>3
      <4>2. i \in (k + 2)..L /\ j \in (k + 2)..L /\ i \notin g[k + 2] /\ j \notin g[k + 2]
        BY <1>1, <2>2, <2>4, <4>1
      <4>3. Parted(k + 2)
        BY <2>3, <3>2
      <4>4. QED
        BY <2>4, <4>2, <4>3
    <3>4. CASE ~Near(list[k], list[k + 1])
      <4>1. g[k] = g[k + 1]
        BY <1>3, <2>2, <3>1, <3>4
      <4>2. CASE i = k
        BY <2>4, <3>1, <3>4, <4>2 DEF Steady
      <4>3. CASE i # k
        <5>1. i \in (k + 1)..L /\ j \in (k + 1)..L
          BY <1>1, <2>2, <2>4, <4>3
        <5>2. Parted(k + 1)
          BY <2>3, <3>2
        <5>3. QED
          BY <2>4, <4>1, <5>1, <5>2
      <4>4. QED
        BY <4>2, <4>3
    <3>5. QED
      BY <3>3, <3>4
  <2>5. Parted(k)
    BY <2>4
  <2>6. \A i \in k..(L + 2) : i = k \/ i \in (k + 1)..(L + 2)
    BY <2>2
  <2>7. N \in 0..(L + 1)
    BY <1>1
  <2>8. \A i \in k..(L + 2) : Parted(i)
    <3> HIDE DEF Parted
    <3>1. QED
      BY <2>3, <2>5, <2>6
  <2> HIDE DEF Parted, L
  <2>9. QED
    BY <2>1, <2>7, <2>8
<1>6. Parted(1)
  <2>1. \A N \in 0..(L + 1) : N \in T
    <3>1. L + 1 \in Nat
      BY <1>1
    <3> HIDE DEF T, L
    <3>2. QED
      BY <1>4, <1>5, <3>1, UpTo
  <2>2. L + 1 \in T /\ L + 2 - (L + 1) = 1 /\ 1 \in 1..(L + 2)
    BY <1>1, <2>1
  <2> HIDE DEF Parted
  <2>3. QED
    BY <2>2
<1>7. QED
  BY <1>1, <1>2, <1>6

LEMMA ReverseFacts ==
    ASSUME NEW list \in Seq(Node)
    PROVE  /\ Reverse(list) \in Seq(Node) /\ Len(Reverse(list)) = Len(list)
           /\ DOMAIN Reverse(list) = DOMAIN list
           /\ \A i \in DOMAIN list : Reverse(list)[i] = list[Len(list) + 1 - i]
<1>1. /\ Len(list) \in Nat /\ DOMAIN list = 1..Len(list)
      /\ \A i \in 1..Len(list) : list[i] \in Node
  BY NodeFacts
<1>2. PICK r : r = Reverse(list)
  OBVIOUS
<1>3. r = [i \in 1..Len(list) |-> list[(Len(list) - i) + 1]]
  BY <1>2 DEF Reverse
<1>4. \A i \in 1..Len(list) : (Len(list) - i) + 1 = Len(list) + 1 - i /\ Len(list) + 1 - i \in 1..Len(list)
  BY <1>1
<1>5. r \in [1..Len(list) -> Node] /\ \A i \in 1..Len(list) : r[i] = list[Len(list) + 1 - i]
  BY <1>1, <1>3, <1>4
<1>6. r \in Seq(Node) /\ Len(r) = Len(list)
  BY <1>1, <1>5, IsASeq
<1>7. QED
  BY <1>1, <1>2, <1>5, <1>6

\* The order of the list, from either end, is what makes one walk enough.
LEMMA DescendSteady ==
    ASSUME NEW list \in Seq(Node), Descends(list)
    PROVE  Steady(list) /\ Steady(Reverse(list))
<1> DEFINE L == Len(list)
<1>1. L \in Nat /\ DOMAIN list = 1..L /\ \A i \in 1..L : list[i].userLv \in Nat
  BY NodeFacts
<1>2. ASSUME NEW i \in 1..L, NEW j \in 1..L, i < j, Near(list[i], list[j])
      PROVE  Near(list[i], list[i + 1])
  <2>1. i + 1 \in 1..L /\ (i + 1 < j \/ i + 1 = j)
    BY <1>1, <1>2
  <2>2. list[i].userLv >= list[i + 1].userLv
    BY <1>1, <2>1 DEF Descends
  <2>3. list[i + 1].userLv >= list[j].userLv
    BY <1>1, <2>1 DEF Descends
  <2>4. list[i].userLv \in Nat /\ list[i + 1].userLv \in Nat /\ list[j].userLv \in Nat
    BY <1>1, <2>1
  <2>5. QED
    BY <1>2, <2>2, <2>3, <2>4, SMTT(60) DEF Near
<1>3. PICK r : r = Reverse(list)
  OBVIOUS
<1>4. DOMAIN r = 1..L /\ \A i \in 1..L : r[i] = list[L + 1 - i]
  BY <1>1, <1>3, ReverseFacts
<1>5. ASSUME NEW i \in 1..L, NEW j \in 1..L, i < j, Near(r[i], r[j])
      PROVE  Near(r[i], r[i + 1])
  <2> HIDE DEF L
  <2>1. PICK x, y, z : x = L + 1 - i /\ y = L + 1 - (i + 1) /\ z = L + 1 - j
    OBVIOUS
  <2>2. i + 1 \in 1..L /\ x \in 1..L /\ y \in 1..L /\ z \in 1..L /\ y < x /\ (z < y \/ z = y)
    <3>1. L \in Nat /\ i \in Nat /\ j \in Nat /\ 1 <= i /\ i < j /\ j <= L
      BY <1>1, <1>5
    <3>2. QED
      BY <2>1, <3>1
  <2>3. r[i] = list[x] /\ r[i + 1] = list[y] /\ r[j] = list[z]
    BY <1>4, <2>1, <2>2
  <2>4. list[x].userLv \in Nat /\ list[y].userLv \in Nat /\ list[z].userLv \in Nat
    BY <1>1, <2>2
  <2>5. list[y].userLv >= list[x].userLv /\ (z < y => list[z].userLv >= list[y].userLv)
    BY <1>1, <2>2 DEF Descends
  <2>6. r[i].userLv <= r[i + 1].userLv /\ r[i + 1].userLv <= r[j].userLv
    BY <2>2, <2>3, <2>4, <2>5
  <2>7. r[j].userLv <= r[i].userLv + 3
    BY <1>5 DEF Near
  <2>8. r[i].userLv \in Nat /\ r[i + 1].userLv \in Nat /\ r[j].userLv \in Nat
    BY <2>3, <2>4
  <2>9. QED
    BY <2>6, <2>7, <2>8, SMTT(30) DEF Near
<1>6. QED
  BY <1>1, <1>2, <1>3, <1>4, <1>5 DEF Steady

LEMMA PartApart ==
    ASSUME NEW list, NEW S \in SUBSET DOMAIN list, NEW new, Part(new, list, S), NEW A,
           \A a, b \in S : a < b /\ list[a].uid \in A /\ list[b].uid \in A
                           => ~Near(list[a], list[b])
    PROVE  Apart(new, A)
<1>1. PICK e \in [DOMAIN new -> S] :
         /\ \A i \in DOMAIN new : new[i] = list[e[i]]
         /\ \A i, j \in DOMAIN new : i < j => e[i] < e[j]
  BY DEF Part
<1>2. ASSUME NEW i \in DOMAIN new, NEW j \in DOMAIN new, i < j, new[i].uid \in A, new[j].uid \in A
      PROVE  ~Near(new[i], new[j])
  <2>1. e[i] \in S /\ e[j] \in S /\ e[i] < e[j] /\ new[i] = list[e[i]] /\ new[j] = list[e[j]]
    BY <1>1, <1>2
  <2>2. QED
    BY <1>2, <2>1
<1>3. QED
  BY <1>2 DEF Apart

\* matchUpdateList pairs all that it can.
LEMMA UnpairedApart ==
    ASSUME NEW list \in Seq(Node), Descends(list), NEW fromTail, NEW A
    PROVE  Apart(Unpaired(list, fromTail), A)
<1> DEFINE L == Len(list)
<1>1. L \in Nat /\ DOMAIN list = 1..L /\ \A i \in 1..L : list[i].userLv \in Nat
  BY NodeFacts
<1>2. PICK S : S = DOMAIN list \ PairedInTurn(list, fromTail)
  OBVIOUS
<1>3. S \in SUBSET DOMAIN list /\ Unpaired(list, fromTail) = Kept(list, S)
  BY <1>2 DEF Unpaired
<1>4. Part(Unpaired(list, fromTail), list, S)
  BY <1>3, KeptPart
<1>5. ASSUME NEW a \in S, NEW b \in S, a < b PROVE ~Near(list[a], list[b])
  <2>1. a \in 1..L /\ b \in 1..L
    BY <1>1, <1>3
  <2>2. CASE ~fromTail
    <3>1. PairedInTurn(list, fromTail) = Paired(list)
      BY <2>2 DEF PairedInTurn
    <3>2. a \in DOMAIN list \ Paired(list) /\ b \in DOMAIN list \ Paired(list)
      BY <1>2, <3>1
    <3>3. QED
      BY <1>5, <3>2, DescendSteady, WalkApart
  <2>3. CASE fromTail
    <3>1. PICK r : r = Reverse(list)
      OBVIOUS
    <3>2. /\ r \in Seq(Node) /\ DOMAIN r = 1..L /\ Steady(r)
          /\ \A i \in 1..L : r[i] = list[L + 1 - i]
      BY <1>1, <3>1, ReverseFacts, DescendSteady
    <3>3. PairedInTurn(list, fromTail) = {L + 1 - i : i \in Paired(r)}
      BY <2>3, <3>1 DEF PairedInTurn
    <3>4. PICK x, y : x = L + 1 - b /\ y = L + 1 - a
      OBVIOUS
    <3>5. x \in 1..L /\ y \in 1..L /\ x < y /\ L + 1 - x = b /\ L + 1 - y = a
      BY <1>1, <1>5, <2>1, <3>4
    <3>6. x \notin Paired(r) /\ y \notin Paired(r)
      BY <1>2, <3>3, <3>5
    <3>7. ~Near(r[x], r[y])
      BY <3>2, <3>5, <3>6, WalkApart
    <3>8. r[x] = list[b] /\ r[y] = list[a]
      BY <3>2, <3>5
    <3>9. QED
      BY <1>1, <2>1, <3>7, <3>8 DEF Near
  <2>4. QED
    BY <2>2, <2>3
<1>6. QED
  BY <1>3, <1>4, <1>5, PartApart

\* A node of another player, put into the list, brings none of A near another.
LEMMA InsertApart ==
    ASSUME NEW list \in Seq(Node), Descends(list), NEW m \in Node,
           NEW A, m.uid \notin A, Apart(list, A)
    PROVE  Apart(Insert(list, m), A)
<1> DEFINE L == Len(list)
<1>1. L \in Nat /\ DOMAIN list = 1..L
  BY NodeFacts
<1>2. PICK new : new = Insert(list, m)
  OBVIOUS
<1>3. PICK p \in Nat : Between(new, list, p, m)
  BY <1>2, InsertFacts
<1>4. /\ p \in 1..(L + 1) /\ DOMAIN new = 1..(L + 1) /\ new[p] = m
      /\ \A i \in 1..L : IF i < p THEN new[i] = list[i] ELSE new[i + 1] = list[i]
  BY <1>3 DEF Between
<1>5. ASSUME NEW i \in 1..(L + 1), i # p
      PROVE  \E a \in 1..L : new[i] = list[a] /\ a = IF i < p THEN i ELSE i - 1
  <2>1. CASE i < p
    <3>1. i \in 1..L
      BY <1>1, <1>4, <2>1
    <3>2. QED
      BY <1>4, <2>1, <3>1
  <2>2. CASE ~(i < p)
    <3>1. i - 1 \in 1..L /\ ~(i - 1 < p) /\ (i - 1) + 1 = i
      BY <1>1, <1>4, <1>5, <2>2
    <3>2. new[(i - 1) + 1] = list[i - 1]
      BY <1>4, <3>1
    <3>3. QED
      BY <2>2, <3>1, <3>2
  <2>3. QED
    BY <2>1, <2>2
<1>6. ASSUME NEW i \in 1..(L + 1), NEW j \in 1..(L + 1), i < j,
             new[i].uid \in A, new[j].uid \in A
      PROVE  ~Near(new[i], new[j])
  <2>1. i # p /\ j # p
    BY <1>4, <1>6
  <2>2. PICK a \in 1..L : new[i] = list[a] /\ a = IF i < p THEN i ELSE i - 1
    BY <1>5, <2>1
  <2>3. PICK b \in 1..L : new[j] = list[b] /\ b = IF j < p THEN j ELSE j - 1
    BY <1>5, <2>1
  <2>4. a < b
    BY <1>4, <1>6, <2>1, <2>2, <2>3
  <2>5. QED
    BY <1>1, <1>6, <2>2, <2>3, <2>4 DEF Apart
<1>7. QED
  BY <1>2, <1>4, <1>6 DEF Apart
----------------------------------------------------------------------------
(* A round of a list *)

SunkUpTo(g, ls, n, imp, N) ==
    g = [j \in 0..N |->
            IF j = 0 THEN ls
            ELSE [g[j - 1] EXCEPT
                    ![DownFrom(n, j)] = Insert(@, [imp[j] EXCEPT !.age = 0])]]

LEMMA SunkExists ==
    ASSUME NEW ls, NEW n, NEW imp, Len(imp) \in Nat
    PROVE  \E g : SunkUpTo(g, ls, n, imp, Len(imp)) /\ Sunk(ls, n, imp) = g[Len(imp)]
<1> DEFINE L == Len(imp)
           Down(old, j) == [old EXCEPT
                              ![DownFrom(n, j)] = Insert(@, [imp[j] EXCEPT !.age = 0])]
           T == {N \in 0..L : \E g : SunkUpTo(g, ls, n, imp, N)}
<1>1. 0 \in T
  <2> DEFINE g == [j \in 0..0 |-> ls]
  <2>1. SunkUpTo(g, ls, n, imp, 0)
    BY DEF SunkUpTo
  <2> HIDE DEF g
  <2>2. QED
    BY <2>1
<1>2. ASSUME NEW N \in 1..L, N - 1 \in T PROVE N \in T
  <2>1. PICK g : SunkUpTo(g, ls, n, imp, N - 1)
    BY <1>2
  <2> DEFINE h == [j \in 0..N |-> IF j = N THEN Down(g[N - 1], N) ELSE g[j]]
  <2>2. \A j \in 0..(N - 1) : g[j] = IF j = 0 THEN ls ELSE Down(g[j - 1], j)
    BY <2>1, Zenon DEF SunkUpTo
  <2> HIDE DEF Down
  <2>3. N \in Nat /\ N # 0 /\ \A j \in 0..(N - 1) : j \in 0..N /\ j # N
    OBVIOUS
  <2>4. h[N] = Down(h[N - 1], N)
    <3>1. h[N - 1] = g[N - 1]
      BY <2>3
    <3>2. QED
      BY <2>3, <3>1
  <2>5. ASSUME NEW j \in 0..N, j # N
        PROVE  h[j] = IF j = 0 THEN ls ELSE Down(h[j - 1], j)
    <3>1. j \in 0..(N - 1) /\ h[j] = g[j]
      BY <2>5
    <3>2. j # 0 => h[j - 1] = g[j - 1]
      BY <2>5
    <3> HIDE DEF h
    <3>3. QED
      BY <2>2, <3>1, <3>2
  <2>6. SunkUpTo(h, ls, n, imp, N)
    <3>1. h = [j \in 0..N |-> h[j]]
      OBVIOUS
    <3> HIDE DEF h
    <3>2. \A j \in 0..N : h[j] = IF j = 0 THEN ls ELSE Down(h[j - 1], j)
      BY <2>3, <2>4, <2>5
    <3>3. h = [j \in 0..N |-> IF j = 0 THEN ls ELSE Down(h[j - 1], j)]
      BY <3>1, <3>2
    <3>4. QED
      BY <3>3, Zenon DEF SunkUpTo, Down
  <2> HIDE DEF h
  <2>7. QED
    BY <2>6
<1>3. L \in T
  <2> HIDE DEF T
  <2>1. \A N \in 0..L : N \in T
    BY <1>1, <1>2, UpTo
  <2>2. QED
    BY <2>1
<1>4. PICK g0 : SunkUpTo(g0, ls, n, imp, L)
  BY <1>3
<1> DEFINE Is(f) == f = [j \in 0..L |-> IF j = 0 THEN ls ELSE Down(f[j - 1], j)]
           k == CHOOSE f : Is(f)
<1>5. Sunk(ls, n, imp) = k[L]
  BY DEF Sunk
<1>6. Is(k)
  <2>1. Is(g0)
    BY <1>4 DEF SunkUpTo
  <2> HIDE DEF Is
  <2>2. QED
    BY <2>1
<1>7. SunkUpTo(k, ls, n, imp, L)
  BY <1>6 DEF SunkUpTo
<1> HIDE DEF k
<1>8. QED
  BY <1>5, <1>7

\* The impatient ones have one node each again, and there are as many more; they
\* are in lower lists and disturb nobody else's order there.
LEMMA SunkSound ==
    ASSUME NEW ls, Sound(ls), NEW n \in Levels, NEW imp \in Seq(Node),
           \A i, j \in DOMAIN imp : imp[i].uid = imp[j].uid => i = j,
           \A i \in DOMAIN imp : imp[i].uid \notin Held(ls)
    PROVE  /\ Sound(Sunk(ls, n, imp))
           /\ Held(Sunk(ls, n, imp)) = Held(ls) \cup UidsAt(imp, DOMAIN imp)
           /\ Cardinality(Held(Sunk(ls, n, imp))) = Cardinality(Held(ls)) + Len(imp)
           /\ \A l \in Levels : l >= n /\ l # 1 => Sunk(ls, n, imp)[l] = ls[l]
           /\ \A l \in Levels, A \in SUBSET Uids :
                 NoneOf(imp, A) /\ Apart(ls[l], A) => Apart(Sunk(ls, n, imp)[l], A)
<1> DEFINE L == Len(imp)
<1>1. L \in Nat /\ DOMAIN imp = 1..L /\ \A i \in 1..L : imp[i] \in Node
  BY NodeFacts
<1>2. PICK g : SunkUpTo(g, ls, n, imp, L) /\ Sunk(ls, n, imp) = g[L]
  BY <1>1, SunkExists
<1>3. \A j \in 0..L :
         g[j] = IF j = 0 THEN ls
                ELSE [g[j - 1] EXCEPT
                        ![DownFrom(n, j)] = Insert(@, [imp[j] EXCEPT !.age = 0])]
  BY <1>2, Zenon DEF SunkUpTo
<1> DEFINE Good(j) == /\ Sound(g[j])
                      /\ Held(g[j]) = Held(ls) \cup {imp[i].uid : i \in 1..j}
                      /\ Cardinality(Held(g[j])) = Cardinality(Held(ls)) + j
                      /\ \A l \in Levels : l >= n /\ l # 1 => g[j][l] = ls[l]
                      /\ \A l \in Levels, A \in SUBSET Uids :
                            NoneOf(imp, A) /\ Apart(ls[l], A) => Apart(g[j][l], A)
           T == {j \in 0..L : Good(j)}
<1>4. 0 \in T
  <2>1. g[0] = ls
    <3>1. 0 \in 0..L
      BY <1>1
    <3> HIDE DEF L
    <3>2. QED
      BY <1>3, <3>1, Zenon
  <2>2. Cardinality(Held(ls)) \in Nat
    BY HeldFinite
  <2>3. QED
    BY <1>1, <2>1, <2>2
<1>5. ASSUME NEW j \in 1..L, j - 1 \in T PROVE j \in T
  <2>1. /\ Sound(g[j - 1])
        /\ Held(g[j - 1]) = Held(ls) \cup {imp[i].uid : i \in 1..(j - 1)}
        /\ Cardinality(Held(g[j - 1])) = Cardinality(Held(ls)) + (j - 1)
        /\ \A l \in Levels : l >= n /\ l # 1 => g[j - 1][l] = ls[l]
        /\ \A l \in Levels, A \in SUBSET Uids :
              NoneOf(imp, A) /\ Apart(ls[l], A) => Apart(g[j - 1][l], A)
    BY <1>5
  <2>2. PICK m : m = [imp[j] EXCEPT !.age = 0]
    OBVIOUS
  <2>3. m \in Node /\ m.uid = imp[j].uid
    BY <1>1, <2>2 DEF Node
  <2>4. m.uid \notin Held(g[j - 1])
    <3>1. j \in DOMAIN imp /\ \A i \in 1..(j - 1) : i \in DOMAIN imp /\ i # j
      BY <1>1
    <3>2. \A i \in 1..(j - 1) : imp[i].uid # imp[j].uid
      BY <3>1
    <3>3. imp[j].uid \notin Held(ls)
      BY <3>1
    <3>4. QED
      BY <2>1, <2>3, <3>2, <3>3
  <2>5. PICK d : d = DownFrom(n, j)
    OBVIOUS
  <2>6. d \in Levels
    BY <1>1, <2>5, MatchAssumption DEF DownFrom, Levels
  <2>7. g[j] = [g[j - 1] EXCEPT ![d] = Insert(@, m)]
    <3>1. j \in 0..L /\ j # 0
      BY <1>1
    <3>2. g[j] = [g[j - 1] EXCEPT ![DownFrom(n, j)] = Insert(@, [imp[j] EXCEPT !.age = 0])]
      <4> HIDE DEF L
      <4>1. QED
        BY <1>3, <3>1, Zenon
    <3>3. QED
      BY <2>2, <2>5, <3>2
  <2>8. /\ Sound(g[j])
        /\ Held(g[j]) = Held(g[j - 1]) \cup {m.uid}
        /\ Cardinality(Held(g[j])) = Cardinality(Held(g[j - 1])) + 1
    <3>1. PICK o : o = g[j - 1]
      OBVIOUS
    <3>2. Sound(o) /\ m.uid \notin Held(o)
      BY <2>1, <2>4, <3>1
    <3>3. /\ Sound([o EXCEPT ![d] = Insert(@, m)])
          /\ Held([o EXCEPT ![d] = Insert(@, m)]) = Held(o) \cup {m.uid}
          /\ Cardinality(Held([o EXCEPT ![d] = Insert(@, m)])) = Cardinality(Held(o)) + 1
      BY <2>3, <2>6, <3>2, Put
    <3>4. g[j] = [o EXCEPT ![d] = Insert(@, m)]
      BY <2>7, <3>1
    <3>5. QED
      BY <3>1, <3>3, <3>4
  <2>9. Held(g[j]) = Held(ls) \cup {imp[i].uid : i \in 1..j}
    <3>1. 1..j = 1..(j - 1) \cup {j}
      BY <1>1
    <3>2. QED
      BY <2>1, <2>3, <2>8, <3>1
  <2>10. Cardinality(Held(g[j])) = Cardinality(Held(ls)) + j
    <3>1. Cardinality(Held(ls)) \in Nat /\ j \in Nat
      BY <1>1, HeldFinite
    <3>2. QED
      BY <2>1, <2>8, <3>1
  <2>11. /\ g[j][d] = Insert(g[j - 1][d], m)
         /\ \A l \in Levels : l # d => g[j][l] = g[j - 1][l]
         /\ g[j - 1][d] \in Seq(Node) /\ Descends(g[j - 1][d])
    BY <2>1, <2>6, <2>7 DEF Sound, Shape
  <2>12. ASSUME NEW l \in Levels, l >= n, l # 1 PROVE g[j][l] = ls[l]
    <3>1. l # d
      BY <1>1, <2>5, <2>12, MatchAssumption DEF DownFrom, Levels
    <3>2. QED
      BY <2>1, <2>11, <2>12, <3>1
  <2>13. ASSUME NEW l \in Levels, NEW A \in SUBSET Uids, NoneOf(imp, A), Apart(ls[l], A)
         PROVE  Apart(g[j][l], A)
    <3>1. Apart(g[j - 1][l], A)
      BY <2>1, <2>13
    <3>2. CASE l = d
      <4>1. m.uid \notin A
        BY <1>1, <2>3, <2>13 DEF NoneOf
      <4>2. Apart(Insert(g[j - 1][d], m), A)
        BY <2>3, <2>11, <3>1, <3>2, <4>1, InsertApart
      <4>3. QED
        BY <2>11, <3>2, <4>2
    <3>3. CASE l # d
      BY <2>11, <3>1, <3>3
    <3>4. QED
      BY <3>2, <3>3
  <2>14. Good(j) /\ j \in 0..L
    BY <1>1, <2>8, <2>9, <2>10, <2>12, <2>13
  <2> HIDE DEF Good
  <2>15. QED
    BY <2>14
<1>6. \A j \in 0..L : j \in T
  <2> HIDE DEF T
  <2>1. QED
    BY <1>1, <1>4, <1>5, UpTo
<1>7. Good(L)
  BY <1>1, <1>6
<1>8. QED
  BY <1>1, <1>2, <1>7 DEF UidsAt

\* The manager's fields, while the levels are gone through.
Fields == {"lists", "idle", "reverse", "count"}

Fine(q) ==
    /\ DOMAIN q = Fields
    /\ Sound(q.lists)
    /\ q.count \in Int
    /\ Cardinality(Held(q.lists)) <= q.count

\* What a round of level n, which makes p of q, does to the lists: nothing to the
\* higher ones, and it brings no players together, in list n itself or in
\* another one where they wait, who were apart.
Spares(p, q, n) ==
    /\ \A l \in Levels : l > n => p.lists[l] = q.lists[l]
    /\ \A l \in Levels, A \in SUBSET Uids :
          /\ IF l = n THEN n # 1 ELSE NoneOf(q.lists[n], A)
          /\ Apart(q.lists[l], A)
          => Apart(p.lists[l], A)

\* Taking nodes out of a list and counting them down.
LEMMA FineTaken ==
    ASSUME NEW q, Fine(q), NEW n \in Levels, NEW S \in SUBSET DOMAIN q.lists[n],
           NEW new \in Seq(Node), Part(new, q.lists[n], S)
    PROVE  /\ Sound([q.lists EXCEPT ![n] = new])
           /\ Held([q.lists EXCEPT ![n] = new]) \subseteq Held(q.lists)
           /\ q.count - (Len(q.lists[n]) - Len(new)) \in Int
           /\ Cardinality(Held([q.lists EXCEPT ![n] = new])) <=
                 q.count - (Len(q.lists[n]) - Len(new))
<1>1. PICK ls : ls = q.lists
  OBVIOUS
<1>2. Sound(ls) /\ ls[n] \in Seq(Node) /\ S \in SUBSET DOMAIN ls[n] /\ Part(new, ls[n], S)
  BY <1>1 DEF Fine, Sound, Shape
<1>3. /\ Sound([ls EXCEPT ![n] = new])
      /\ Held([ls EXCEPT ![n] = new]) \subseteq Held(ls)
  BY <1>2, TakenOut
<1>4. /\ Cardinality(Held(ls)) \in Nat
      /\ Cardinality(Held([ls EXCEPT ![n] = new])) =
            Cardinality(Held(ls)) - (Len(ls[n]) - Len(new))
  BY <1>2, TakenSize
<1>5. Len(ls[n]) \in Nat /\ Len(new) \in Nat
  BY <1>2, NodeFacts
<1>6. q.count \in Int /\ Cardinality(Held(ls)) <= q.count
  BY <1>1 DEF Fine
<1>7. QED
  BY <1>1, <1>3, <1>4, <1>5, <1>6

LEMMA PassDownFine ==
    ASSUME NEW q, Fine(q), NEW n \in Levels
    PROVE  /\ Fine(PassDown(q, n)) /\ Held(PassDown(q, n).lists) \subseteq Held(q.lists)
           /\ PassDown(q, n).idle = q.idle /\ Spares(PassDown(q, n), q, n)
<1>1. PICK ls : ls = q.lists
  OBVIOUS
<1>2. PICK list : list = ls[n]
  OBVIOUS
<1>3. Sound(ls) /\ list \in Seq(Node)
  BY <1>1, <1>2 DEF Fine, Sound, Shape
<1>4. /\ Len(list) \in Nat /\ DOMAIN list = 1..Len(list)
      /\ \A i \in 1..Len(list) : list[i].uid \in Uids /\ list[i].age \in Nat
  BY <1>3, NodeFacts
<1>5. PICK overdue : overdue = {i \in DOMAIN list : list[i].age >= Limit}
  OBVIOUS
<1>6. PICK impatient :
         impatient = {i \in DOMAIN list \ overdue : list[i].age >= Patience[Load(q.count)][n]}
  OBVIOUS
<1>7. PICK stay : stay = DOMAIN list \ (overdue \cup impatient)
  OBVIOUS
<1>8. PICK imp : imp = Kept(list, impatient)
  OBVIOUS
<1>9. PICK new : new = Kept(list, stay)
  OBVIOUS
<1>10. /\ overdue \in SUBSET DOMAIN list /\ impatient \in SUBSET DOMAIN list
       /\ stay \in SUBSET DOMAIN list
       /\ overdue \cap impatient = {}
  BY <1>5, <1>6, <1>7
<1>11. imp \in Seq(Node) /\ Part(imp, list, impatient)
  BY <1>3, <1>8, <1>10, KeptPart
<1>12. new \in Seq(Node) /\ Part(new, list, stay)
  BY <1>3, <1>9, <1>10, KeptPart
<1>13. PICK ls1 : ls1 = [ls EXCEPT ![n] = new]
  OBVIOUS
<1>14. /\ Sound(ls1)
       /\ Held(ls1) \subseteq Held(ls)
       /\ \A i \in DOMAIN list \ stay : list[i].uid \notin Held(ls1)
       /\ Cardinality(Held(ls)) \in Nat
       /\ Cardinality(Held(ls1)) = Cardinality(Held(ls)) - (Len(list) - Len(new))
  <2>1. stay \in SUBSET DOMAIN ls[n] /\ Part(new, ls[n], stay)
    BY <1>2, <1>10, <1>12
  <2>2. /\ Sound([ls EXCEPT ![n] = new])
        /\ Held([ls EXCEPT ![n] = new]) \subseteq Held(ls)
        /\ \A i \in DOMAIN ls[n] \ stay : ls[n][i].uid \notin Held([ls EXCEPT ![n] = new])
    BY <1>3, <1>12, <2>1, TakenOut
  <2>3. /\ Cardinality(Held(ls)) \in Nat
        /\ Cardinality(Held([ls EXCEPT ![n] = new])) =
              Cardinality(Held(ls)) - (Len(ls[n]) - Len(new))
    BY <1>3, <1>12, <2>1, TakenSize
  <2>4. QED
    BY <1>2, <1>13, <2>2, <2>3
<1>15. PICK e \in [DOMAIN imp -> impatient] :
          /\ \A i \in DOMAIN imp : imp[i] = list[e[i]]
          /\ \A i, j \in DOMAIN imp : i < j => e[i] < e[j]
  BY <1>11 DEF Part
<1>16. \A i \in DOMAIN imp : imp[i].uid \in Held(ls) /\ imp[i].uid \notin Held(ls1)
  <2>1. ASSUME NEW i \in DOMAIN imp
        PROVE  imp[i].uid \in Held(ls) /\ imp[i].uid \notin Held(ls1)
    <3>1. e[i] \in DOMAIN list \ stay /\ imp[i].uid = list[e[i]].uid
      BY <1>7, <1>10, <1>15
    <3>2. imp[i].uid \in Uids
      BY <1>4, <3>1
    <3>3. imp[i].uid \in Held(ls)
      BY <1>2, <3>1, <3>2 DEF Held
    <3>4. QED
      BY <1>14, <3>1, <3>3
  <2>2. QED
    BY <2>1
<1>17. \A i, j \in DOMAIN imp : imp[i].uid = imp[j].uid => i = j
  <2>1. ASSUME NEW i \in DOMAIN imp, NEW j \in DOMAIN imp, imp[i].uid = imp[j].uid
        PROVE  i = j
    <3>1. e[i] \in DOMAIN list /\ e[j] \in DOMAIN list
      BY <1>10, <1>15
    <3>2. e[i] = e[j]
      BY <1>2, <1>3, <1>15, <2>1, <3>1 DEF Sound, Single
    <3>3. i \in Int /\ j \in Int /\ e[i] \in Int /\ e[j] \in Int
      <4>1. DOMAIN imp \subseteq Int
        BY <1>11, NodeFacts
      <4>2. QED
        BY <1>4, <3>1, <4>1
    <3>4. (i < j => e[i] < e[j]) /\ (j < i => e[j] < e[i])
      BY <1>15
    <3>5. QED
      BY <3>2, <3>3, <3>4
  <2>2. QED
    BY <2>1
<1>18. PICK ls2 : ls2 = Sunk(ls1, n, imp)
  OBVIOUS
<1>19. /\ Sound(ls2)
       /\ Held(ls2) = Held(ls1) \cup UidsAt(imp, DOMAIN imp)
       /\ Cardinality(Held(ls2)) = Cardinality(Held(ls1)) + Len(imp)
       /\ \A l \in Levels : l >= n /\ l # 1 => ls2[l] = ls1[l]
       /\ \A l \in Levels, A \in SUBSET Uids :
             NoneOf(imp, A) /\ Apart(ls1[l], A) => Apart(ls2[l], A)
  BY <1>11, <1>14, <1>16, <1>17, <1>18, SunkSound
<1>20. Held(ls2) \subseteq Held(ls)
  BY <1>14, <1>16, <1>19 DEF UidsAt
<1>21. /\ Cardinality(overdue) \in Nat
       /\ Len(imp) \in Nat /\ Len(new) \in Nat
       /\ Cardinality(overdue) + Len(imp) + Len(new) = Len(list)
  <2>1. IsFiniteSet(DOMAIN list) /\ Cardinality(DOMAIN list) = Len(list)
    BY <1>4, IntervalSize
  <2>2. DOMAIN list \in SUBSET Int
    BY <1>4
  <2>3. IsFiniteSet(impatient) /\ Cardinality(impatient) = Len(imp)
    BY <1>10, <1>11, <2>2, PartSize
  <2>4. IsFiniteSet(stay) /\ Cardinality(stay) = Len(new)
    BY <1>10, <1>12, <2>2, PartSize
  <2>5. IsFiniteSet(overdue) /\ Cardinality(overdue) \in Nat
    BY <1>10, <2>1, FS_Subset, FS_CardinalityType
  <2>6. /\ IsFiniteSet(overdue \cup impatient)
        /\ Cardinality(overdue \cup impatient) = Cardinality(overdue) + Cardinality(impatient)
    <3>1. Cardinality(overdue \cup impatient) =
             Cardinality(overdue) + Cardinality(impatient) - Cardinality(overdue \cap impatient)
      BY <2>3, <2>5, FS_Union
    <3>2. IsFiniteSet(overdue \cup impatient)
      BY <2>3, <2>5, FS_Union
    <3>3. Cardinality(overdue \cap impatient) = 0
      BY <1>10, FS_EmptySet
    <3>4. Cardinality(impatient) \in Nat
      BY <2>3, FS_CardinalityType
    <3>5. QED
      BY <2>5, <3>1, <3>2, <3>3, <3>4
  <2>7. Cardinality(stay) = Cardinality(DOMAIN list) - Cardinality(overdue \cup impatient)
    <3>1. DOMAIN list \cap (overdue \cup impatient) = overdue \cup impatient
      BY <1>10
    <3>2. Cardinality(DOMAIN list \ (overdue \cup impatient)) =
             Cardinality(DOMAIN list) - Cardinality(DOMAIN list \cap (overdue \cup impatient))
      BY <2>1, FS_Difference
    <3>3. QED
      BY <1>7, <3>1, <3>2
  <2>8. Len(imp) \in Nat /\ Len(new) \in Nat
    BY <1>11, <1>12, NodeFacts
  <2>9. QED
    BY <1>4, <2>1, <2>3, <2>4, <2>5, <2>6, <2>7, <2>8
<1>22. PICK p : p = [q EXCEPT !.lists = ls2, !.count = @ - Cardinality(overdue)]
  OBVIOUS
<1>23. /\ DOMAIN p = Fields /\ p.lists = ls2 /\ p.count = q.count - Cardinality(overdue)
  BY <1>22, SMTT(30) DEF Fine, Fields
<1>24. PassDown(q, n) = p
  BY <1>1, <1>2, <1>5, <1>6, <1>7, <1>8, <1>9, <1>13, <1>18, <1>22, ZenonT(30)
  DEF PassDown, Fine, Fields
<1>25. q.count \in Int /\ Cardinality(Held(ls)) <= q.count
  BY <1>1 DEF Fine
<1>26. Cardinality(Held(ls2)) <= p.count /\ p.count \in Int
  BY <1>14, <1>19, <1>21, <1>23, <1>25
<1>27. p.idle = q.idle
  BY <1>22 DEF Fine, Fields
<1>28. ls1[n] = new /\ \A l \in Levels : l # n => ls1[l] = ls[l]
  BY <1>3, <1>13 DEF Sound, Shape
<1>29. ASSUME NEW l \in Levels, l > n PROVE ls2[l] = ls[l]
  <2>1. l # 1 /\ l # n /\ l >= n
    BY <1>29, MatchAssumption DEF Levels
  <2>2. QED
    BY <1>19, <1>28, <2>1
<1>30. ASSUME NEW l \in Levels, NEW A \in SUBSET Uids,
              IF l = n THEN n # 1 ELSE NoneOf(list, A), Apart(ls[l], A)
       PROVE  Apart(ls2[l], A)
  <2>1. CASE l = n
    <3>1. \A a, b \in stay : a < b /\ list[a].uid \in A /\ list[b].uid \in A
                             => ~Near(list[a], list[b])
      BY <1>2, <1>10, <1>30, <2>1 DEF Apart
    <3>2. Apart(new, A)
      BY <1>10, <1>12, <3>1, PartApart
    <3>3. n >= n /\ n # 1
      BY <1>30, <2>1, MatchAssumption DEF Levels
    <3>4. QED
      BY <1>19, <1>28, <2>1, <3>2, <3>3
  <2>2. CASE l # n
    <3>1. NoneOf(imp, A)
      BY <1>10, <1>15, <1>30, <2>2 DEF NoneOf
    <3>2. QED
      BY <1>19, <1>28, <1>30, <2>2, <3>1
  <2>3. QED
    BY <2>1, <2>2
<1>31. Spares(p, q, n)
  BY <1>1, <1>2, <1>23, <1>29, <1>30 DEF Spares
<1>32. QED
  BY <1>1, <1>19, <1>20, <1>23, <1>24, <1>26, <1>27, <1>31 DEF Fine

LEMMA RoundFine ==
    ASSUME NEW q, Fine(q), NEW n \in Levels
    PROVE  /\ Fine(Round(q, n)) /\ Held(Round(q, n).lists) \subseteq Held(q.lists)
           /\ Round(q, n).idle = [q.idle EXCEPT ![n] = 0]
           /\ Spares(Round(q, n), q, n)
           /\ n # 1 => \A A \in SUBSET Uids : Apart(Round(q, n).lists[n], A)
<1>1. PICK list : list = q.lists[n]
  OBVIOUS
<1>2. list \in Seq(Node)
  BY <1>1 DEF Fine, Sound, Shape
<1>3. PICK rest : rest = IF n = 1 THEN <<>> ELSE Unpaired(list, q.reverse[n])
  OBVIOUS
<1>4. rest \in Seq(Node) /\ \E S \in SUBSET DOMAIN list : Part(rest, list, S)
  <2>1. CASE n = 1
    <3>1. rest = <<>> /\ rest \in Seq(Node)
      BY <1>3, <2>1
    <3>2. Part(rest, list, {})
      <4>1. DOMAIN rest = {}
        BY <3>1
      <4>2. PICK e : e = [x \in {} |-> x]
        OBVIOUS
      <4>3. e \in [DOMAIN rest -> {}]
        BY <4>1, <4>2
      <4>4. QED
        BY <4>1, <4>3 DEF Part
    <3>3. QED
      BY <3>1, <3>2
  <2>2. CASE n # 1
    <3>1. PICK S : S = DOMAIN list \ PairedInTurn(list, q.reverse[n])
      OBVIOUS
    <3>2. S \in SUBSET DOMAIN list /\ rest = Kept(list, S)
      BY <1>3, <2>2, <3>1 DEF Unpaired
    <3>3. QED
      BY <1>2, <3>2, KeptPart
  <2>3. QED
    BY <2>1, <2>2
<1>5. PICK S \in SUBSET DOMAIN list : Part(rest, list, S)
  BY <1>4
<1>6. PICK ls : ls = [q.lists EXCEPT ![n] = rest]
  OBVIOUS
<1>7. PICK c : c = q.count - (Len(list) - Len(rest))
  OBVIOUS
<1>8. /\ Sound(ls) /\ Held(ls) \subseteq Held(q.lists) /\ c \in Int
      /\ Cardinality(Held(ls)) <= c
  BY <1>1, <1>4, <1>5, <1>6, <1>7, FineTaken
<1>9. PICK after : after = [q EXCEPT !.lists[n] = rest, !.count = @ - (Len(list) - Len(rest)),
                                     !.idle[n] = 0]
  OBVIOUS
<1>10. /\ DOMAIN after = Fields /\ after.lists = ls /\ after.count = c
       /\ after.idle = [q.idle EXCEPT ![n] = 0]
  BY <1>6, <1>7, <1>9 DEF Fine, Fields
<1>11. Fine(after)
  BY <1>8, <1>10 DEF Fine
<1>12. PICK turned : turned = [after EXCEPT !.reverse[n] = ~@]
  OBVIOUS
<1>13. /\ DOMAIN turned = Fields /\ turned.lists = ls /\ turned.count = c
       /\ turned.idle = after.idle
  BY <1>10, <1>12 DEF Fields
<1>14. Fine(turned)
  BY <1>8, <1>13 DEF Fine
<1>15. /\ Fine(PassDown(turned, n)) /\ Held(PassDown(turned, n).lists) \subseteq Held(ls)
       /\ PassDown(turned, n).idle = turned.idle /\ Spares(PassDown(turned, n), turned, n)
  BY <1>13, <1>14, PassDownFine
<1>16. Round(q, n) = after \/ Round(q, n) = PassDown(turned, n)
  BY <1>1, <1>3, <1>9, <1>12 DEF Round
<1>17. /\ ls[n] = rest /\ \A l \in Levels : l # n => ls[l] = q.lists[l]
  BY <1>6 DEF Fine, Sound, Shape
<1>18. n # 1 => \A A \in SUBSET Uids : Apart(rest, A)
  <2>1. Descends(list)
    BY <1>1 DEF Fine, Sound
  <2>2. QED
    BY <1>2, <1>3, <2>1, UnpairedApart
<1>19. \A A \in SUBSET Uids : NoneOf(list, A) => NoneOf(rest, A)
  <2>1. PICK e \in [DOMAIN rest -> S] : \A i \in DOMAIN rest : rest[i] = list[e[i]]
    BY <1>5 DEF Part
  <2>2. QED
    BY <2>1 DEF NoneOf
<1>20. /\ Spares(after, q, n)
       /\ n # 1 => \A A \in SUBSET Uids : Apart(after.lists[n], A)
  <2>1. \A l \in Levels : l > n => l # n
    BY MatchAssumption DEF Levels
  <2>2. QED
    BY <1>10, <1>17, <1>18, <2>1 DEF Spares
<1>21. PICK p : p = PassDown(turned, n)
  OBVIOUS
<1>22. /\ Spares(p, q, n)
       /\ n # 1 => \A A \in SUBSET Uids : Apart(p.lists[n], A)
  <2>1. \A l \in Levels : l > n => l # n
    BY MatchAssumption DEF Levels
  <2>2. Spares(p, turned, n)
    BY <1>15, <1>21
  <2>3. \A l \in Levels : l > n => p.lists[l] = q.lists[l]
    BY <1>13, <1>17, <2>1, <2>2 DEF Spares
  <2>4. n # 1 => \A A \in SUBSET Uids : Apart(p.lists[n], A)
    BY <1>13, <1>17, <1>18, <2>2 DEF Spares
  <2>5. ASSUME NEW l \in Levels, NEW A \in SUBSET Uids, l # n,
               NoneOf(q.lists[n], A), Apart(q.lists[l], A)
        PROVE  Apart(p.lists[l], A)
    <3>1. NoneOf(turned.lists[n], A) /\ Apart(turned.lists[l], A)
      BY <1>1, <1>13, <1>17, <1>19, <2>5
    <3>2. QED
      BY <2>2, <2>5, <3>1 DEF Spares
  <2>6. QED
    BY <2>3, <2>4, <2>5 DEF Spares
<1>23. QED
  BY <1>8, <1>10, <1>11, <1>13, <1>15, <1>16, <1>20, <1>21, <1>22
----------------------------------------------------------------------------
(* The inductive invariant *)

IInv ==
    /\ Sound(lists)
    /\ robots \subseteq Uids
    /\ robots \cap Held(lists) = {}
    /\ count \in Int
    /\ Cardinality(Held(lists)) <= count

LEMMA HeldWaiting ==
    /\ Held(lists) = {u \in Uids : Waiting(u)}
    /\ \A u \in Uids : u \in Held(lists) <=> Waiting(u)
BY DEF Held, Waiting, WaitingAt

LEMMA NobodyHeld ==
    Sound([l \in Levels |-> <<>>]) /\ Held([l \in Levels |-> <<>>]) = {}
<1>1. PICK r : r = [l \in Levels |-> <<>>]
  OBVIOUS
<1>2. r \in Shape /\ \A l \in Levels : DOMAIN r[l] = {}
  <2>1. <<>> \in Seq(Node) /\ DOMAIN <<>> = {}
    OBVIOUS
  <2>2. QED
    BY <1>1, <2>1 DEF Shape
<1>3. Sound(r) /\ Held(r) = {}
  BY <1>2 DEF Sound, Single, Descends, Held
<1>4. QED
  BY <1>1, <1>3

LEMMA InitInv == Init => IInv
<1>1. ASSUME Init PROVE IInv
  <2>1. Sound(lists) /\ Held(lists) = {} /\ robots = {} /\ count = 0
    BY <1>1, NobodyHeld DEF Init
  <2>2. Cardinality(Held(lists)) = 0
    BY <2>1, FS_EmptySet
  <2>3. QED
    BY <2>1, <2>2 DEF IInv
<1>2. QED
  BY <1>1

LEMMA RequestInv ==
    ASSUME IInv, NEW u \in Uids, NEW lv \in PlayerLvs, NEW points \in Integrals,
           Request(u, lv, points)
    PROVE  IInv'
<1>1. u \notin Held(lists) /\ u \notin robots
  BY HeldWaiting DEF Request, Exists
<1>2. PICK n : n = Dan[points]
  OBVIOUS
<1>3. PICK m : m = [uid |-> u, userLv |-> lv, integral |-> points, age |-> 0]
  OBVIOUS
<1>4. n \in Levels /\ m \in Node /\ m.uid = u
  <2>1. n \in Levels
    BY <1>2, MatchAssumption
  <2>2. QED
    BY <1>3, <2>1 DEF Node
<1>5. CASE robots' = robots \cup {u} /\ UNCHANGED <<lists, count>>
  BY <1>1, <1>5 DEF IInv, Sound
<1>6. CASE lists' = [lists EXCEPT ![n] = Insert(@, m)] /\ count' = count + 1 /\ UNCHANGED robots
  <2>1. Sound(lists) /\ m.uid \notin Held(lists)
    BY <1>1, <1>4 DEF IInv
  <2>2. /\ Sound([lists EXCEPT ![n] = Insert(@, m)])
        /\ Held([lists EXCEPT ![n] = Insert(@, m)]) = Held(lists) \cup {m.uid}
        /\ Cardinality(Held([lists EXCEPT ![n] = Insert(@, m)])) = Cardinality(Held(lists)) + 1
    BY <1>4, <2>1, Put
  <2>3. /\ Sound(lists')
        /\ Held(lists') = Held(lists) \cup {u}
        /\ Cardinality(Held(lists')) = Cardinality(Held(lists)) + 1
    BY <1>4, <1>6, <2>2
  <2>4. Cardinality(Held(lists)) \in Nat
    BY HeldFinite
  <2>5. robots' = robots /\ count' = count + 1
    BY <1>6
  <2>6. count' \in Int /\ Cardinality(Held(lists')) <= count'
    BY <2>3, <2>4, <2>5 DEF IInv
  <2>7. robots' \subseteq Uids /\ robots' \cap Held(lists') = {}
    BY <1>1, <2>3, <2>5 DEF IInv
  <2>8. QED
    BY <2>3, <2>6, <2>7 DEF IInv
<1>7. QED
  BY <1>2, <1>3, <1>5, <1>6 DEF Request

LEMMA CancelInv ==
    ASSUME IInv, NEW u \in Uids, Cancel(u)
    PROVE  IInv'
<1>1. /\ lists' = [l \in Levels |-> Without(lists[l], u)]
      /\ robots' = robots \ {u} /\ count' = Left(u)
  BY DEF Cancel
<1>2. /\ Sound(lists') /\ Held(lists') = Held(lists) \ {u}
  <2>1. Sound(lists)
    BY DEF IInv
  <2>2. /\ Sound([l \in Levels |-> Without(lists[l], u)])
        /\ Held([l \in Levels |-> Without(lists[l], u)]) = Held(lists) \ {u}
    BY <2>1, Removed
  <2>3. QED
    BY <1>1, <2>2
<1>3. IsFiniteSet(Held(lists)) /\ Cardinality(Held(lists)) \in Nat
  BY HeldFinite
<1>4. Cardinality(Held(lists) \ {u}) =
         IF u \in Held(lists) THEN Cardinality(Held(lists)) - 1 ELSE Cardinality(Held(lists))
  BY <1>3, FS_RemoveElement
<1>5. count' = IF u \in Held(lists) THEN count - 1 ELSE count
  BY <1>1, HeldWaiting DEF Left
<1>6. count' \in Int /\ Cardinality(Held(lists')) <= count'
  BY <1>2, <1>3, <1>4, <1>5 DEF IInv
<1>7. robots' \subseteq Uids /\ robots' \cap Held(lists') = {}
  BY <1>1, <1>2 DEF IInv
<1>8. QED
  BY <1>2, <1>6, <1>7 DEF IInv

LEMMA ClearInv ==
    ASSUME IInv, Clear
    PROVE  IInv'
<1>1. lists' = [l \in Levels |-> <<>>] /\ robots' = {} /\ count' = count
  BY DEF Clear
<1>2. Sound(lists') /\ Held(lists') = {}
  BY <1>1, NobodyHeld
<1>3. Cardinality(Held(lists')) = 0
  BY <1>2, FS_EmptySet
<1>4. Cardinality(Held(lists)) \in Nat
  BY HeldFinite
<1>5. count' \in Int /\ 0 <= count'
  BY <1>1, <1>4 DEF IInv
<1>6. QED
  BY <1>1, <1>2, <1>3, <1>5 DEF IInv

\* The levels gone through in ascending order.
UpdatedUpTo(g, q, N) ==
    g = [l \in 0..N |-> IF l = 0 THEN q ELSE UpdateLevel(g[l - 1], l)]

LEMMA UpdatedExists ==
    ASSUME NEW q
    PROVE  \E g : UpdatedUpTo(g, q, Top)
<1> DEFINE T == {N \in 0..Top : \E g : UpdatedUpTo(g, q, N)}
<1>1. Top \in Nat
  BY MatchAssumption
<1>2. 0 \in T
  <2> DEFINE g == [l \in 0..0 |-> q]
  <2>1. UpdatedUpTo(g, q, 0)
    BY DEF UpdatedUpTo
  <2> HIDE DEF g
  <2>2. QED
    BY <1>1, <2>1
<1>3. ASSUME NEW N \in 1..Top, N - 1 \in T PROVE N \in T
  <2>1. PICK g : UpdatedUpTo(g, q, N - 1)
    BY <1>3
  <2> DEFINE h == [l \in 0..N |-> IF l = N THEN UpdateLevel(g[N - 1], N) ELSE g[l]]
  <2>2. \A l \in 0..(N - 1) : g[l] = IF l = 0 THEN q ELSE UpdateLevel(g[l - 1], l)
    BY <2>1, Zenon DEF UpdatedUpTo
  <2>3. N \in Nat /\ N # 0 /\ \A l \in 0..(N - 1) : l \in 0..N /\ l # N
    BY <1>1
  <2>4. h[N] = UpdateLevel(h[N - 1], N)
    <3>1. h[N - 1] = g[N - 1]
      BY <2>3
    <3>2. QED
      BY <2>3, <3>1
  <2>5. ASSUME NEW l \in 0..N, l # N
        PROVE  h[l] = IF l = 0 THEN q ELSE UpdateLevel(h[l - 1], l)
    <3>1. l \in 0..(N - 1) /\ h[l] = g[l]
      BY <2>3, <2>5
    <3>2. l # 0 => h[l - 1] = g[l - 1]
      BY <2>3, <2>5
    <3> HIDE DEF h
    <3>3. QED
      BY <2>2, <3>1, <3>2
  <2>6. UpdatedUpTo(h, q, N)
    <3>1. h = [l \in 0..N |-> h[l]]
      OBVIOUS
    <3> HIDE DEF h
    <3>2. \A l \in 0..N : h[l] = IF l = 0 THEN q ELSE UpdateLevel(h[l - 1], l)
      BY <2>3, <2>4, <2>5
    <3>3. QED
      BY <3>1, <3>2 DEF UpdatedUpTo
  <2> HIDE DEF h
  <2>7. QED
    BY <2>6
<1>4. Top \in T
  <2> HIDE DEF T
  <2>1. \A N \in 0..Top : N \in T
    BY <1>1, <1>2, <1>3, UpTo
  <2>2. QED
    BY <1>1, <2>1
<1>5. QED
  BY <1>4

\* What onTimer has counted before the rounds.
Aged ==
    [l \in Levels |->
        [i \in DOMAIN lists[l] |-> [lists[l][i] EXCEPT !.age = Min({@ + 1, Limit})]]]

Counted ==
    [lists |-> Aged, idle |-> [l \in Levels |-> Min({idle[l] + 1, LongestInterval})],
     reverse |-> reverse, count |-> count]

LEMMA TickUpdates ==
    ASSUME Tick
    PROVE  \E g : /\ UpdatedUpTo(g, Counted, Top)
                  /\ lists' = g[Top].lists /\ idle' = g[Top].idle
                  /\ reverse' = g[Top].reverse /\ count' = g[Top].count
<1> DEFINE q == [lists |-> [l \in Levels |->
                    [i \in DOMAIN lists[l] |-> [lists[l][i] EXCEPT !.age = Min({@ + 1, Limit})]]],
                 idle |-> [l \in Levels |-> Min({idle[l] + 1, LongestInterval})],
                 reverse |-> reverse, count |-> count]
           Is(f) == f = [l \in 0..Top |-> IF l = 0 THEN q ELSE UpdateLevel(f[l - 1], l)]
           k == CHOOSE f : Is(f)
<1>1. q = Counted
  BY DEF Counted, Aged
<1>2. /\ lists' = k[Top].lists /\ idle' = k[Top].idle
      /\ reverse' = k[Top].reverse /\ count' = k[Top].count
  BY DEF Tick
<1> HIDE DEF q
<1>3. Is(k)
  <2>1. PICK g0 : UpdatedUpTo(g0, q, Top)
    BY UpdatedExists
  <2>2. Is(g0)
    BY <2>1 DEF UpdatedUpTo
  <2> HIDE DEF Is
  <2>3. QED
    BY <2>2
<1>4. UpdatedUpTo(k, q, Top)
  BY <1>3 DEF UpdatedUpTo
<1> HIDE DEF k
<1>5. QED
  BY <1>1, <1>2, <1>4

LEMMA AgedFacts ==
    ASSUME Sound(lists)
    PROVE  Sound(Aged) /\ Held(Aged) = Held(lists)
<1>1. ASSUME NEW a \in Nat PROVE Min({a + 1, Limit}) \in Nat
  <2>1. Limit \in Nat
    BY MatchAssumption
  <2>2. PICK S : S = {a + 1, Limit}
    OBVIOUS
  <2>3. S \in SUBSET Nat /\ S # {}
    BY <2>1, <2>2
  <2>4. \E n \in S : \A k \in S : n <= k
    BY <2>3, Least
  <2>5. Min(S) \in S
    BY <2>4 DEF Min
  <2>6. QED
    BY <2>2, <2>3, <2>5
<1>2. ASSUME NEW l \in Levels
      PROVE  /\ DOMAIN Aged[l] = DOMAIN lists[l]
             /\ \A i \in DOMAIN lists[l] : /\ Aged[l][i] \in Node
                                           /\ Aged[l][i].uid = lists[l][i].uid
                                           /\ Aged[l][i].userLv = lists[l][i].userLv
             /\ Aged[l] \in Seq(Node)
  <2>1. lists[l] \in Seq(Node)
    BY DEF Sound, Shape
  <2>2. PICK s : s = lists[l]
    OBVIOUS
  <2>3. PICK r : r = Aged[l]
    OBVIOUS
  <2>4. r = [i \in DOMAIN s |-> [s[i] EXCEPT !.age = Min({@ + 1, Limit})]]
    BY <2>2, <2>3 DEF Aged
  <2>5. Len(s) \in Nat /\ DOMAIN s = 1..Len(s) /\ \A i \in 1..Len(s) : s[i] \in Node /\ s[i].age \in Nat
    BY <2>1, <2>2, NodeFacts
  <2>6. ASSUME NEW i \in DOMAIN s
        PROVE  r[i] \in Node /\ r[i].uid = s[i].uid /\ r[i].userLv = s[i].userLv
    <3>1. PICK x : x = s[i]
      OBVIOUS
    <3>2. PICK y : y = Min({x.age + 1, Limit})
      OBVIOUS
    <3>3. x \in Node /\ y \in Nat
      BY <1>1, <2>5, <3>1, <3>2
    <3>4. r[i] = [x EXCEPT !.age = y]
      BY <2>4, <3>1, <3>2
    <3>5. QED
      BY <3>1, <3>3, <3>4 DEF Node
  <2>7. r \in Seq(Node)
    <3>1. r \in [1..Len(s) -> Node]
      BY <2>4, <2>5, <2>6
    <3>2. QED
      BY <2>5, <3>1, IsASeq
  <2>8. QED
    BY <2>2, <2>3, <2>4, <2>6, <2>7
<1>3. Aged \in Shape
  BY <1>2 DEF Aged, Shape
<1>4. QED
  BY <1>2, <1>3, SamePlayers

LEMMA TickInv ==
    ASSUME IInv, Tick
    PROVE  IInv'
<1>1. PICK g : /\ UpdatedUpTo(g, Counted, Top)
               /\ lists' = g[Top].lists /\ idle' = g[Top].idle
               /\ reverse' = g[Top].reverse /\ count' = g[Top].count
  BY TickUpdates
<1>2. Top \in Nat
  BY MatchAssumption
<1>3. \A l \in 0..Top : g[l] = IF l = 0 THEN Counted ELSE UpdateLevel(g[l - 1], l)
  BY <1>1, Zenon DEF UpdatedUpTo
<1>4. Fine(Counted)
  <2>1. Sound(Aged) /\ Held(Aged) = Held(lists)
    BY AgedFacts DEF IInv
  <2>2. DOMAIN Counted = Fields /\ Counted.lists = Aged /\ Counted.count = count
    BY DEF Counted, Fields
  <2>3. QED
    BY <2>1, <2>2 DEF Fine, IInv
<1> DEFINE T == {l \in 0..Top : Fine(g[l])}
<1>5. 0 \in T
  <2>1. 0 \in 0..Top
    BY <1>2
  <2>2. g[0] = Counted
    BY <1>3, <2>1, Zenon
  <2>3. QED
    BY <1>4, <2>1, <2>2
<1>6. ASSUME NEW l \in 1..Top, l - 1 \in T PROVE l \in T
  <2>1. l \in 0..Top /\ l # 0 /\ l \in Levels
    BY <1>2 DEF Levels
  <2>2. g[l] = UpdateLevel(g[l - 1], l)
    BY <1>3, <2>1, Zenon
  <2>3. PICK q : q = g[l - 1]
    OBVIOUS
  <2>4. Fine(q)
    BY <1>6, <2>3
  <2>5. Fine(Round(q, l))
    BY <2>1, <2>4, RoundFine
  <2>6. g[l] = q \/ g[l] = Round(q, l)
    BY <2>2, <2>3 DEF UpdateLevel
  <2>7. Fine(g[l])
    BY <2>4, <2>5, <2>6
  <2>8. QED
    BY <2>1, <2>7
<1>7. \A l \in 0..Top : l \in T
  <2> HIDE DEF T
  <2>1. QED
    BY <1>2, <1>5, <1>6, UpTo
<1>8. Fine(g[Top])
  BY <1>2, <1>7
<1>9. /\ Sound(lists') /\ count' \in Int /\ Cardinality(Held(lists')) <= count'
  BY <1>1, <1>8 DEF Fine
<1>10. robots' = {}
  BY DEF Tick
<1>11. QED
  BY <1>9, <1>10 DEF IInv

LEMMA NextInv == IInv /\ [Next]_vars => IInv'
<1>1. SUFFICES ASSUME IInv, [Next]_vars PROVE IInv'
  OBVIOUS
<1>2. CASE \E u \in Uids, lv \in PlayerLvs, points \in Integrals : Request(u, lv, points)
  BY <1>1, <1>2, RequestInv
<1>3. CASE \E u \in Uids : Cancel(u)
  BY <1>1, <1>3, CancelInv
<1>4. CASE Tick
  BY <1>1, <1>4, TickInv
<1>5. CASE Clear
  BY <1>1, <1>5, ClearInv
<1>6. CASE UNCHANGED vars
  BY <1>1, <1>6 DEF vars, IInv
<1>7. QED
  BY <1>1, <1>2, <1>3, <1>4, <1>5, <1>6 DEF Next

LEMMA SpecInv == Spec => []IInv
BY InitInv, NextInv, PTL DEF Spec
----------------------------------------------------------------------------
(* The clocks of the levels *)

LEMMA LongestIsLongest ==
    /\ LongestInterval \in Nat
    /\ \A load \in Loads, l \in Levels : Interval[load][l] <= LongestInterval
<1> DEFINE S == {Interval[load][l] : load \in Loads, l \in Levels}
           Over(b, n) == \A load \in Loads : \A l \in 1..n : Interval[load][l] <= b
           T == {n \in 0..Top : \E b \in Nat : Over(b, n)}
           U == {b \in Nat : \A x \in S : x <= b}
<1>1. Top \in Nat /\ 1 \in Levels /\ Levels = 1..Top
  BY MatchAssumption DEF Levels
<1>2. \A load \in Loads, l \in Levels : Interval[load][l] \in Nat
  <2>1. ASSUME NEW load \in Loads, NEW l \in Levels PROVE Interval[load][l] \in Nat
    <3>1. Interval[load] \in [Levels -> Nat \ {0, 1}]
      BY MatchAssumption
    <3>2. QED
      BY <3>1
  <2>2. QED
    BY <2>1
<1>3. 0 \in T
  BY <1>1
<1>4. ASSUME NEW n \in 1..Top, n - 1 \in T PROVE n \in T
  <2>1. PICK b \in Nat : Over(b, n - 1)
    BY <1>4
  <2>2. PICK x, y, z : x = Interval["low"][n] /\ y = Interval["mid"][n] /\ z = Interval["high"][n]
    OBVIOUS
  <2>3. x \in Nat /\ y \in Nat /\ z \in Nat
    BY <1>1, <1>2, <2>2 DEF Loads
  <2>4. Over(b + x + y + z, n)
    <3>1. ASSUME NEW load \in Loads, NEW l \in 1..n
          PROVE  Interval[load][l] <= b + x + y + z
      <4>1. CASE l = n
        <5>1. Interval[load][l] = x \/ Interval[load][l] = y \/ Interval[load][l] = z
          BY <2>2, <4>1 DEF Loads
        <5>2. QED
          BY <2>3, <5>1
      <4>2. CASE l # n
        <5>1. l \in 1..(n - 1) /\ l \in Levels
          BY <1>1, <4>2
        <5>2. Interval[load][l] <= b /\ Interval[load][l] \in Nat
          BY <1>2, <2>1, <5>1
        <5>3. QED
          BY <2>3, <5>2
      <4>3. QED
        BY <4>1, <4>2
    <3>2. QED
      BY <3>1
  <2>5. b + x + y + z \in Nat /\ n \in 0..Top
    BY <1>1, <2>3
  <2> HIDE DEF Over
  <2>6. QED
    BY <2>4, <2>5
<1>5. \E b \in Nat : Over(b, Top)
  <2>1. Top \in T
    <3> HIDE DEF T
    <3>1. \A n \in 0..Top : n \in T
      BY <1>1, <1>3, <1>4, UpTo
    <3>2. QED
      BY <1>1, <3>1
  <2>2. QED
    BY <2>1
<1>6. S \in SUBSET Nat /\ S # {}
  <2>1. \A x \in S : x \in Nat
    BY <1>2
  <2>2. "low" \in Loads
    BY DEF Loads
  <2>3. Interval["low"][1] \in S
    BY <1>1, <2>2
  <2> HIDE DEF S
  <2>4. QED
    BY <2>1, <2>3
<1>7. U \in SUBSET Nat /\ U # {}
  <2>1. PICK b \in Nat : Over(b, Top)
    BY <1>5
  <2>2. \A x \in S : x <= b
    BY <1>1, <2>1
  <2> HIDE DEF S
  <2>3. QED
    BY <2>2
<1>8. PICK b \in U : \A c \in U : b <= c
  <2> HIDE DEF U
  <2>1. QED
    BY <1>7, Least
<1>9. b \in S
  <2>1. SUFFICES ASSUME b \notin S PROVE FALSE
    OBVIOUS
  <2>2. \A x \in S : x \in Nat /\ x <= b /\ x # b
    BY <1>6, <1>8, <2>1
  <2>3. b \in Nat
    BY <1>8
  <2>4. \E x \in S : TRUE
    <3> HIDE DEF S
    <3>1. QED
      BY <1>6
  <2>5. b - 1 \in Nat /\ \A y \in S : y <= b - 1
    <3> HIDE DEF S
    <3>1. QED
      BY <2>2, <2>3, <2>4
  <2>6. b - 1 \in U
    BY <2>5
  <2>7. QED
    BY <1>8, <2>3, <2>6
<1>10. \E x \in S : \A y \in S : x >= y
  BY <1>6, <1>8, <1>9
<1>11. Max(S) \in S /\ \A y \in S : Max(S) >= y
  <2> HIDE DEF S
  <2>1. QED
    BY <1>10 DEF Max
<1>12. LongestInterval = Max(S)
  BY DEF LongestInterval
<1>13. LongestInterval \in Nat
  <2> HIDE DEF S
  <2>1. QED
    BY <1>6, <1>11, <1>12
<1>14. ASSUME NEW load \in Loads, NEW l \in Levels
       PROVE  Interval[load][l] <= LongestInterval
  <2>1. Interval[load][l] \in S
    OBVIOUS
  <2> HIDE DEF S
  <2>2. Max(S) >= Interval[load][l]
    BY <1>11, <2>1
  <2>3. QED
    BY <1>2, <1>12, <1>13, <2>2
<1>15. QED
  BY <1>13, <1>14

\* No clock runs past the longest interval.
Clocked == idle \in [Levels -> 0..LongestInterval]

LEMMA CountedClocks ==
    ASSUME Clocked
    PROVE  /\ Counted.idle \in [Levels -> 0..LongestInterval]
           /\ \A l \in Levels : Counted.idle[l] >= idle[l]
<1>1. LongestInterval \in Nat
  BY LongestIsLongest
<1>2. ASSUME NEW l \in Levels
      PROVE  /\ Min({idle[l] + 1, LongestInterval}) \in 0..LongestInterval
             /\ Min({idle[l] + 1, LongestInterval}) >= idle[l]
  <2>1. idle[l] \in Nat /\ idle[l] <= LongestInterval
    BY <1>1 DEF Clocked
  <2>2. PICK S : S = {idle[l] + 1, LongestInterval}
    OBVIOUS
  <2>3. \E x \in S : \A y \in S : x <= y
    BY <1>1, <2>1, <2>2
  <2>4. Min(S) \in S /\ \A y \in S : Min(S) <= y
    BY <2>3 DEF Min
  <2>5. QED
    BY <1>1, <2>1, <2>2, <2>4
<1>3. Counted.idle = [l \in Levels |-> Min({idle[l] + 1, LongestInterval})]
  BY DEF Counted
<1>4. QED
  BY <1>2, <1>3

\* The timer's walk through the levels: a level whose clock has been put back has
\* had its round, and of the players A who waited there no two who are near stay.
LEMMA TickApart ==
    ASSUME IInv, Clocked, Tick
    PROVE  /\ Clocked'
           /\ \A l \in Levels \ {1} : idle'[l] < idle[l] =>
                 Apart(lists'[l], UidsAt(lists[l], DOMAIN lists[l]))
<1>1. PICK g : /\ UpdatedUpTo(g, Counted, Top)
               /\ lists' = g[Top].lists /\ idle' = g[Top].idle
  BY TickUpdates
<1>2. Top \in Nat /\ Levels = 1..Top
  BY MatchAssumption DEF Levels
<1>3. /\ g[0] = Counted
      /\ \A k \in 1..Top : g[k] = UpdateLevel(g[k - 1], k)
  <2>1. \A k \in 0..Top : g[k] = IF k = 0 THEN Counted ELSE UpdateLevel(g[k - 1], k)
    BY <1>1, Zenon DEF UpdatedUpTo
  <2>2. 0 \in 0..Top /\ \A k \in 1..Top : k \in 0..Top /\ k # 0
    BY <1>2
  <2>3. QED
    BY <2>1, <2>2
<1>4. Fine(Counted) /\ Counted.lists = Aged
  <2>1. Sound(Aged) /\ Held(Aged) = Held(lists)
    BY AgedFacts DEF IInv
  <2>2. DOMAIN Counted = Fields /\ Counted.lists = Aged /\ Counted.count = count
    BY DEF Counted, Fields
  <2>3. QED
    BY <2>1, <2>2 DEF Fine, IInv
<1>5. Sound(lists) /\ \A k \in Levels : lists[k] \in Seq(Node)
  BY DEF IInv, Sound, Shape
<1>6. \A k \in Levels : /\ DOMAIN Aged[k] = DOMAIN lists[k]
                        /\ \A i \in DOMAIN lists[k] : Aged[k][i].uid = lists[k][i].uid
  <2>1. ASSUME NEW k \in Levels, NEW i \in DOMAIN lists[k]
        PROVE  [lists[k][i] EXCEPT !.age = Min({@ + 1, Limit})].uid = lists[k][i].uid
    <3>1. lists[k][i] \in Node
      BY <1>5, <2>1, NodeFacts
    <3>2. QED
      BY <3>1 DEF Node
  <2>2. QED
    BY <2>1 DEF Aged
<1> DEFINE At(l) == UidsAt(lists[l], DOMAIN lists[l])
           Walked(k) == /\ Fine(g[k])
                        /\ g[k].idle \in [Levels -> 0..LongestInterval]
                        /\ \A l \in Levels : l > k => g[k].lists[l] = Aged[l]
                        /\ \A l \in Levels \ {1} : \/ g[k].idle[l] = Counted.idle[l]
                                                   \/ l <= k /\ Apart(g[k].lists[l], At(l))
           T == {k \in 0..Top : Walked(k)}
<1>7. 0 \in T
  BY <1>2, <1>3, <1>4, CountedClocks
<1>8. ASSUME NEW k \in 1..Top, k - 1 \in T PROVE k \in T
  <2>1. PICK q : q = g[k - 1]
    OBVIOUS
  <2>2. /\ Fine(q)
        /\ q.idle \in [Levels -> 0..LongestInterval]
        /\ \A l \in Levels : l > k - 1 => q.lists[l] = Aged[l]
        /\ \A l \in Levels \ {1} : \/ q.idle[l] = Counted.idle[l]
                                   \/ l <= k - 1 /\ Apart(q.lists[l], At(l))
    BY <1>8, <2>1
  <2>3. k \in Levels /\ k \in 0..Top /\ k > k - 1 /\ \A l \in Levels : l \in Int
    BY <1>2
  <2>4. g[k] = q \/ g[k] = Round(q, k)
    BY <1>3, <2>1 DEF UpdateLevel
  <2>5. CASE g[k] = q
    <3>1. \A l \in Levels : (l > k => l > k - 1) /\ (l <= k - 1 => l <= k)
      BY <2>3
    <3> HIDE DEF At
    <3>2. Walked(k)
      BY <2>2, <2>5, <3>1
    <3>3. QED
      BY <2>3, <3>2
  <2>6. CASE g[k] = Round(q, k)
    <3>1. PICK p : p = Round(q, k)
      OBVIOUS
    <3>2. /\ Fine(p) /\ p.idle = [q.idle EXCEPT ![k] = 0]
          /\ Spares(p, q, k)
          /\ k # 1 => \A A \in SUBSET Uids : Apart(p.lists[k], A)
      BY <2>2, <2>3, <3>1, RoundFine
    <3>3. p.idle \in [Levels -> 0..LongestInterval]
      <4>1. 0 \in 0..LongestInterval
        BY LongestIsLongest
      <4>2. QED
        BY <2>2, <3>2, <4>1
    <3>4. \A l \in Levels : l > k => p.lists[l] = Aged[l]
      <4>1. \A l \in Levels : l > k => l > k - 1
        BY <2>3
      <4>2. QED
        BY <2>2, <3>2, <4>1 DEF Spares
    <3>5. \A l \in Levels : At(l) \in SUBSET Uids
      <4>1. ASSUME NEW l \in Levels, NEW i \in DOMAIN lists[l] PROVE lists[l][i].uid \in Uids
        BY <1>5, <4>1, NodeFacts
      <4>2. QED
        BY <4>1 DEF UidsAt
    <3>6. \A l \in Levels : l # k => NoneOf(q.lists[k], At(l))
      <4>1. q.lists[k] = Aged[k]
        BY <2>2, <2>3
      <4>2. ASSUME NEW l \in Levels, l # k, NEW i \in DOMAIN lists[k], NEW j \in DOMAIN lists[l]
            PROVE  lists[k][i].uid # lists[l][j].uid
        BY <1>5, <2>3, <4>2 DEF Sound, Single
      <4>3. QED
        BY <1>6, <2>3, <4>1, <4>2 DEF NoneOf, UidsAt
    <3> HIDE DEF At
    <3>7. ASSUME NEW l \in Levels \ {1}
          PROVE  \/ p.idle[l] = Counted.idle[l]
                 \/ l <= k /\ Apart(p.lists[l], At(l))
      <4>1. CASE l = k
        BY <2>3, <3>2, <3>5, <3>7, <4>1
      <4>2. CASE l # k
        <5>1. p.idle[l] = q.idle[l]
          BY <2>2, <3>2, <4>2
        <5>2. Apart(q.lists[l], At(l)) => Apart(p.lists[l], At(l))
          BY <3>2, <3>5, <3>6, <4>2 DEF Spares
        <5>3. l <= k - 1 => l <= k
          BY <2>3
        <5>4. QED
          BY <2>2, <5>1, <5>2, <5>3
      <4>3. QED
        BY <4>1, <4>2
    <3>8. Walked(k)
      BY <2>6, <3>1, <3>2, <3>3, <3>4, <3>7
    <3>9. QED
      BY <2>3, <3>8
  <2>7. QED
    BY <2>4, <2>5, <2>6
<1>9. Walked(Top)
  <2>1. \A k \in 0..Top : k \in T
    <3> HIDE DEF T
    <3>1. QED
      BY <1>2, <1>7, <1>8, UpTo
  <2> HIDE DEF Walked
  <2>2. QED
    BY <1>2, <2>1
<1>10. Clocked'
  BY <1>1, <1>9 DEF Clocked
<1>11. ASSUME NEW l \in Levels \ {1}, idle'[l] < idle[l]
       PROVE  Apart(lists'[l], At(l))
  <2>1. Counted.idle[l] >= idle[l] /\ Counted.idle[l] \in Int /\ idle[l] \in Int
    BY CountedClocks, LongestIsLongest DEF Clocked
  <2>2. idle'[l] # Counted.idle[l]
    BY <1>11, <2>1
  <2> HIDE DEF At
  <2>3. QED
    BY <1>1, <1>9, <2>2
<1>12. QED
  BY <1>10, <1>11

LEMMA ClockInv ==
    ASSUME IInv, Clocked, [Next]_vars
    PROVE  Clocked'
<1>1. CASE Tick
  BY <1>1, TickApart
<1>2. CASE UNCHANGED idle
  BY <1>2 DEF Clocked
<1>3. QED
  BY <1>1, <1>2 DEF Next, Request, Cancel, Clear, vars
----------------------------------------------------------------------------
(* What the invariant says *)

\* isExsit: a player waits in one list, at one place, or for a robot, whatever
\* he asks and cancels and however he is passed down.
THEOREM TicketsSingle == Spec => []OneTicket
<1>1. IInv => OneTicket
  <2>1. SUFFICES ASSUME IInv, NEW u \in Uids
                 PROVE  LET places == {p \in Levels \X (1..Cardinality(Uids)) :
                                /\ p[2] <= Len(lists[p[1]])
                                /\ lists[p[1]][p[2]].uid = u}
                        IN  Cardinality(places) + (IF u \in robots THEN 1 ELSE 0) <= 1
    BY DEF OneTicket
  <2> DEFINE places == {p \in Levels \X (1..Cardinality(Uids)) :
                           p[2] <= Len(lists[p[1]]) /\ lists[p[1]][p[2]].uid = u}
  <2>2. ASSUME NEW p \in places
        PROVE  /\ p[1] \in Levels /\ p[2] \in DOMAIN lists[p[1]] /\ lists[p[1]][p[2]].uid = u
               /\ p = <<p[1], p[2]>>
    <3>1. p[1] \in Levels /\ p[2] \in 1..Cardinality(Uids) /\ p = <<p[1], p[2]>>
      OBVIOUS
    <3>2. lists[p[1]] \in Seq(Node)
      BY <2>1, <3>1 DEF IInv, Sound, Shape
    <3>3. Len(lists[p[1]]) \in Nat /\ DOMAIN lists[p[1]] = 1..Len(lists[p[1]])
      BY <3>2, NodeFacts
    <3>4. p[2] \in Nat /\ p[2] >= 1
      BY <3>1
    <3>5. QED
      BY <3>1, <3>3, <3>4
  <2>3. \A p, r \in places : p = r
    <3>1. ASSUME NEW p \in places, NEW r \in places PROVE p = r
      <4>1. /\ p[1] \in Levels /\ p[2] \in DOMAIN lists[p[1]] /\ lists[p[1]][p[2]].uid = u
            /\ p = <<p[1], p[2]>>
        BY <2>2
      <4>2. /\ r[1] \in Levels /\ r[2] \in DOMAIN lists[r[1]] /\ lists[r[1]][r[2]].uid = u
            /\ r = <<r[1], r[2]>>
        BY <2>2
      <4>3. p[1] = r[1] /\ p[2] = r[2]
        BY <2>1, <4>1, <4>2 DEF IInv, Sound, Single
      <4>4. QED
        BY <4>1, <4>2, <4>3
    <3>2. QED
      BY <3>1
  <2>4. u \in robots => places = {}
    <3>1. u \in Held(lists) => u \notin robots
      BY <2>1 DEF IInv
    <3>2. \A p \in places : u \in Held(lists)
      BY <2>2 DEF Held
    <3>3. QED
      BY <3>1, <3>2
  <2> HIDE DEF places
  <2>5. CASE places = {}
    <3>1. Cardinality(places) = 0
      BY <2>5, FS_EmptySet
    <3>2. Cardinality(places) + (IF u \in robots THEN 1 ELSE 0) <= 1
      BY <3>1
    <3>3. QED
      BY <3>2 DEF places
  <2>6. CASE places # {}
    <3>1. PICK p : places = {p}
      BY <2>3, <2>6
    <3>2. Cardinality(places) = 1
      BY <3>1, FS_Singleton
    <3>3. Cardinality(places) + (IF u \in robots THEN 1 ELSE 0) <= 1
      BY <2>4, <2>6, <3>2
    <3>4. QED
      BY <3>3 DEF places
  <2>7. QED
    BY <2>5, <2>6
<1>2. QED
  BY <1>1, SpecInv, PTL

\* NewMatchManager.h:32: every list stays in descending order of player level.
THEOREM ListsDescend == Spec => []LevelsDescend
<1>1. IInv => LevelsDescend
  BY DEF IInv, Sound, Descends, LevelsDescend
<1>2. QED
  BY <1>1, SpecInv, PTL

\* m_nMatcherCount, which selects the load, never falls below the number of
\* players in the lists: no way out of a list counts a player twice.
THEOREM CountIsEnough == Spec => []CountCovers
<1>1. IInv => CountCovers
  BY HeldWaiting DEF IInv, CountCovers, Waiters
<1>2. QED
  BY <1>1, SpecInv, PTL

\* matchUpdateList: after a round of a list, no two players who waited in it and
\* still do are near enough to have been paired, walked from either end.
THEOREM PairsTaken == Spec => NoPairLeft
<1>1. Init => Clocked
  BY LongestIsLongest DEF Init, Clocked
<1>2. IInv /\ Clocked /\ [Next]_vars => Clocked'
  BY ClockInv
<1> DEFINE Step == \A l \in Levels \ {1} : idle'[l] < idle[l] =>
                      \A i, j \in DOMAIN lists'[l] :
                         i < j /\ WaitingAt(lists'[l][i].uid, l) /\ WaitingAt(lists'[l][j].uid, l)
                            => ~Near(lists'[l][i], lists'[l][j])
<1>3. IInv /\ Clocked /\ [Next]_vars => [Step]_vars
  <2>1. SUFFICES ASSUME IInv, Clocked, [Next]_vars,
                        NEW l \in Levels \ {1}, idle'[l] < idle[l],
                        NEW i \in DOMAIN lists'[l], NEW j \in DOMAIN lists'[l], i < j,
                        WaitingAt(lists'[l][i].uid, l), WaitingAt(lists'[l][j].uid, l)
                 PROVE  ~Near(lists'[l][i], lists'[l][j])
    OBVIOUS
  <2>2. Tick
    <3>1. idle'[l] # idle[l]
      BY <2>1, LongestIsLongest DEF Clocked
    <3>2. QED
      BY <2>1, <3>1 DEF Next, Request, Cancel, Clear, vars
  <2>3. Apart(lists'[l], UidsAt(lists[l], DOMAIN lists[l]))
    BY <2>1, <2>2, TickApart
  <2>4. /\ lists'[l][i].uid \in UidsAt(lists[l], DOMAIN lists[l])
        /\ lists'[l][j].uid \in UidsAt(lists[l], DOMAIN lists[l])
    BY <2>1 DEF WaitingAt, UidsAt
  <2>5. QED
    BY <2>1, <2>3, <2>4 DEF Apart
<1>4. QED
  BY <1>1, <1>2, <1>3, SpecInv, PTL DEF Spec, NoPairLeft
=============================================================================
