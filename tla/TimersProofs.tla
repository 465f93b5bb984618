---------------------------- MODULE TimersProofs ----------------------------
(***************************************************************************)
(* What holds of Timers for any number of timers, any delays and whatever  *)
(* the callbacks do.                                                       *)
(*                                                                         *)
(* The invariant is one of a state of the manager, so that it can be       *)
(* followed through the operations a callback makes in the middle of a     *)
(* walk: Sound says how the lists are built, Right that a timer is owed    *)
(* what it is still registered for.  A list of the delay k is in order     *)
(* because everything in it has at most k to go, and k is what a timer has *)
(* to go when it is put at the end.                                        *)
(***************************************************************************)
EXTENDS Timers, FiniteSetTheorems, SequenceTheorems, WellFoundedInduction, TLAPS

Shape == [list : [Keys -> Seq(Objects)], left : [Objects -> Int],
          delay : [Objects -> Int], repeat : [Objects -> Nat \cup {Forever}],
          owed : [Objects -> Int]]

Once(s) ==
    \A j, k \in Keys : \A i \in DOMAIN s.list[j], m \in DOMAIN s.list[k] :
        s.list[j][i] = s.list[k][m] => j = k /\ i = m

Ordered(s) ==
    \A k \in Keys : \A i, m \in DOMAIN s.list[k] :
        i < m => s.left[s.list[k][i]] <= s.left[s.list[k][m]]

\* Who is in the list of the delay k has that delay and no more than it to go;
\* who is in the other list does not repeat; nothing in a list of K is due.
FitsIn(s, K, k, t) ==
    /\ k # Agile => s.delay[t] = k /\ s.left[t] <= k
    /\ k = Agile => s.repeat[t] = 0
    /\ k \in K => s.left[t] >= 0
Fits(s, K) == \A k \in Keys : \A i \in DOMAIN s.list[k] : FitsIn(s, K, k, s.list[k][i])

Sound(s, K) == s \in Shape /\ Once(s) /\ Ordered(s) /\ Fits(s, K)

\* The calls a timer is still to have
Right(s, t) ==
    s.owed[t] = IF ~Registered(s, t) THEN 0
                ELSE IF s.repeat[t] = Forever THEN Forever ELSE s.repeat[t] + 1

\* The lists the walk has passed; all of them, between two walks
Passed == {k \in Keys : at = None \/ k < at}

IInv ==
    /\ at \in Keys \cup {None}
    /\ Sound(State, Passed)
    /\ \A t \in Objects : Right(State, t)

----------------------------------------------------------------------------
(* Least and greatest numbers *)

\* Well-foundedness of the order on numbers, from that of set inclusion.
LEMMA Least ==
    ASSUME NEW T \in SUBSET Nat, T # {}
    PROVE  \E n \in T : \A m \in T : n <= m
<1> DEFINE R == StrictSubsetOrdering(Nat)
           F == {0 .. n : n \in T}
<1>1. F \subseteq FiniteSubsetsOf(Nat) /\ F # {}
  <2>1. \A n \in Nat : 0 .. n \in FiniteSubsetsOf(Nat)
    BY FS_Interval DEF FiniteSubsetsOf
  <2>2. QED
    BY <2>1
<1>2. \E X \in F : \A Y \in F : ~ (<<Y, X>> \in R)
  <2>1. IsWellFoundedOn(R, FiniteSubsetsOf(Nat))
    BY FS_StrictSubsetOrderingWellFounded
  <2> HIDE DEF F, R
  <2>2. QED
    BY <1>1, <2>1, WFMin
<1>3. PICK n \in T : \A Y \in F : ~ (<<Y, 0 .. n>> \in R)
  BY <1>2
<1>4. ASSUME NEW m \in T, m < n PROVE FALSE
  <2>1. n \in 0 .. n /\ n \notin 0 .. m
    BY <1>4
  <2>2. 0 .. m \subseteq 0 .. n /\ 0 .. m # 0 .. n
    BY <1>4, <2>1
  <2>3. <<0 .. m, 0 .. n>> \in R
    BY <2>2 DEF StrictSubsetOrdering
  <2>4. QED
    BY <1>3, <2>3
<1>5. QED
  BY <1>4

\* A finite set of numbers has a greatest member: the least of its upper parts
\* is a single number.
LEMMA Greatest ==
    ASSUME NEW T \in SUBSET Nat, T # {}, IsFiniteSet(T)
    PROVE  \E n \in T : \A m \in T : m <= n
<1> DEFINE R == StrictSubsetOrdering(Nat)
           Up(n) == {m \in T : m >= n}
           F == {Up(n) : n \in T}
<1>1. F \subseteq FiniteSubsetsOf(Nat) /\ F # {}
  <2>1. \A n \in Nat : Up(n) \in FiniteSubsetsOf(Nat)
    BY FS_Subset DEF FiniteSubsetsOf
  <2>2. QED
    BY <2>1
<1>2. \E X \in F : \A Y \in F : ~ (<<Y, X>> \in R)
  <2>1. IsWellFoundedOn(R, FiniteSubsetsOf(Nat))
    BY FS_StrictSubsetOrderingWellFounded
  <2> HIDE DEF F, R
  <2>2. QED
    BY <1>1, <2>1, WFMin
<1>3. PICK n \in T : \A Y \in F : ~ (<<Y, Up(n)>> \in R)
  BY <1>2
<1>4. ASSUME NEW m \in T, n < m PROVE FALSE
  <2>1. n \in Up(n) /\ n \notin Up(m)
    BY <1>4
  <2>2. Up(m) \subseteq Up(n) /\ Up(m) # Up(n)
    <3>1. \A j \in Nat : j >= m => j >= n
      BY <1>4
    <3>2. QED
      BY <2>1, <3>1
  <2>3. <<Up(m), Up(n)>> \in R
    BY <2>2 DEF StrictSubsetOrdering
  <2>4. QED
    BY <1>3, <2>3
<1>5. QED
  BY <1>4

\* The list of points of time comes after all delays.
LEMMA AgileLast ==
    /\ Keys \subseteq Nat /\ Agile \in Keys /\ Agile \notin Delays
    /\ \A d \in Delays : d < Agile
<1>1. \E d \in Delays \cup {0} : \A e \in Delays \cup {0} : e <= d
  <2>1. IsFiniteSet(Delays \cup {0}) /\ Delays \cup {0} \in SUBSET Nat
    BY TimersAssumption, FS_AddElement
  <2>2. QED
    BY <2>1, Greatest
<1>2. Longest \in Delays \cup {0} /\ \A e \in Delays : e <= Longest
  BY <1>1 DEF Longest
<1>3. Agile \in Nat /\ \A d \in Delays : d < Agile
  BY <1>2, TimersAssumption DEF Agile
<1>4. QED
  BY <1>3, TimersAssumption DEF Keys

\* The walk starts at the first list, and goes on to the next one.
LEMMA FirstFacts ==
    First \in Keys /\ \A j \in Keys : First <= j
<1>1. \E k \in Keys : \A j \in Keys : k <= j
  BY AgileLast, Least
<1>2. QED
  BY <1>1 DEF First

LEMMA FollowingFacts ==
    ASSUME NEW k \in Keys, k # Agile
    PROVE  Following(k) \in Keys /\ \A j \in Keys : j < Following(k) => j <= k
<1> DEFINE T == {j \in Keys : j > k}
<1>1. Agile > k
  BY AgileLast DEF Keys
<1>2. T \in SUBSET Nat /\ T # {}
  BY <1>1, AgileLast
<1>3. \E j \in Keys : j > k /\ \A i \in Keys : i > k => j <= i
  BY <1>2, Least
<1>4. PICK f : f = Following(k)
  OBVIOUS
<1>5. f \in Keys /\ f > k /\ \A i \in Keys : i > k => f <= i
  BY <1>3, <1>4 DEF Following
<1>6. \A j \in Keys : j < f => j <= k
  BY <1>5, AgileLast
<1>7. QED
  BY <1>4, <1>5, <1>6
----------------------------------------------------------------------------
(* Lists *)

\* w is l with some of its entries left out.
Thin(w, l) ==
    \E e \in [DOMAIN w -> DOMAIN l] :
        /\ \A i \in DOMAIN w : w[i] = l[e[i]]
        /\ \A i, m \in DOMAIN w : i < m => e[i] < e[m]

LEMMA ThinItself ==
    ASSUME NEW l \in Seq(Objects)
    PROVE  Thin(l, l)
<1> DEFINE e == [i \in DOMAIN l |-> i]
<1>1. /\ e \in [DOMAIN l -> DOMAIN l]
      /\ \A i \in DOMAIN l : l[i] = l[e[i]]
      /\ \A i, m \in DOMAIN l : i < m => e[i] < e[m]
  OBVIOUS
<1>2. QED
  BY <1>1 DEF Thin

\* RemoveAt closes the gap.
LEMMA RemoveAtFacts ==
    ASSUME NEW l \in Seq(Objects), NEW i \in 1..Len(l)
    PROVE  /\ RemoveAt(l, i) \in Seq(Objects)
           /\ Len(RemoveAt(l, i)) = Len(l) - 1
           /\ \A m \in 1..(Len(l) - 1) :
                 RemoveAt(l, i)[m] = IF m < i THEN l[m] ELSE l[m + 1]
<1> DEFINE a == SubSeq(l, 1, i - 1)
           b == SubSeq(l, i + 1, Len(l))
<1>1. /\ a \in Seq(Objects) /\ Len(a) = i - 1
      /\ \A m \in 1..(i - 1) : a[m] = l[m]
  BY SubSeqProperties
<1>2. /\ b \in Seq(Objects) /\ Len(b) = Len(l) - i
      /\ \A m \in 1..(Len(l) - i) : b[m] = l[i + m]
  BY SubSeqProperties
<1> HIDE DEF a, b
<1>3. /\ a \o b \in Seq(Objects) /\ Len(a \o b) = Len(l) - 1
      /\ \A m \in 1..(Len(l) - 1) : (a \o b)[m] = IF m < i THEN l[m] ELSE l[m + 1]
  <2>1. a \o b \in Seq(Objects) /\ Len(a \o b) = Len(a) + Len(b)
    BY <1>1, <1>2, ConcatProperties
  <2>2. \A m \in 1..(Len(a) + Len(b)) :
            (a \o b)[m] = IF m <= Len(a) THEN a[m] ELSE b[m - Len(a)]
    BY <1>1, <1>2, ConcatProperties
  <2>3. ASSUME NEW m \in 1..(Len(l) - 1)
        PROVE  (a \o b)[m] = IF m < i THEN l[m] ELSE l[m + 1]
    <3>1. CASE m < i
      <4>1. m <= i - 1 /\ m \in 1..(i - 1) /\ m \in 1..(Len(a) + Len(b))
        BY <1>1, <1>2, <3>1
      <4>2. QED
        BY <1>1, <2>2, <3>1, <4>1
    <3>2. CASE ~(m < i)
      <4>1. m - (i - 1) \in 1..(Len(l) - i) /\ ~(m <= i - 1) /\ m \in 1..(Len(a) + Len(b))
        BY <1>1, <1>2, <3>2
      <4>2. b[m - (i - 1)] = l[i + (m - (i - 1))] /\ i + (m - (i - 1)) = m + 1
        BY <1>2, <4>1
      <4>3. QED
        BY <1>1, <2>2, <3>2, <4>1, <4>2
    <3>3. QED
      BY <3>1, <3>2
  <2>4. QED
    BY <1>1, <1>2, <2>1, <2>3
<1>4. QED
  BY <1>3 DEF RemoveAt, a, b

\* InsertAt makes room.
LEMMA InsertAtFacts ==
    ASSUME NEW l \in Seq(Objects), NEW i \in 1..(Len(l) + 1), NEW t \in Objects
    PROVE  /\ InsertAt(l, i, t) \in Seq(Objects)
           /\ Len(InsertAt(l, i, t)) = Len(l) + 1
           /\ \A m \in 1..(Len(l) + 1) :
                 InsertAt(l, i, t)[m] = IF m < i THEN l[m] ELSE IF m = i THEN t ELSE l[m - 1]
<1> DEFINE a == SubSeq(l, 1, i - 1)
           b == SubSeq(l, i, Len(l))
           c == a \o <<t>>
<1>1. /\ a \in Seq(Objects) /\ Len(a) = i - 1
      /\ \A m \in 1..(i - 1) : a[m] = l[m]
  BY SubSeqProperties
<1>2. /\ b \in Seq(Objects) /\ Len(b) = Len(l) - i + 1
      /\ \A m \in 1..(Len(l) - i + 1) : b[m] = l[i + m - 1]
  BY SubSeqProperties
<1> HIDE DEF a, b
<1>3. /\ c \in Seq(Objects) /\ Len(c) = i
      /\ \A m \in 1..i : c[m] = IF m < i THEN l[m] ELSE t
  BY <1>1, ConcatProperties
<1> HIDE DEF c
<1>4. /\ c \o b \in Seq(Objects) /\ Len(c \o b) = Len(l) + 1
      /\ \A m \in 1..(Len(l) + 1) : (c \o b)[m] = IF m <= i THEN c[m] ELSE b[m - i]
  BY <1>2, <1>3, ConcatProperties
<1>5. ASSUME NEW m \in 1..(Len(l) + 1)
      PROVE  (c \o b)[m] = IF m < i THEN l[m] ELSE IF m = i THEN t ELSE l[m - 1]
  <2>1. CASE m <= i
    <3>1. m \in 1..i /\ (c \o b)[m] = c[m]
      BY <1>4, <2>1
    <3>2. QED
      BY <1>3, <3>1
  <2>2. CASE ~(m <= i)
    <3>1. m - i \in 1..(Len(l) - i + 1) /\ i + (m - i) - 1 = m - 1
      BY <2>2
    <3>2. b[m - i] = l[m - 1]
      BY <1>2, <3>1
    <3>3. QED
      BY <1>4, <2>2, <3>2
  <2>3. QED
    BY <2>1, <2>2
<1>6. QED
  BY <1>4, <1>5 DEF InsertAt, a, b, c

Has(l, t) == \E i \in DOMAIN l : l[i] = t
NoTwice(l) == \A i, m \in DOMAIN l : l[i] = l[m] => i = m

\* What remove leaves: everything else, in the order it was in.
LEMMA UnlinkedFacts ==
    ASSUME NEW l \in Seq(Objects), NEW t \in Objects
    PROVE  /\ Unlinked(l, t) \in Seq(Objects)
           /\ Thin(Unlinked(l, t), l)
           /\ ~Has(l, t) => Unlinked(l, t) = l
           /\ NoTwice(l) => \A u : Has(Unlinked(l, t), u) <=> u # t /\ Has(l, u)
<1>1. CASE ~Has(l, t)
  <2>1. Unlinked(l, t) = l
    BY <1>1 DEF Has, Unlinked
  <2>2. \A u : Has(l, u) => u # t
    BY <1>1
  <2>3. QED
    BY <1>1, <2>1, <2>2, ThinItself
<1>2. CASE Has(l, t)
  <2>1. PICK i : i = CHOOSE j \in DOMAIN l : l[j] = t
    OBVIOUS
  <2>2. i \in DOMAIN l /\ l[i] = t
    BY <1>2, <2>1 DEF Has
  <2>3. PICK w : w = Unlinked(l, t)
    OBVIOUS
  <2>4. w = RemoveAt(l, i)
    BY <1>2, <2>1, <2>3 DEF Has, Unlinked
  <2>5. /\ i \in 1..Len(l) /\ Len(l) \in Nat
        /\ w \in Seq(Objects) /\ Len(w) = Len(l) - 1
        /\ \A m \in 1..(Len(l) - 1) : w[m] = IF m < i THEN l[m] ELSE l[m + 1]
    <3>1. i \in 1..Len(l) /\ Len(l) \in Nat
      BY <2>2
    <3>2. QED
      BY <2>4, <3>1, RemoveAtFacts
  <2>6. DOMAIN w = 1..(Len(l) - 1) /\ DOMAIN l = 1..Len(l)
    BY <2>5
  <2>7. Thin(w, l)
    <3> DEFINE e == [m \in DOMAIN w |-> IF m < i THEN m ELSE m + 1]
    <3>1. e \in [DOMAIN w -> DOMAIN l]
      BY <2>5, <2>6
    <3>2. \A m \in DOMAIN w : w[m] = l[e[m]]
      BY <2>5, <2>6
    <3>3. \A j, m \in DOMAIN w : j < m => e[j] < e[m]
      BY <2>5, <2>6
    <3>4. QED
      BY <3>1, <3>2, <3>3 DEF Thin
  <2>8. ASSUME NoTwice(l), NEW u PROVE Has(w, u) <=> u # t /\ Has(l, u)
    <3>1. ASSUME NEW m \in DOMAIN w, w[m] = u PROVE u # t /\ Has(l, u)
      <4>1. \E j \in DOMAIN l : j # i /\ l[j] = u
        BY <2>5, <2>6, <3>1, SMTT(60)
      <4>2. QED
        BY <2>2, <2>8, <4>1 DEF Has, NoTwice
    <3>2. ASSUME NEW m \in DOMAIN l, l[m] = u, u # t PROVE Has(w, u)
      <4>1. m # i
        BY <2>2, <3>2
      <4>2. CASE m < i
        <5>1. m \in DOMAIN w /\ w[m] = u
          BY <2>5, <2>6, <3>2, <4>2
        <5>2. QED
          BY <5>1 DEF Has
      <4>3. CASE m > i
        <5>1. m - 1 \in DOMAIN w /\ ~(m - 1 < i) /\ (m - 1) + 1 = m
          BY <2>5, <2>6, <4>3
        <5>2. w[m - 1] = u
          BY <2>5, <2>6, <3>2, <5>1
        <5>3. QED
          BY <5>1, <5>2 DEF Has
      <4>4. QED
        BY <2>5, <2>6, <4>1, <4>2, <4>3
    <3>3. QED
      BY <3>1, <3>2 DEF Has
  <2>9. QED
    BY <1>2, <2>3, <2>5, <2>7, <2>8
<1>3. QED
  BY <1>1, <1>2
----------------------------------------------------------------------------
(* What the operations do to a state of the manager *)

LEMMA ListTypes ==
    ASSUME NEW s \in Shape, NEW k \in Keys
    PROVE  s.list[k] \in Seq(Objects) /\ DOMAIN s.list[k] = 1..Len(s.list[k])
           /\ Len(s.list[k]) \in Nat
BY DEF Shape

\* A timer is untouched by an operation on others.
Same(s, n, u) ==
    /\ \A k \in Keys : In(n, k, u) <=> In(s, k, u)
    /\ n.repeat[u] = s.repeat[u] /\ n.owed[u] = s.owed[u]

LEMMA SameRight ==
    ASSUME NEW s, NEW n, NEW u, Same(s, n, u), Right(s, u)
    PROVE  Right(n, u)
BY DEF Same, Right, Registered

\* Taking timers out of lists leaves the lists sound.
LEMMA ThinSound ==
    ASSUME NEW s, NEW n \in Shape, NEW K, Sound(s, K),
           n.left = s.left, n.delay = s.delay,
           \A k \in Keys : Thin(n.list[k], s.list[k]),
           \A k \in Keys, t \in Objects : In(n, k, t) => n.repeat[t] = s.repeat[t]
    PROVE  Sound(n, K)
<1>1. ASSUME NEW k \in Keys
      PROVE  \E e \in [DOMAIN n.list[k] -> DOMAIN s.list[k]] :
                /\ \A i \in DOMAIN n.list[k] : n.list[k][i] = s.list[k][e[i]]
                /\ \A i, m \in DOMAIN n.list[k] : i < m => e[i] < e[m]
  BY DEF Thin
<1>2. Once(n)
  <2>1. SUFFICES ASSUME NEW j \in Keys, NEW k \in Keys,
                        NEW i \in DOMAIN n.list[j], NEW m \in DOMAIN n.list[k],
                        n.list[j][i] = n.list[k][m]
                 PROVE  j = k /\ i = m
    BY DEF Once
  <2>2. PICK e \in [DOMAIN n.list[j] -> DOMAIN s.list[j]] :
                /\ \A a \in DOMAIN n.list[j] : n.list[j][a] = s.list[j][e[a]]
                /\ \A a, b \in DOMAIN n.list[j] : a < b => e[a] < e[b]
    BY <1>1
  <2>3. PICK f \in [DOMAIN n.list[k] -> DOMAIN s.list[k]] :
                \A a \in DOMAIN n.list[k] : n.list[k][a] = s.list[k][f[a]]
    BY <1>1
  <2>4. j = k
    BY <2>1, <2>2, <2>3 DEF Sound, Once
  <2>5. e[i] = e[m]
    BY <2>1, <2>2, <2>4 DEF Sound, Once
  <2>6. /\ i \in Nat /\ m \in Nat /\ e[i] \in Nat
    BY <2>2, <2>4, ListTypes, SMTT(60) DEF Sound
  <2>7. i = m
    BY <2>2, <2>4, <2>5, <2>6
  <2>8. QED
    BY <2>4, <2>7
<1>3. Ordered(n)
  BY <1>1 DEF Sound, Ordered
<1>4. Fits(n, K)
  <2>1. SUFFICES ASSUME NEW k \in Keys, NEW i \in DOMAIN n.list[k]
                 PROVE  FitsIn(n, K, k, n.list[k][i])
    BY DEF Fits
  <2>2. PICK m \in DOMAIN s.list[k] : n.list[k][i] = s.list[k][m]
    BY <1>1
  <2>3. FitsIn(s, K, k, n.list[k][i])
    BY <2>2 DEF Sound, Fits
  <2>4. n.list[k][i] \in Objects
    BY ListTypes
  <2>5. n.repeat[n.list[k][i]] = s.repeat[n.list[k][i]]
    BY <2>4 DEF In
  <2>6. QED
    BY <2>3, <2>5 DEF FitsIn
<1>5. QED
  BY <1>2, <1>3, <1>4 DEF Sound

\* Putting a timer that is in no list into one, where its time belongs, does so
\* too.
Put(l, i, t, w) ==
    /\ w \in Seq(Objects) /\ Len(w) = Len(l) + 1
    /\ \A m \in 1..(Len(l) + 1) :
          w[m] = IF m < i THEN l[m] ELSE IF m = i THEN t ELSE l[m - 1]

LEMMA PutAt ==
    ASSUME NEW l \in Seq(Objects), NEW i \in 1..(Len(l) + 1), NEW t \in Objects
    PROVE  Put(l, i, t, InsertAt(l, i, t))
<1>1. PICK r : r = InsertAt(l, i, t)
  OBVIOUS
<1>2. /\ r \in Seq(Objects) /\ Len(r) = Len(l) + 1
      /\ \A m \in 1..(Len(l) + 1) :
            r[m] = IF m < i THEN l[m] ELSE IF m = i THEN t ELSE l[m - 1]
  BY <1>1, InsertAtFacts, SMTT(60)
<1>3. QED
  BY <1>1, <1>2 DEF Put

LEMMA PutHas ==
    ASSUME NEW l \in Seq(Objects), NEW i \in 1..(Len(l) + 1), NEW t, NEW w, Put(l, i, t, w)
    PROVE  /\ \A u : Has(w, u) <=> u = t \/ Has(l, u)
           /\ \A m \in DOMAIN w : m # i =>
                 \E a \in DOMAIN l : w[m] = l[a] /\ a = IF m < i THEN m ELSE m - 1
           /\ DOMAIN w = 1..(Len(l) + 1) /\ w[i] = t
<1>1. Len(l) \in Nat /\ DOMAIN w = 1..(Len(l) + 1) /\ DOMAIN l = 1..Len(l) /\ w[i] = t
  BY DEF Put
<1>2. ASSUME NEW m \in DOMAIN w, m # i
      PROVE  \E a \in DOMAIN l : w[m] = l[a] /\ a = IF m < i THEN m ELSE m - 1
  BY <1>1, <1>2 DEF Put
<1>3. ASSUME NEW u, Has(w, u) PROVE u = t \/ Has(l, u)
  BY <1>1, <1>2, <1>3 DEF Has
<1>4. ASSUME NEW u, u = t PROVE Has(w, u)
  BY <1>1, <1>4 DEF Has
<1>5. ASSUME NEW u, NEW a \in DOMAIN l, l[a] = u PROVE Has(w, u)
  <2>1. CASE a < i
    <3>1. a \in DOMAIN w /\ w[a] = u
      BY <1>1, <1>5, <2>1 DEF Put
    <3>2. QED
      BY <3>1 DEF Has
  <2>2. CASE ~(a < i)
    <3>1. a + 1 \in DOMAIN w /\ (a + 1) - 1 = a /\ ~(a + 1 < i) /\ a + 1 # i
      BY <1>1, <2>2
    <3>2. w[a + 1] = u
      BY <1>1, <1>5, <3>1 DEF Put
    <3>3. QED
      BY <3>1, <3>2 DEF Has
  <2>3. QED
    BY <2>1, <2>2
<1>6. QED
  BY <1>1, <1>2, <1>3, <1>4, <1>5 DEF Has

LEMMA PutSound ==
    ASSUME NEW s, NEW n \in Shape, NEW K, Sound(s, K), NEW k \in Keys, NEW t \in Objects,
           ~Registered(s, t),
           NEW i \in 1..(Len(s.list[k]) + 1), Put(s.list[k], i, t, n.list[k]),
           \A j \in Keys \ {k} : n.list[j] = s.list[j],
           \A u \in Objects \ {t} : /\ n.left[u] = s.left[u] /\ n.delay[u] = s.delay[u]
                                    /\ n.repeat[u] = s.repeat[u],
           FitsIn(n, K, k, t),
           \A m \in DOMAIN s.list[k] :
               /\ m < i => s.left[s.list[k][m]] <= n.left[t]
               /\ m >= i => n.left[t] <= s.left[s.list[k][m]]
    PROVE  /\ Sound(n, K)
           /\ \A j \in Keys, u \in Objects : In(n, j, u) <=> In(s, j, u) \/ (j = k /\ u = t)
<1> DEFINE l == s.list[k]
           w == n.list[k]
<1>1. /\ s \in Shape /\ l \in Seq(Objects) /\ DOMAIN l = 1..Len(l) /\ Len(l) \in Nat
      /\ DOMAIN w = 1..(Len(l) + 1) /\ w[i] = t
  BY ListTypes, PutHas, SMTT(60) DEF Sound
<1>2. \A j \in Keys : \A m \in DOMAIN s.list[j] : s.list[j][m] # t /\ s.list[j][m] \in Objects
  <2>1. ASSUME NEW j \in Keys, NEW m \in DOMAIN s.list[j]
        PROVE  s.list[j][m] # t /\ s.list[j][m] \in Objects
    <3>1. s.list[j][m] \in Objects
      BY <1>1, ListTypes
    <3>2. ~In(s, j, t)
      BY DEF Registered
    <3>3. QED
      BY <3>1, <3>2 DEF In
  <2>2. QED
    BY <2>1
<1>3. \A m \in DOMAIN w : m # i =>
          \E a \in DOMAIN l : w[m] = l[a] /\ a = IF m < i THEN m ELSE m - 1
  <2>1. Put(l, i, t, w) /\ i \in 1..(Len(l) + 1)
    OBVIOUS
  <2> HIDE DEF l, w
  <2>2. QED
    BY <1>1, <2>1, PutHas
<1>4. \A j \in Keys, u \in Objects : In(n, j, u) <=> In(s, j, u) \/ (j = k /\ u = t)
  <2>1. \A u : Has(w, u) <=> u = t \/ Has(l, u)
    BY <1>1, PutHas
  <2>2. ASSUME NEW j \in Keys, NEW u \in Objects
        PROVE  In(n, j, u) <=> In(s, j, u) \/ (j = k /\ u = t)
    <3>1. CASE j = k
      BY <2>1, <3>1 DEF In, Has
    <3>2. CASE j # k
      BY <3>2 DEF In
    <3>3. QED
      BY <3>1, <3>2
  <2>3. QED
    BY <2>2
<1> HIDE DEF l, w
<1>5. Once(n)
  <2>1. ASSUME NEW a \in DOMAIN w, NEW b \in DOMAIN w, w[a] = w[b] PROVE a = b
    <3>1. a \in Nat /\ b \in Nat /\ i \in Nat
      BY <1>1 DEF l
    <3>2. ASSUME NEW c \in DOMAIN w, c # i PROVE w[c] # t
      BY <1>2, <1>3, <3>2 DEF l
    <3>3. CASE a = i \/ b = i
      BY <1>1, <2>1, <3>2, <3>3
    <3>4. CASE a # i /\ b # i
      <4>1. PICK c \in DOMAIN l : w[a] = l[c] /\ c = IF a < i THEN a ELSE a - 1
        BY <1>3, <3>4
      <4>2. PICK d \in DOMAIN l : w[b] = l[d] /\ d = IF b < i THEN b ELSE b - 1
        BY <1>3, <3>4
      <4>3. c = d
        <5>1. l[c] = l[d]
          BY <2>1, <4>1, <4>2
        <5>2. QED
          BY <4>1, <4>2, <5>1 DEF Sound, Once, l
      <4>4. QED
        BY <3>1, <3>4, <4>1, <4>2, <4>3
    <3>5. QED
      BY <3>3, <3>4
  <2>2. ASSUME NEW j \in Keys \ {k}, NEW a \in DOMAIN s.list[j], NEW b \in DOMAIN w,
               s.list[j][a] = w[b]
        PROVE  FALSE
    <3>1. b # i
      BY <1>1, <1>2, <2>2
    <3>2. PICK c \in DOMAIN l : w[b] = l[c]
      BY <1>3, <3>1
    <3>3. QED
      BY <2>2, <3>2 DEF Sound, Once, l
  <2>3. SUFFICES ASSUME NEW j \in Keys, NEW h \in Keys,
                        NEW a \in DOMAIN n.list[j], NEW b \in DOMAIN n.list[h],
                        n.list[j][a] = n.list[h][b]
                 PROVE  j = h /\ a = b
    BY DEF Once
  <2>4. CASE j = k /\ h = k
    BY <2>1, <2>3, <2>4 DEF w
  <2>5. CASE j = k /\ h # k
    BY <2>2, <2>3, <2>5 DEF w
  <2>6. CASE j # k /\ h = k
    BY <2>2, <2>3, <2>6 DEF w
  <2>7. CASE j # k /\ h # k
    BY <2>3, <2>7 DEF Sound, Once
  <2>8. QED
    BY <2>4, <2>5, <2>6, <2>7
<1>6. \A j \in Keys : \A m \in DOMAIN s.list[j] :
          /\ n.left[s.list[j][m]] = s.left[s.list[j][m]]
          /\ n.delay[s.list[j][m]] = s.delay[s.list[j][m]]
          /\ n.repeat[s.list[j][m]] = s.repeat[s.list[j][m]]
  BY <1>2
<1>7. Ordered(n)
  <2>1. SUFFICES ASSUME NEW j \in Keys, NEW a \in DOMAIN n.list[j], NEW b \in DOMAIN n.list[j],
                        a < b
                 PROVE  n.left[n.list[j][a]] <= n.left[n.list[j][b]]
    BY DEF Ordered
  <2>2. CASE j # k
    BY <1>6, <2>1, <2>2 DEF Sound, Ordered
  <2>3. CASE j = k
    <3>1. a \in DOMAIN w /\ b \in DOMAIN w /\ a \in Nat /\ b \in Nat /\ i \in Nat
      BY <1>1, <2>3, SMTT(60) DEF w, l
    <3>2. \A c, d \in DOMAIN l : c < d => n.left[l[c]] <= n.left[l[d]]
      BY <1>6 DEF Sound, Ordered, l
    <3>3. \A m \in DOMAIN l : /\ m < i => n.left[l[m]] <= n.left[t]
                              /\ m >= i => n.left[t] <= n.left[l[m]]
      BY <1>6 DEF l
    <3>4. CASE a = i
      <4>1. PICK d \in DOMAIN l : w[b] = l[d] /\ d = b - 1
        BY <1>3, <2>1, <3>1, <3>4
      <4>2. QED
        BY <1>1, <2>1, <2>3, <3>1, <3>3, <3>4, <4>1 DEF w
    <3>5. CASE b = i
      <4>1. PICK c \in DOMAIN l : w[a] = l[c] /\ c = a
        BY <1>3, <2>1, <3>1, <3>5
      <4>2. QED
        BY <1>1, <2>1, <2>3, <3>1, <3>3, <3>5, <4>1 DEF w
    <3>6. CASE a # i /\ b # i
      <4>1. PICK c \in DOMAIN l : w[a] = l[c] /\ c = IF a < i THEN a ELSE a - 1
        BY <1>3, <3>1, <3>6
      <4>2. PICK d \in DOMAIN l : w[b] = l[d] /\ d = IF b < i THEN b ELSE b - 1
        BY <1>3, <3>1, <3>6
      <4>3. c < d
        BY <2>1, <3>1, <3>6, <4>1, <4>2
      <4>4. QED
        BY <2>3, <3>2, <4>1, <4>2, <4>3 DEF w
    <3>7. QED
      BY <3>4, <3>5, <3>6
  <2>4. QED
    BY <2>2, <2>3
<1>8. Fits(n, K)
  <2>1. SUFFICES ASSUME NEW j \in Keys, NEW a \in DOMAIN n.list[j]
                 PROVE  FitsIn(n, K, j, n.list[j][a])
    BY DEF Fits
  <2>2. ASSUME NEW m \in DOMAIN s.list[j] PROVE FitsIn(n, K, j, s.list[j][m])
    <3>1. FitsIn(s, K, j, s.list[j][m])
      BY DEF Sound, Fits
    <3>2. QED
      BY <1>6, <3>1 DEF FitsIn
  <2>3. CASE j # k
    BY <2>2, <2>3
  <2>4. CASE j = k
    <3>1. CASE a = i
      BY <1>1, <2>4, <3>1 DEF w
    <3>2. CASE a # i
      <4>1. PICK c \in DOMAIN l : w[a] = l[c]
        BY <1>3, <2>4, <3>2 DEF w
      <4>2. QED
        BY <2>2, <2>4, <4>1 DEF w, l
    <3>3. QED
      BY <3>1, <3>2
  <2>5. QED
    BY <2>3, <2>4
<1>9. QED
  BY <1>4, <1>5, <1>7, <1>8 DEF Sound

\* A registered timer is in one list, with the delay that keys it.
LEMMA StoppedSound ==
    ASSUME NEW s, NEW K, Sound(s, K), NEW t \in Objects, Registered(s, t), NEW n, n = Stopped(s, t)
    PROVE  /\ Sound(n, K) /\ ~Registered(n, t) /\ Right(n, t)
           /\ \A u \in Objects \ {t} : Same(s, n, u)
<1>1. /\ s \in Shape
      /\ n = [s EXCEPT !.list = [k \in Keys |-> Unlinked(@[k], t)], !.repeat[t] = 0, !.owed[t] = 0]
  BY DEF Sound, Stopped
<1>2. \A k \in Keys : /\ s.list[k] \in Seq(Objects) /\ NoTwice(s.list[k])
  BY <1>1, ListTypes DEF Sound, Once, NoTwice
<1>3. /\ n.list = [k \in Keys |-> Unlinked(s.list[k], t)]
      /\ n.left = s.left /\ n.delay = s.delay
      /\ n.repeat = [s.repeat EXCEPT ![t] = 0]
      /\ n.owed = [s.owed EXCEPT ![t] = 0]
      /\ n = [list |-> n.list, left |-> n.left, delay |-> n.delay, repeat |-> n.repeat,
              owed |-> n.owed]
  BY <1>1 DEF Shape
<1>4. \A k \in Keys : /\ n.list[k] \in Seq(Objects) /\ Thin(n.list[k], s.list[k])
                      /\ \A u : Has(n.list[k], u) <=> u # t /\ Has(s.list[k], u)
  BY <1>2, <1>3, UnlinkedFacts
<1>5. n \in Shape
  <2>1. n.list \in [Keys -> Seq(Objects)]
    BY <1>3, <1>4
  <2>2. n.repeat \in [Objects -> Nat \cup {Forever}] /\ n.owed \in [Objects -> Int]
    BY <1>1, <1>3 DEF Shape
  <2>3. n.left \in [Objects -> Int] /\ n.delay \in [Objects -> Int]
    BY <1>1, <1>3 DEF Shape
  <2>4. QED
    BY <1>3, <2>1, <2>2, <2>3 DEF Shape
<1>6. \A k \in Keys : \A u : In(n, k, u) <=> u # t /\ In(s, k, u)
  BY <1>4 DEF In, Has
<1>7. \A u \in Objects \ {t} : n.repeat[u] = s.repeat[u] /\ n.owed[u] = s.owed[u]
  BY <1>1, <1>3 DEF Shape
<1>8. Sound(n, K)
  <2>1. \A k \in Keys, u \in Objects : In(n, k, u) => n.repeat[u] = s.repeat[u]
    BY <1>6, <1>7
  <2>2. n.left = s.left /\ n.delay = s.delay /\ \A k \in Keys : Thin(n.list[k], s.list[k])
    BY <1>3, <1>4
  <2>3. QED
    BY <1>5, <2>1, <2>2, ThinSound
<1>9. ~Registered(n, t) /\ n.owed[t] = 0
  BY <1>1, <1>3, <1>6 DEF Registered, Shape
<1>10. QED
  BY <1>6, <1>7, <1>8, <1>9 DEF Same, Right

\* addTimer puts the timer at the end of the list of its delay: nobody in it
\* has more to go.
LEMMA AddedSound ==
    ASSUME NEW s, NEW K, Sound(s, K), NEW t \in Objects, ~Registered(s, t),
           NEW d \in Delays, NEW r \in Nat \cup {Forever}, NEW n, n = Added(s, t, d, r)
    PROVE  /\ Sound(n, K) /\ Right(n, t) /\ n.repeat[t] = r
           /\ \A k \in Keys : In(n, k, t) <=> k = d
           /\ \A u \in Objects \ {t} : Same(s, n, u)
<1>1. /\ s \in Shape /\ d \in Keys /\ d # Agile /\ d \in Nat \ {0}
      /\ n = [[s EXCEPT !.delay[t] = d, !.repeat[t] = r]
                 EXCEPT !.list[d] = Append(@, t), !.left[t] = d,
                        !.owed[t] = IF r = Forever THEN Forever ELSE r + 1]
  BY AgileLast, TimersAssumption DEF Sound, Added, Keys
<1>2. /\ n.list = [s.list EXCEPT ![d] = Append(@, t)]
      /\ n.left = [s.left EXCEPT ![t] = d] /\ n.delay = [s.delay EXCEPT ![t] = d]
      /\ n.repeat = [s.repeat EXCEPT ![t] = r]
      /\ n.owed = [s.owed EXCEPT ![t] = IF r = Forever THEN Forever ELSE r + 1]
      /\ n = [list |-> n.list, left |-> n.left, delay |-> n.delay, repeat |-> n.repeat,
              owed |-> n.owed]
  BY <1>1 DEF Shape
<1>3. /\ s.list \in [Keys -> Seq(Objects)] /\ s.left \in [Objects -> Int]
      /\ s.delay \in [Objects -> Int] /\ s.repeat \in [Objects -> Nat \cup {Forever}]
      /\ s.owed \in [Objects -> Int]
  BY <1>1 DEF Shape
<1> DEFINE l == s.list[d]
<1>4. l \in Seq(Objects) /\ Len(l) \in Nat /\ DOMAIN l = 1..Len(l)
  BY <1>1, ListTypes
<1>5. n \in Shape
  <2>1. n.list \in [Keys -> Seq(Objects)] /\ n.left \in [Objects -> Int]
        /\ n.delay \in [Objects -> Int]
    BY <1>1, <1>2, <1>3
  <2>2. n.repeat \in [Objects -> Nat \cup {Forever}] /\ n.owed \in [Objects -> Int]
    BY <1>2, <1>3 DEF Forever
  <2>3. QED
    BY <1>2, <2>1, <2>2 DEF Shape
<1>6. Put(l, Len(l) + 1, t, n.list[d]) /\ \A j \in Keys \ {d} : n.list[j] = s.list[j]
  BY <1>1, <1>2, <1>3, <1>4 DEF Put
<1>7. \A u \in Objects \ {t} : /\ n.left[u] = s.left[u] /\ n.delay[u] = s.delay[u]
                               /\ n.repeat[u] = s.repeat[u] /\ n.owed[u] = s.owed[u]
  BY <1>2, <1>3
<1>8. /\ n.left[t] = d /\ n.delay[t] = d /\ n.repeat[t] = r
      /\ n.owed[t] = IF r = Forever THEN Forever ELSE r + 1
  BY <1>2, <1>3
<1>9. FitsIn(n, K, d, t)
  BY <1>1, <1>8 DEF FitsIn
<1>10. \A m \in DOMAIN l : /\ m < Len(l) + 1 => s.left[l[m]] <= n.left[t]
                           /\ m >= Len(l) + 1 => n.left[t] <= s.left[l[m]]
  BY <1>1, <1>4, <1>8 DEF Sound, Fits, FitsIn
<1>11. /\ Sound(n, K)
       /\ \A j \in Keys, u \in Objects : In(n, j, u) <=> In(s, j, u) \/ (j = d /\ u = t)
  <2>1. Len(l) + 1 \in 1..(Len(l) + 1)
    BY <1>4
  <2>2. \A u \in Objects \ {t} : /\ n.left[u] = s.left[u] /\ n.delay[u] = s.delay[u]
                                 /\ n.repeat[u] = s.repeat[u]
    BY <1>7
  <2>3. \A j \in Keys \ {d} : n.list[j] = s.list[j]
    BY <1>6
  <2>4. Put(s.list[d], Len(l) + 1, t, n.list[d]) /\ Len(l) + 1 \in 1..(Len(s.list[d]) + 1)
        /\ d \in Keys
    BY <1>1, <1>6, <2>1
  <2>5. \A m \in DOMAIN s.list[d] :
           /\ m < Len(l) + 1 => s.left[s.list[d][m]] <= n.left[t]
           /\ m >= Len(l) + 1 => n.left[t] <= s.left[s.list[d][m]]
    BY <1>10
  <2> HIDE DEF l
  <2>6. QED
    BY <1>5, <1>9, <2>2, <2>3, <2>4, <2>5, PutSound
<1>12. \A k \in Keys : In(n, k, t) <=> k = d
  BY <1>11 DEF Registered
<1>13. Registered(n, t)
  BY <1>1, <1>12 DEF Registered
<1>14. QED
  BY <1>7, <1>8, <1>11, <1>12, <1>13 DEF Same, Right

\* insert finds the place of a point of time.
LEMMA OnTimeSound ==
    ASSUME NEW s, NEW K, Sound(s, K), NEW t \in Objects, ~Registered(s, t),
           NEW q \in Nat, NEW n, n = AddedOnTime(s, t, q)
    PROVE  /\ Sound(n, K) /\ Right(n, t) /\ Registered(n, t)
           /\ \A u \in Objects \ {t} : Same(s, n, u)
<1> DEFINE l == s.list[Agile]
           At(j) == /\ \A m \in 1..(j - 1) : s.left[l[m]] < q
                    /\ j <= Len(l) => s.left[l[j]] >= q
<1>1. /\ s \in Shape /\ Agile \in Keys
      /\ l \in Seq(Objects) /\ Len(l) \in Nat /\ DOMAIN l = 1..Len(l)
      /\ \A m \in DOMAIN l : l[m] \in Objects
  BY AgileLast, ListTypes DEF Sound
<1>2. /\ s.list \in [Keys -> Seq(Objects)] /\ s.left \in [Objects -> Int]
      /\ s.delay \in [Objects -> Int] /\ s.repeat \in [Objects -> Nat \cup {Forever}]
      /\ s.owed \in [Objects -> Int]
  BY <1>1 DEF Shape
<1>3. \E j \in 1..(Len(l) + 1) : At(j)
  <2> DEFINE T == {j \in 1..(Len(l) + 1) : j <= Len(l) => s.left[l[j]] >= q}
  <2>1. T \in SUBSET Nat /\ Len(l) + 1 \in T
    BY <1>1
  <2>2. PICK j \in T : \A m \in T : j <= m
    BY <2>1, Least
  <2>3. ASSUME NEW m \in 1..(j - 1) PROVE s.left[l[m]] < q
    <3>1. m \in DOMAIN l /\ m \notin T /\ m \in 1..(Len(l) + 1)
      BY <1>1, <2>2
    <3>2. s.left[l[m]] \in Int
      BY <1>1, <1>2, <3>1
    <3>3. QED
      BY <3>1, <3>2
  <2>4. QED
    BY <2>2, <2>3
<1>4. PICK i : i = CHOOSE j \in 1..(Len(l) + 1) : At(j)
  OBVIOUS
<1>5. i \in 1..(Len(l) + 1) /\ At(i)
  BY <1>3, <1>4
<1>6. n = [s EXCEPT !.list[Agile] = InsertAt(l, i, t), !.left[t] = q, !.repeat[t] = 0,
                    !.owed[t] = 1]
  BY <1>4 DEF AddedOnTime
<1>7. /\ n.list = [s.list EXCEPT ![Agile] = InsertAt(l, i, t)]
      /\ n.left = [s.left EXCEPT ![t] = q] /\ n.delay = s.delay
      /\ n.repeat = [s.repeat EXCEPT ![t] = 0]
      /\ n.owed = [s.owed EXCEPT ![t] = 1]
      /\ n = [list |-> n.list, left |-> n.left, delay |-> n.delay, repeat |-> n.repeat,
              owed |-> n.owed]
  BY <1>1, <1>6 DEF Shape
<1>8. Put(l, i, t, InsertAt(l, i, t))
  <2>1. l \in Seq(Objects) /\ i \in 1..(Len(l) + 1)
    BY <1>1, <1>5
  <2> HIDE DEF l
  <2>2. QED
    BY <2>1, PutAt
<1>9. n \in Shape
  <2>1. n.list \in [Keys -> Seq(Objects)] /\ n.left \in [Objects -> Int]
        /\ n.delay \in [Objects -> Int]
    BY <1>1, <1>2, <1>7, <1>8 DEF Put
  <2>2. n.repeat \in [Objects -> Nat \cup {Forever}] /\ n.owed \in [Objects -> Int]
    BY <1>2, <1>7
  <2>3. QED
    BY <1>7, <2>1, <2>2 DEF Shape
<1>10. Put(l, i, t, n.list[Agile]) /\ \A j \in Keys \ {Agile} : n.list[j] = s.list[j]
  BY <1>1, <1>2, <1>7, <1>8
<1>11. \A u \in Objects \ {t} : /\ n.left[u] = s.left[u] /\ n.delay[u] = s.delay[u]
                                /\ n.repeat[u] = s.repeat[u] /\ n.owed[u] = s.owed[u]
  BY <1>2, <1>7
<1>12. n.left[t] = q /\ n.repeat[t] = 0 /\ n.owed[t] = 1
  BY <1>2, <1>7
<1>13. FitsIn(n, K, Agile, t)
  BY <1>12 DEF FitsIn
<1>14. ASSUME NEW m \in DOMAIN l
       PROVE  /\ m < i => s.left[l[m]] <= n.left[t]
              /\ m >= i => n.left[t] <= s.left[l[m]]
  <2>1. s.left[l[m]] \in Int /\ i \in Nat /\ m \in Nat
    <3>1. l[m] \in Objects /\ m \in 1..Len(l) /\ i \in 1..(Len(l) + 1) /\ Len(l) \in Nat
      BY <1>1, <1>5
    <3> HIDE DEF l
    <3>2. s.left[l[m]] \in Int
      BY <1>2, <3>1
    <3>3. QED
      BY <3>1, <3>2
  <2>2. CASE m < i
    <3>1. m \in 1..(i - 1)
      BY <1>1, <2>1, <2>2
    <3>2. QED
      BY <1>5, <1>12, <2>1, <2>2, <3>1
  <2>3. CASE m >= i
    <3>1. i \in DOMAIN l /\ i <= Len(l) /\ s.left[l[i]] \in Int
      BY <1>1, <1>2, <1>5, <2>1, <2>3, SMTT(60)
    <3>2. s.left[l[i]] <= s.left[l[m]]
      <4>1. CASE i = m
        BY <3>1, <4>1
      <4>2. CASE i < m
        BY <1>1, <3>1, <4>2 DEF Sound, Ordered
      <4>3. QED
        BY <2>1, <2>3, <4>1, <4>2
    <3>3. QED
      BY <1>5, <1>12, <2>1, <2>3, <3>1, <3>2
  <2>4. QED
    BY <2>1, <2>2, <2>3
<1>15. /\ Sound(n, K)
       /\ \A j \in Keys, u \in Objects : In(n, j, u) <=> In(s, j, u) \/ (j = Agile /\ u = t)
  <2>1. \A u \in Objects \ {t} : /\ n.left[u] = s.left[u] /\ n.delay[u] = s.delay[u]
                                 /\ n.repeat[u] = s.repeat[u]
    BY <1>11
  <2>2. \A j \in Keys \ {Agile} : n.list[j] = s.list[j]
    BY <1>10
  <2>3. Put(s.list[Agile], i, t, n.list[Agile]) /\ i \in 1..(Len(s.list[Agile]) + 1)
        /\ Agile \in Keys
    BY <1>1, <1>5, <1>10
  <2>4. \A m \in DOMAIN s.list[Agile] :
           /\ m < i => s.left[s.list[Agile][m]] <= n.left[t]
           /\ m >= i => n.left[t] <= s.left[s.list[Agile][m]]
    BY <1>14
  <2> HIDE DEF At, l
  <2>5. QED
    BY <1>9, <1>13, <2>1, <2>2, <2>3, <2>4, PutSound
<1>16. Registered(n, t)
  BY <1>1, <1>15 DEF Registered
<1>17. QED
  BY <1>11, <1>12, <1>15, <1>16 DEF Same, Right, Forever

\* Whatever a handler does with timers: each one is left alone, or put right by
\* being registered or stopped.
Settled(s, n, u) ==
    Same(s, n, u) \/ (Right(n, u) /\ ~(Registered(s, u) /\ Registered(n, u)))

LEMMA UsesSound ==
    ASSUME NEW s, NEW K, Sound(s, K), NEW n \in Uses(s)
    PROVE  Sound(n, K) /\ \A u \in Objects : Settled(s, n, u)
<1>1. ASSUME NEW t \in Objects, n = Stopped(s, t)
      PROVE  Sound(n, K) /\ \A u \in Objects : Settled(s, n, u)
  <2>1. CASE Registered(s, t)
    <3>1. /\ Sound(n, K) /\ ~Registered(n, t) /\ Right(n, t)
          /\ \A u \in Objects \ {t} : Same(s, n, u)
      BY <1>1, <2>1, StoppedSound
    <3>2. QED
      BY <3>1 DEF Settled
  <2>2. CASE ~Registered(s, t)
    BY <1>1, <2>2 DEF Stopped, Settled, Same
  <2>3. QED
    BY <2>1, <2>2
<1>2. ASSUME NEW t \in Objects, ~Registered(s, t), NEW d \in Delays,
             NEW r \in Forever..MaxRepeat, n = Added(s, t, d, r)
      PROVE  Sound(n, K) /\ \A u \in Objects : Settled(s, n, u)
  <2>1. r \in Nat \cup {Forever}
    BY TimersAssumption DEF Forever
  <2>2. Sound(n, K) /\ Right(n, t) /\ \A u \in Objects \ {t} : Same(s, n, u)
    BY <1>2, <2>1, AddedSound
  <2>3. QED
    BY <1>2, <2>2 DEF Settled
<1>3. ASSUME NEW t \in Objects, ~Registered(s, t), NEW q \in 0..MaxAhead, n = AddedOnTime(s, t, q)
      PROVE  Sound(n, K) /\ \A u \in Objects : Settled(s, n, u)
  <2>1. Sound(n, K) /\ Right(n, t) /\ \A u \in Objects \ {t} : Same(s, n, u)
    BY <1>3, OnTimeSound
  <2>2. QED
    BY <1>3, <2>1 DEF Settled
<1>4. ASSUME NEW t \in Objects, Registered(s, t), s.repeat[t] = 0,
             n = Added(s, t, s.delay[t], 0)
      PROVE  Sound(n, K) /\ \A u \in Objects : Settled(s, n, u)
  <2>1. n = [s EXCEPT !.delay[t] = s.delay[t], !.repeat[t] = 0]
    BY <1>4 DEF Added
  <2>2. n = s
    <3>1. s \in Shape
      BY DEF Sound
    <3>2. /\ n.delay = s.delay /\ n.repeat = s.repeat
          /\ n.list = s.list /\ n.left = s.left /\ n.owed = s.owed
      <4>1. s.delay \in [Objects -> Int] /\ s.repeat \in [Objects -> Nat \cup {Forever}]
        BY <3>1 DEF Shape
      <4>2. /\ n.delay = [s.delay EXCEPT ![t] = s.delay[t]]
            /\ n.repeat = [s.repeat EXCEPT ![t] = 0]
            /\ n.list = s.list /\ n.left = s.left /\ n.owed = s.owed
        BY <2>1, <3>1 DEF Shape
      <4>3. [s.delay EXCEPT ![t] = s.delay[t]] = s.delay
        BY <4>1
      <4>4. [s.repeat EXCEPT ![t] = 0] = s.repeat
        BY <1>4, <4>1
      <4>5. QED
        BY <4>2, <4>3, <4>4
    <3>3. n = [list |-> n.list, left |-> n.left, delay |-> n.delay, repeat |-> n.repeat,
               owed |-> n.owed]
      BY <2>1, <3>1 DEF Shape
    <3>4. s = [list |-> s.list, left |-> s.left, delay |-> s.delay, repeat |-> s.repeat,
               owed |-> s.owed]
      BY <3>1 DEF Shape
    <3>5. QED
      BY <3>2, <3>3, <3>4
  <2>3. QED
    BY <2>2 DEF Settled, Same
<1>5. QED
  BY <1>1, <1>2, <1>3, <1>4 DEF Uses

\* After its call a timer with a delay goes to the end of its list, one with a
\* point of time is taken out.
LEMMA AgainSound ==
    ASSUME NEW s, NEW K, Sound(s, K), NEW k \in Keys, NEW t \in Objects, In(s, k, t),
           s.owed[t] = s.repeat[t], NEW n, n = Again(s, k, t)
    PROVE  Sound(n, K) /\ Right(n, t) /\ \A u \in Objects \ {t} : Same(s, n, u)
<1>1. /\ s \in Shape
      /\ s.list \in [Keys -> Seq(Objects)] /\ s.left \in [Objects -> Int]
      /\ s.delay \in [Objects -> Int] /\ s.repeat \in [Objects -> Nat \cup {Forever}]
      /\ s.owed \in [Objects -> Int]
  BY DEF Sound, Shape
<1>2. PICK c : c = Removed(s, k, t)
  OBVIOUS
<1>3. /\ c.list = [s.list EXCEPT ![k] = Unlinked(s.list[k], t)]
      /\ c.left = s.left /\ c.delay = s.delay /\ c.repeat = s.repeat /\ c.owed = s.owed
      /\ c = [list |-> c.list, left |-> c.left, delay |-> c.delay, repeat |-> c.repeat,
              owed |-> c.owed]
  BY <1>1, <1>2 DEF Removed, Shape
<1>4. /\ Unlinked(s.list[k], t) \in Seq(Objects) /\ Thin(Unlinked(s.list[k], t), s.list[k])
      /\ \A u : Has(Unlinked(s.list[k], t), u) <=> u # t /\ Has(s.list[k], u)
  <2>1. NoTwice(s.list[k])
    BY DEF Sound, Once, NoTwice
  <2>2. QED
    BY <1>1, <2>1, UnlinkedFacts
<1>5. c \in Shape
  <2>1. c.list \in [Keys -> Seq(Objects)]
    BY <1>1, <1>3, <1>4
  <2>2. QED
    BY <1>1, <1>3, <2>1 DEF Shape
<1>6. \A j \in Keys : Thin(c.list[j], s.list[j])
  BY <1>1, <1>3, <1>4, ThinItself
<1>7. Sound(c, K)
  BY <1>3, <1>5, <1>6, ThinSound
<1>8. \A j \in Keys : j # k => ~In(s, j, t)
  BY DEF In, Sound, Once
<1>9. \A j \in Keys, u \in Objects : In(c, j, u) <=> u # t /\ In(s, j, u)
  <2>1. ASSUME NEW u PROVE In(c, k, u) <=> u # t /\ In(s, k, u)
    BY <1>1, <1>3, <1>4, ZenonT(60) DEF In, Has
  <2>2. ASSUME NEW j \in Keys, j # k, NEW u PROVE In(c, j, u) <=> In(s, j, u)
    BY <1>1, <1>3, <2>2 DEF In
  <2>3. QED
    BY <1>8, <2>1, <2>2
<1>10. ~Registered(c, t)
  BY <1>9 DEF Registered
<1>11. CASE s.repeat[t] = 0
  <2>1. n = c
    BY <1>2, <1>11 DEF Again
  <2>2. Right(n, t)
    BY <1>3, <1>10, <1>11, <2>1 DEF Right
  <2>3. QED
    BY <1>3, <1>7, <1>9, <2>1, <2>2 DEF Same
<1>12. CASE s.repeat[t] # 0
  <2> DEFINE l == c.list[k]
             i == Len(l) + 1
             r == IF s.repeat[t] > 0 THEN s.repeat[t] - 1 ELSE s.repeat[t]
  <2>1. k # Agile /\ s.delay[t] = k /\ k \in Nat \ {0}
    <3>1. FitsIn(s, K, k, t)
      BY DEF In, Sound, Fits
    <3>2. QED
      BY <1>12, <3>1, TimersAssumption DEF FitsIn, Keys
  <2>2. n = [c EXCEPT !.repeat[t] = r, !.left[t] = k, !.list[k] = Append(@, t)]
    BY <1>2, <1>3, <1>12, <2>1 DEF Again
  <2>3. /\ l \in Seq(Objects) /\ Len(l) \in Nat /\ DOMAIN l = 1..Len(l)
    BY <1>5, ListTypes
  <2>4. r \in Nat \cup {Forever} /\ (r = Forever <=> s.repeat[t] = Forever)
        /\ (s.repeat[t] # Forever => r + 1 = s.repeat[t])
    BY <1>1, <1>12 DEF Forever
  <2> HIDE DEF r
  <2>5. /\ n.list = [c.list EXCEPT ![k] = Append(@, t)]
        /\ n.left = [s.left EXCEPT ![t] = k] /\ n.delay = s.delay
        /\ n.repeat = [s.repeat EXCEPT ![t] = r] /\ n.owed = s.owed
        /\ n = [list |-> n.list, left |-> n.left, delay |-> n.delay, repeat |-> n.repeat,
                owed |-> n.owed]
    BY <1>3, <2>2, ZenonT(60)
  <2>6. n \in Shape
    <3>1. n.list \in [Keys -> Seq(Objects)]
      BY <1>5, <2>3, <2>5 DEF Shape
    <3>2. /\ n.left \in [Objects -> Int] /\ n.delay \in [Objects -> Int]
          /\ n.repeat \in [Objects -> Nat \cup {Forever}] /\ n.owed \in [Objects -> Int]
      BY <1>1, <2>1, <2>4, <2>5
    <3>3. QED
      BY <2>5, <3>1, <3>2 DEF Shape
  <2>7. \A u \in Objects \ {t} : /\ n.left[u] = c.left[u] /\ n.delay[u] = c.delay[u]
                                 /\ n.repeat[u] = c.repeat[u]
    BY <1>1, <1>3, <2>5
  <2>8. /\ n.left[t] = k /\ n.delay[t] = k /\ n.repeat[t] = r /\ n.owed[t] = s.repeat[t]
    BY <1>1, <2>1, <2>5
  <2>9. FitsIn(n, K, k, t)
    BY <2>1, <2>8 DEF FitsIn
  <2>10. c.list \in [Keys -> Seq(Objects)]
    BY <1>5 DEF Shape
  <2>11. /\ Put(c.list[k], i, t, n.list[k]) /\ i \in 1..(Len(c.list[k]) + 1)
         /\ \A j \in Keys \ {k} : n.list[j] = c.list[j]
    BY <2>3, <2>5, <2>10 DEF Put
  <2>12. ASSUME NEW m \in DOMAIN c.list[k]
         PROVE  /\ m < i => c.left[c.list[k][m]] <= n.left[t]
                /\ m >= i => n.left[t] <= c.left[c.list[k][m]]
    BY <1>7, <2>1, <2>3, <2>8 DEF Sound, Fits, FitsIn
  <2>13. /\ Sound(n, K)
         /\ \A j \in Keys, u \in Objects : In(n, j, u) <=> In(c, j, u) \/ (j = k /\ u = t)
    <3> HIDE DEF i, l
    <3>1. QED
      BY <1>7, <1>10, <2>6, <2>7, <2>9, <2>11, <2>12, PutSound
  <2>14. Right(n, t)
    <3>1. Registered(n, t)
      BY <2>13 DEF Registered
    <3>2. QED
      BY <2>4, <2>8, <3>1 DEF Right
  <2>15. ASSUME NEW u \in Objects \ {t} PROVE Same(s, n, u)
    <3>1. \A j \in Keys : In(n, j, u) <=> In(s, j, u)
      BY <1>9, <2>13
    <3>2. n.repeat[u] = s.repeat[u] /\ n.owed[u] = s.owed[u]
      BY <1>3, <2>5, <2>7
    <3>3. QED
      BY <3>1, <3>2 DEF Same
  <2>16. QED
    BY <2>13, <2>14, <2>15
<1>13. QED
  BY <1>11, <1>12

\* The whole step of the walk: the call, what its handler does, and what
\* becomes of the timer.
LEMMA FireSound ==
    ASSUME NEW s, NEW K, Sound(s, K), NEW k \in Keys, NEW t \in Objects, In(s, k, t),
           \A u \in Objects : Right(s, u),
           NEW c \in Callback(Called(s, t), t)
    PROVE  /\ Sound(Again(c, k, t), K)
           /\ \A u \in Objects : Right(Again(c, k, t), u)
<1>1. PICK b : b = Called(s, t)
  OBVIOUS
<1>2. /\ s \in Shape /\ Registered(s, t)
      /\ b = [s EXCEPT !.owed[t] = IF @ = Forever THEN Forever ELSE @ - 1]
  BY <1>1 DEF Sound, Registered, Called
<1>3. /\ b.list = s.list /\ b.left = s.left /\ b.delay = s.delay /\ b.repeat = s.repeat
      /\ b.owed = [s.owed EXCEPT ![t] = IF @ = Forever THEN Forever ELSE @ - 1]
      /\ b \in Shape
  <2>1. /\ b.list = s.list /\ b.left = s.left /\ b.delay = s.delay /\ b.repeat = s.repeat
        /\ b.owed = [s.owed EXCEPT ![t] = IF @ = Forever THEN Forever ELSE @ - 1]
        /\ b = [list |-> b.list, left |-> b.left, delay |-> b.delay, repeat |-> b.repeat,
                owed |-> b.owed]
    BY <1>2 DEF Shape
  <2>2. b.owed \in [Objects -> Int]
    BY <1>2, <2>1 DEF Shape, Forever
  <2>3. QED
    BY <1>2, <2>1, <2>2 DEF Shape
<1>4. Sound(b, K)
  BY <1>3 DEF Sound, Once, Ordered, Fits, FitsIn
<1>5. b.owed[t] = b.repeat[t]
  <2>1. s.owed[t] = IF s.repeat[t] = Forever THEN Forever ELSE s.repeat[t] + 1
    BY <1>2 DEF Right
  <2>2. s.repeat[t] \in Nat \cup {Forever} /\ s.owed \in [Objects -> Int]
    BY <1>2 DEF Shape
  <2>3. QED
    BY <1>3, <2>1, <2>2 DEF Forever
<1>6. \A j, u : In(b, j, u) <=> In(s, j, u)
  BY <1>3 DEF In
<1>7. \A u \in Objects \ {t} : Right(b, u)
  BY <1>2, <1>3, <1>6 DEF Right, Registered, Shape
<1>8. In(b, k, t) /\ Registered(b, t)
  BY <1>6 DEF Registered
<1>9. /\ Sound(c, K)
      /\ \A u \in Objects \ {t} : Right(c, u)
      /\ (In(c, k, t) => c.owed[t] = c.repeat[t])
      /\ (~In(c, k, t) => Right(c, t))
  <2>1. CASE c = b
    BY <1>4, <1>5, <1>7, <1>8, <2>1
  <2>2. CASE c \in Uses(b)
    <3>1. Sound(c, K) /\ \A u \in Objects : Settled(b, c, u)
      BY <1>4, <2>2, UsesSound
    <3>2. \A u \in Objects \ {t} : Right(c, u)
      BY <1>7, <3>1, SameRight DEF Settled
    <3>3. CASE Same(b, c, t)
      BY <1>5, <1>8, <3>1, <3>2, <3>3 DEF Same
    <3>4. CASE Right(c, t) /\ ~Registered(c, t)
      BY <3>1, <3>2, <3>4 DEF Registered
    <3>5. QED
      BY <1>8, <3>1, <3>3, <3>4 DEF Settled
  <2>3. ASSUME NEW d \in Delays, c = Added(Stopped(b, t), t, d, Forever)
        PROVE  /\ Sound(c, K)
               /\ \A u \in Objects \ {t} : Right(c, u)
               /\ (In(c, k, t) => c.owed[t] = c.repeat[t])
               /\ (~In(c, k, t) => Right(c, t))
    <3>1. PICK a : a = Stopped(b, t)
      OBVIOUS
    <3>2. /\ Sound(a, K) /\ ~Registered(a, t)
          /\ \A u \in Objects \ {t} : Same(b, a, u)
      BY <1>4, <1>8, <3>1, StoppedSound
    <3>3. /\ Sound(c, K) /\ Right(c, t) /\ c.repeat[t] = Forever
          /\ \A u \in Objects \ {t} : Same(a, c, u)
      <4>1. PICK r \in Nat \cup {Forever} : r = Forever
        OBVIOUS
      <4>2. c = Added(a, t, d, r)
        BY <2>3, <3>1, <4>1
      <4>3. /\ Sound(c, K) /\ Right(c, t) /\ c.repeat[t] = r
            /\ \A u \in Objects \ {t} : Same(a, c, u)
        BY <3>2, <4>2, AddedSound
      <4>4. QED
        BY <4>1, <4>3
    <3>4. \A u \in Objects \ {t} : Right(c, u)
      BY <1>7, <3>2, <3>3, SameRight
    <3>5. In(c, k, t) => c.owed[t] = c.repeat[t]
      BY <3>3 DEF Right, Registered
    <3>6. QED
      BY <3>3, <3>4, <3>5
  <2>4. QED
    BY <1>1, <2>1, <2>2, <2>3 DEF Callback
<1>10. CASE In(c, k, t)
  <2>1. PICK n : n = Again(c, k, t)
    OBVIOUS
  <2>2. Sound(n, K) /\ Right(n, t) /\ \A u \in Objects \ {t} : Same(c, n, u)
    BY <1>9, <1>10, <2>1, AgainSound
  <2>3. QED
    BY <1>9, <2>1, <2>2, SameRight
<1>11. CASE ~In(c, k, t)
  <2>1. Again(c, k, t) = c
    BY <1>11 DEF Again
  <2>2. QED
    BY <1>9, <1>11, <2>1
<1>12. QED
  BY <1>10, <1>11
----------------------------------------------------------------------------
(* The steps *)

\* Becomes stores the state, but for times that are not read again.
LEMMA BecomesSound ==
    ASSUME NEW s, NEW K, Sound(s, K), \A u \in Objects : Right(s, u), Becomes(s)
    PROVE  Sound(State, K)' /\ \A u \in Objects : Right(State, u)'
<1>1. PICK n : n = State'
  OBVIOUS
<1>2. /\ n.list = s.list /\ n.repeat = s.repeat /\ n.owed = s.owed
      /\ n.left = Timed(s, s.left) /\ n.delay = Timed(s, s.delay)
      /\ n = [list |-> n.list, left |-> n.left, delay |-> n.delay, repeat |-> n.repeat,
              owed |-> n.owed]
  BY <1>1 DEF Becomes, State
<1>3. s \in Shape
  BY DEF Sound
<1>4. n \in Shape
  <2>1. n.left \in [Objects -> Int] /\ n.delay \in [Objects -> Int]
    BY <1>2, <1>3 DEF Shape, Timed
  <2>2. QED
    BY <1>2, <1>3, <2>1 DEF Shape
<1>5. \A k \in Keys : \A i \in DOMAIN s.list[k] :
          /\ n.left[s.list[k][i]] = s.left[s.list[k][i]]
          /\ n.delay[s.list[k][i]] = s.delay[s.list[k][i]]
  <2>1. \A k \in Keys : \A i \in DOMAIN s.list[k] :
          s.list[k][i] \in Objects /\ Registered(s, s.list[k][i])
    BY <1>3, ListTypes DEF Registered, In
  <2>2. QED
    BY <1>2, <2>1 DEF Timed
<1>6. Once(n) /\ Ordered(n) /\ Fits(n, K)
  BY <1>2, <1>5 DEF Sound, Once, Ordered, Fits, FitsIn
<1>7. \A u \in Objects : Right(n, u)
  <2>1. \A k, u : In(n, k, u) <=> In(s, k, u)
    BY <1>2 DEF In
  <2>2. \A u : Registered(n, u) <=> Registered(s, u)
    BY <2>1 DEF Registered
  <2>3. QED
    BY <1>2, <2>2 DEF Right
<1>8. Sound(n, K)
  BY <1>4, <1>6 DEF Sound
<1>9. QED
  BY <1>1, <1>7, <1>8

LEMMA StepIInv == IInv /\ [Next]_vars => IInv'
<1> SUFFICES ASSUME IInv, [Next]_vars PROVE IInv'
  OBVIOUS
<1>1. ASSUME at' = at, Sound(State, Passed)', \A t \in Objects : Right(State, t)'
      PROVE  IInv'
  BY <1>1 DEF IInv
<1>2. Sound(State, Passed) /\ \A t \in Objects : Right(State, t)
  BY DEF IInv
<1>3. CASE Handler
  <2>1. PICK n \in Uses(State) : Becomes(n)
    BY <1>3 DEF Handler
  <2>2. PICK s, K : s = State /\ K = Passed
    OBVIOUS
  <2>3. Sound(n, K) /\ \A u \in Objects : Settled(s, n, u)
    BY <1>2, <2>1, <2>2, UsesSound
  <2>4. \A u \in Objects : Right(n, u)
    BY <1>2, <2>2, <2>3, SameRight DEF Settled
  <2>5. Sound(State, K)' /\ \A u \in Objects : Right(State, u)'
    BY <2>1, <2>3, <2>4, BecomesSound
  <2>6. at' = at /\ Passed' = K
    BY <1>3, <2>2 DEF Handler, Passed
  <2>7. QED
    BY <1>1, <2>5, <2>6
<1>4. CASE Fire
  <2>1. PICK t, k, s, K : t = list[at][1] /\ k = at /\ s = State /\ K = Passed
    OBVIOUS
  <2>2. /\ k \in Keys /\ list[k] # << >> /\ at' = at
        /\ \E c \in Callback(Called(s, t), t) : Becomes(Again(c, k, t))
    BY <1>4, <2>1 DEF Fire, Stays, IInv
  <2>3. t \in Objects /\ In(s, k, t)
    <3>1. list[k] \in Seq(Objects) /\ s.list = list
      BY <1>2, <2>1, <2>2 DEF Sound, Shape, State
    <3>2. 1 \in DOMAIN list[k] /\ list[k][1] = t
      BY <2>1, <2>2, <3>1
    <3>3. QED
      BY <3>1, <3>2 DEF In
  <2>4. PICK c \in Callback(Called(s, t), t) : Becomes(Again(c, k, t))
    BY <2>2
  <2>5. Sound(Again(c, k, t), K) /\ \A u \in Objects : Right(Again(c, k, t), u)
    BY <1>2, <2>1, <2>2, <2>3, FireSound
  <2>6. Sound(State, K)' /\ \A u \in Objects : Right(State, u)'
    BY <2>4, <2>5, BecomesSound
  <2>7. Passed' = K
    BY <2>1, <2>2 DEF Passed
  <2>8. QED
    BY <1>1, <2>2, <2>6, <2>7
<1>5. CASE Advance
  <2>1. PICK gap \in 1..MaxGap : left' = Timed(State, [t \in Objects |-> left[t] - gap])
    BY <1>5 DEF Advance
  <2>2. at' = First /\ UNCHANGED <<list, delay, repeat, owed>>
    BY <1>5 DEF Advance
  <2>3. gap \in Int
    OBVIOUS
  <2>4. /\ list \in [Keys -> Seq(Objects)] /\ left \in [Objects -> Int]
        /\ delay \in [Objects -> Int] /\ repeat \in [Objects -> Nat \cup {Forever}]
        /\ owed \in [Objects -> Int]
    BY <1>2 DEF Sound, Shape, State
  <2>5. left' \in [Objects -> Int]
    BY <2>1, <2>3, <2>4 DEF Timed
  <2>6. \A k \in Keys : \A i \in DOMAIN list[k] :
            list[k][i] \in Objects /\ left'[list[k][i]] = left[list[k][i]] - gap
    <3>1. \A k \in Keys : \A i \in DOMAIN list[k] :
            list[k][i] \in Objects /\ Registered(State, list[k][i])
      BY <2>4 DEF Registered, In, State
    <3>2. QED
      BY <2>1, <3>1 DEF Timed
  <2>7. State' \in Shape
    BY <2>2, <2>4, <2>5 DEF Shape, State
  <2>8. Once(State)'
    BY <1>2, <2>2 DEF Sound, Once, State
  <2>9. Ordered(State)'
    <3>1. \A k \in Keys : \A i, m \in DOMAIN list[k] : i < m => left[list[k][i]] <= left[list[k][m]]
      BY <1>2 DEF Sound, Ordered, State
    <3>2. \A k \in Keys : \A i, m \in DOMAIN list[k] : i < m => left'[list[k][i]] <= left'[list[k][m]]
      BY <2>3, <2>4, <2>6, <3>1
    <3>3. QED
      BY <2>2, <3>2 DEF Ordered, State
  <2>10. Fits(State, Passed)'
    <3>1. Passed' = {}
      <4>1. PICK f : f = First
        OBVIOUS
      <4>2. f \in Int /\ f # None /\ \A k \in Keys : k \in Int /\ ~(k < f)
        BY <4>1, FirstFacts, AgileLast, TimersAssumption
      <4>3. QED
        BY <2>2, <4>1, <4>2 DEF Passed
    <3>2. \A k \in Keys : \A i \in DOMAIN list[k] :
            /\ k # Agile => delay[list[k][i]] = k /\ left[list[k][i]] <= k
            /\ k = Agile => repeat[list[k][i]] = 0
      BY <1>2 DEF Sound, Fits, FitsIn, State
    <3>3. \A k \in Keys : k \in Int
      BY AgileLast
    <3>4. \A k \in Keys : \A i \in DOMAIN list[k] : k # Agile => left'[list[k][i]] <= k
      BY <2>4, <2>6, <3>2, <3>3
    <3>5. QED
      BY <2>2, <3>1, <3>2, <3>4 DEF Fits, FitsIn, State
  <2>11. \A t \in Objects : Right(State, t)'
    BY <1>2, <2>2 DEF Right, Registered, In, State
  <2>12. QED
    BY <2>2, <2>7, <2>8, <2>9, <2>10, <2>11, FirstFacts DEF IInv, Sound
<1>6. CASE NextList
  <2>1. /\ at # None /\ at \in Keys
        /\ list[at] # << >> => left[list[at][1]] >= 0
        /\ at' = IF at = Agile THEN None ELSE Following(at)
        /\ UNCHANGED <<list, left, delay, repeat, owed>>
    BY <1>6 DEF NextList, IInv
  <2>2. State' = State
    BY <2>1 DEF State
  <2>3. \A i \in DOMAIN list[at] : left[list[at][i]] >= 0
    <3>1. list[at] \in Seq(Objects) /\ left \in [Objects -> Int]
      BY <1>2, <2>1 DEF Sound, Shape, State
    <3>2. ASSUME NEW i \in DOMAIN list[at] PROVE left[list[at][i]] >= 0
      <4>1. list[at] # << >> /\ 1 \in DOMAIN list[at] /\ i >= 1
        BY <3>1
      <4>2. left[list[at][1]] <= left[list[at][i]]
        <5>1. CASE i = 1
          BY <3>1, <4>1, <5>1
        <5>2. CASE i # 1
          <6>1. 1 < i
            BY <3>1, <4>1, <5>2
          <6>2. QED
            BY <1>2, <2>1, <4>1, <6>1 DEF Sound, Ordered, State
        <5>3. QED
          BY <5>1, <5>2
      <4>3. left[list[at][1]] \in Int /\ left[list[at][i]] \in Int
        BY <3>1, <4>1
      <4>4. QED
        BY <2>1, <4>1, <4>2, <4>3
    <3>3. QED
      BY <3>2
  <2>4. at' \in Keys \cup {None} /\ Passed' \subseteq Passed \cup {at}
    <3>1. CASE at = Agile
      <4>1. \A k \in Keys : k = at \/ k < at
        BY <3>1, AgileLast DEF Keys
      <4>2. QED
        BY <2>1, <3>1, <4>1 DEF Passed
    <3>2. CASE at # Agile
      <4>1. /\ at' = Following(at) /\ at' \in Keys
            /\ \A k \in Keys : k < at' => k <= at
        BY <2>1, <3>2, FollowingFacts
      <4>2. at' # None /\ \A k \in Keys : k <= at => k = at \/ k < at
        BY <2>1, <4>1, AgileLast, TimersAssumption
      <4>3. QED
        BY <4>1, <4>2 DEF Passed
    <3>3. QED
      BY <3>1, <3>2
  <2>5. Fits(State, Passed)'
    <3>1. PICK L : L = Passed'
      OBVIOUS
    <3>2. ASSUME NEW k \in Keys, NEW i \in DOMAIN State.list[k]
          PROVE  FitsIn(State, L, k, State.list[k][i])
      <4>1. FitsIn(State, Passed, k, State.list[k][i])
        BY <1>2 DEF Sound, Fits
      <4>2. k = at => State.left[State.list[k][i]] >= 0
        BY <2>3 DEF State
      <4>3. QED
        BY <2>4, <3>1, <4>1, <4>2 DEF FitsIn
    <3>3. Fits(State, L)
      BY <3>2 DEF Fits
    <3>4. QED
      BY <2>2, <3>1, <3>3
  <2>6. QED
    BY <1>2, <2>2, <2>4, <2>5 DEF IInv, Sound
<1>7. CASE UNCHANGED vars
  BY <1>1, <1>2, <1>7 DEF vars, State, Passed, Sound, Shape, Once, Ordered, Fits, FitsIn,
     Right, Registered, In
<1>8. QED
  BY <1>3, <1>4, <1>5, <1>6, <1>7 DEF Next

LEMMA InitIInv == Init => IInv
<1> SUFFICES ASSUME Init PROVE IInv
  OBVIOUS
<1>1. State \in Shape /\ at = None
  BY DEF Init, Shape, State
<1>2. \A k \in Keys : DOMAIN State.list[k] = {}
  BY DEF Init, State
<1>3. Once(State) /\ Ordered(State) /\ Fits(State, Passed)
  BY <1>2 DEF Once, Ordered, Fits
<1>4. \A t \in Objects : Right(State, t)
  <2>1. \A t : ~Registered(State, t)
    BY <1>2 DEF Registered, In
  <2>2. QED
    BY <2>1 DEF Init, Right, State
<1>5. QED
  BY <1>1, <1>3, <1>4 DEF IInv, Sound

----------------------------------------------------------------------------
(* The properties *)

\* KxTimerList::pushBack, insert, remove: whatever the callbacks do, no timer is
\* linked into two lists or twice into one.
THEOREM TimersLinkedOnce == Spec => []LinkedOnce
<1>1. IInv => LinkedOnce
  BY DEF IInv, Sound, Once, State, LinkedOnce
<1>2. QED
  BY <1>1, InitIInv, StepIInv, PTL DEF Spec

\* KxTimerList::update may stop at the first timer that is not due.
THEOREM TimersInOrder == Spec => []DueInOrder
<1>1. IInv => DueInOrder
  BY DEF IInv, Sound, Ordered, State, DueInOrder
<1>2. QED
  BY <1>1, InitIInv, StepIInv, PTL DEF Spec

\* KxTimerManager::updateTimers leaves nothing behind that is due.
THEOREM TimersNoneOverdue == Spec => []NoneOverdue
<1>1. IInv => NoneOverdue
  <2>1. SUFFICES ASSUME IInv, at = None, NEW t \in Objects, Here(t) PROVE left[t] >= 0
    BY DEF NoneOverdue
  <2>2. PICK k \in Keys : \E i \in DOMAIN list[k] : list[k][i] = t
    BY <2>1 DEF Here, Registered, In, State
  <2>3. k \in Passed
    BY <2>1 DEF Passed
  <2>4. QED
    BY <2>1, <2>2, <2>3 DEF IInv, Sound, Fits, FitsIn, State
<1>2. QED
  BY <1>1, InitIInv, StepIInv, PTL DEF Spec

\* A timer is called as often as it was registered for, also when callbacks stop
\* and register it in the middle of a walk.
THEOREM TimersAsPromised == Spec => []CalledAsPromised
<1>1. IInv => CalledAsPromised
  BY DEF IInv, Right, Here, State, CalledAsPromised
<1>2. QED
  BY <1>1, InitIInv, StepIInv, PTL DEF Spec
============================================================================
