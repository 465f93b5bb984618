---------------------------- MODULE GuildProofs ----------------------------
(***************************************************************************)
(* What holds of Guild for every set of players and every table of levels. *)
(*                                                                         *)
(* Most handlers change one guild and keep its members (Amend); the others *)
(* are a joining, a leaving or a dissolution.  A joining is decided on the *)
(* copy in memory, so that MembershipAgrees needs CopySafe; a new guild    *)
(* needs Fresh; and the guild that a transfer or the daily succession      *)
(* leaves behind is Led by one.                                            *)
(***************************************************************************)
EXTENDS Guild, FiniteSetTheorems, TLAPS

\* An id that has not been given names no guild.
Fresh == \A n \in Ids : n > ref => unions[n] = None

Led(g) == \A p \in Users : g.pos[p] = CHAIRMAN => g.chairman = p

IInv == TypeOK /\ MembershipAgrees /\ CopySafe /\ OneChairman /\ Fresh

\* No guild grows past its limit in this step.
WithinLimit == \A n \in Ids : Grows(n) => Cardinality(Members(n)') <= MemberLimit[unions[n].lv]

USE DEF NON, NORMAL, VICE, CHAIRMAN

----------------------------------------------------------------------------
(* Facts about the operators *)

LEMMA GuildType ==
    ASSUME TypeOK, NEW n \in Ids, Exists(n)
    PROVE  /\ unions[n] \in Union
           /\ unions[n].pos \in [Users -> -1..2]
           /\ unions[n].chairman \in Users
           /\ unions[n].autoAudit \in BOOLEAN
           /\ unions[n].lv \in Levels
           /\ unions[n].audit \in [Users -> Entry]
BY DEF TypeOK, Exists, Union

\* None is told from a number and a guild.
LEMMA NoneApart ==
    /\ None \notin Int /\ None \notin Ids /\ None # 0 /\ None \notin Left
    /\ None \notin Union
    /\ 0 \in Left
BY GuildAssumption, NoneAssumption DEF Ids, Left

LEMMA LedMeansOne ==
    OneChairman <=> \A n \in Ids : Exists(n) => Led(unions[n])
BY DEF OneChairman, Led

\* A player's copy, loaded or not, shows what Redis has, if it has a guild.
LEMMA LoadedFacts ==
    ASSUME IInv, NEW p \in Users
    PROVE  /\ Loaded(p) \in {0} \cup Ids
           /\ Loaded(p) = 0 => store[p] = 0
           /\ store[p] # 0 => Loaded(p) = store[p]
BY NoneApart DEF IInv, TypeOK, CopySafe, Loaded

\* Reading copies in keeps them right.
LEMMA LoadFacts ==
    ASSUME IInv, NEW P \in SUBSET Users
    PROVE  /\ Load(P) \in [Users -> {0, None} \cup Ids]
           /\ \A p \in Users : store[p] # 0 => Load(P)[p] \in {None, store[p]}
BY LoadedFacts DEF IInv, TypeOK, CopySafe, Load

----------------------------------------------------------------------------
(* The kinds of steps *)

\* One guild is amended, its members stay.
LEMMA Amend ==
    ASSUME IInv, NEW n \in Ids, Exists(n), NEW g \in Union, Led(g),
           \A p \in Users : g.pos[p] # NON <=> unions[n].pos[p] # NON,
           unions' = [unions EXCEPT ![n] = g],
           UNCHANGED <<ref, store, cooldown>>,
           apply' \in [Users -> [Ids -> Entry]],
           conn' \in [Users -> {"off", "on", "comm"}],
           copy' \in [Users -> {0, None} \cup Ids],
           \A p \in Users : store[p] # 0 => copy'[p] \in {None, store[p]}
    PROVE  IInv' /\ WithinLimit
<1>1. TypeOK'
  BY DEF IInv, TypeOK
<1>2. \A m \in Ids : Exists(m) <=> Exists(m)'
  BY NoneApart DEF IInv, TypeOK, Exists
<1>3. \A m \in Ids : Members(m)' = Members(m)
  <2>1. Members(n)' = Members(n)
    <3>1. unions'[n] = g
      BY DEF IInv, TypeOK
    <3>2. Members(n)' = MembersOf(g)
      BY <1>2, <3>1 DEF Members, MembersOf, Exists
    <3>3. QED
      BY <3>2 DEF Members, MembersOf
  <2>2. ASSUME NEW m \in Ids \ {n} PROVE Members(m)' = Members(m)
    <3>1. unions'[m] = unions[m]
      BY DEF IInv, TypeOK
    <3>2. QED
      BY <3>1 DEF Members, MembersOf, Exists
  <2>3. QED
    BY <2>1, <2>2
<1>4. MembershipAgrees'
  BY <1>3 DEF IInv, MembershipAgrees
<1>5. CopySafe'
  BY DEF CopySafe
<1>6. OneChairman'
  BY <1>2 DEF IInv, TypeOK, OneChairman, Led, Exists
<1>7. Fresh'
  BY <1>2 DEF IInv, Fresh, Exists
<1>8. WithinLimit
  BY <1>3 DEF WithinLimit, Grows
<1>9. QED
  BY <1>1, <1>4, <1>5, <1>6, <1>7, <1>8 DEF IInv

\* No guild changes.
LEMMA Keep ==
    ASSUME IInv, UNCHANGED <<unions, ref, store>>,
           cooldown' \in [Users -> 0..ApplyCD],
           apply' \in [Users -> [Ids -> Entry]],
           conn' \in [Users -> {"off", "on", "comm"}],
           copy' \in [Users -> {0, None} \cup Ids],
           \A p \in Users : store[p] # 0 => copy'[p] \in {None, store[p]}
    PROVE  IInv' /\ WithinLimit
<1>1. TypeOK'
  BY DEF IInv, TypeOK
<1>2. MembershipAgrees' /\ OneChairman' /\ Fresh'
  BY DEF IInv, MembershipAgrees, OneChairman, Fresh, Members, MembersOf, Exists
<1>3. CopySafe'
  BY DEF CopySafe
<1>4. WithinLimit
  BY DEF WithinLimit, Grows, Members, MembersOf, Exists
<1>5. QED
  BY <1>1, <1>2, <1>3, <1>4 DEF IInv

\* The members of a guild are finitely many; one more makes one more.
LEMMA OneMore ==
    ASSUME NEW S \in SUBSET Users, NEW p \in Users
    PROVE  /\ Cardinality(S) \in Nat
           /\ Cardinality(S \cup {p}) <= Cardinality(S) + 1
<1>1. IsFiniteSet(S)
  BY GuildAssumption, FS_Subset
<1>2. Cardinality(S) \in Nat
  BY <1>1, FS_CardinalityType
<1>3. Cardinality(S \cup {p}) = IF p \in S THEN Cardinality(S) ELSE Cardinality(S) + 1
  BY <1>1, FS_AddElement
<1>4. QED
  BY <1>2, <1>3

LEMMA SmallerSet ==
    ASSUME NEW S \in SUBSET Users, NEW T \in SUBSET Users, NEW p \in Users,
           T \subseteq S \cup {p}
    PROVE  Cardinality(T) <= Cardinality(S) + 1
<1>1. IsFiniteSet(S \cup {p})
  BY GuildAssumption, FS_Subset
<1>2. Cardinality(T) <= Cardinality(S \cup {p})
  BY <1>1, FS_Subset
<1>3. Cardinality(T) \in Nat /\ Cardinality(S \cup {p}) \in Nat
  BY OneMore
<1>4. QED
  BY <1>2, <1>3, OneMore

\* A player who was in no guild joins n in a lower position.
LEMMA Join ==
    ASSUME IInv, NEW p \in Users, NEW n \in Ids, Exists(n), store[p] = 0,
           NEW g \in Union,
           g.pos = [unions[n].pos EXCEPT ![p] = NORMAL],
           g.chairman = unions[n].chairman,
           unions' = [unions EXCEPT ![n] = g],
           HasRoom(n),
           store' = [store EXCEPT ![p] = n],
           UNCHANGED <<ref, cooldown>>,
           copy' = [copy EXCEPT ![p] = n],
           apply' \in [Users -> [Ids -> Entry]],
           conn' \in [Users -> {"off", "on", "comm"}]
    PROVE  IInv' /\ WithinLimit
<1>1. TypeOK'
  BY DEF IInv, TypeOK
<1>2. \A m \in Ids : Exists(m) <=> Exists(m)'
  BY NoneApart DEF IInv, TypeOK, Exists
<1>3. Members(n)' = Members(n) \cup {p}
  BY <1>2, GuildType DEF IInv, TypeOK, Members, MembersOf, Exists
<1>4. \A m \in Ids \ {n} : Members(m)' = Members(m)
  BY <1>2 DEF IInv, TypeOK, Members, MembersOf, Exists
<1>5. MembershipAgrees'
  <2>1. \A m \in Ids : p \notin Members(m)
    BY NoneApart DEF IInv, MembershipAgrees, Ids
  <2>2. \A q \in Users : store'[q] = IF q = p THEN n ELSE store[q]
    BY DEF IInv, TypeOK
  <2>3. ASSUME NEW q \in Users, NEW m \in Ids
        PROVE  q \in Members(m)' <=> store'[q] = m
    <3>1. q \in Members(m) <=> store[q] = m
      BY DEF IInv, MembershipAgrees
    <3>2. QED
      BY <1>3, <1>4, <2>1, <2>2, <3>1, ZenonT(60)
  <2>4. QED
    BY <2>3 DEF MembershipAgrees
<1>6. CopySafe'
  BY DEF IInv, TypeOK, CopySafe
<1>7. OneChairman'
  <2>1. Led(g)
    BY GuildType DEF IInv, OneChairman, Led
  <2>2. QED
    BY <1>2, <2>1 DEF IInv, TypeOK, OneChairman, Led, Exists
<1>8. Fresh'
  BY <1>2 DEF IInv, Fresh, Exists
<1>9. WithinLimit
  <2>1. MemberLimit[unions[n].lv] \in Nat /\ Members(n) \in SUBSET Users
    BY GuildType, GuildAssumption DEF IInv, Members, MembersOf
  <2>2. Cardinality(Members(n)') <= MemberLimit[unions[n].lv]
    BY <1>3, <2>1, OneMore, SMTT(60) DEF HasRoom
  <2>3. QED
    BY <1>4, <2>2 DEF WithinLimit, Grows
<1>10. QED
  BY <1>1, <1>5, <1>6, <1>7, <1>8, <1>9 DEF IInv

\* A player leaves his guild n.
LEMMA Leave ==
    ASSUME IInv, NEW p \in Users, NEW n \in Ids, p \in Members(n),
           unions' = [unions EXCEPT ![n].pos[p] = NON],
           QuitUser(p),
           UNCHANGED <<ref, apply>>,
           conn' \in [Users -> {"off", "on", "comm"}],
           copy' \in [Users -> {0, None} \cup Ids],
           \A q \in Users : store'[q] # 0 => copy'[q] \in {None, store[q]}
    PROVE  IInv' /\ WithinLimit
<1> DEFINE g == [unions[n] EXCEPT !.pos[p] = NON]
<1>1. Exists(n)
  BY DEF Members
<1>2. g \in Union /\ g.pos = [unions[n].pos EXCEPT ![p] = NON] /\ g.chairman = unions[n].chairman
  BY <1>1, GuildType DEF IInv, Union
<1>3. unions' = [unions EXCEPT ![n] = g]
  BY DEF IInv, TypeOK
<1> HIDE DEF g
<1>4. TypeOK'
  <2>1. unions' \in [Ids -> Union \cup {None}]
    BY <1>2, <1>3 DEF IInv, TypeOK
  <2>2. store' \in [Users -> {0} \cup Ids] /\ cooldown' \in [Users -> 0..ApplyCD]
    BY GuildAssumption DEF IInv, TypeOK, QuitUser
  <2>3. QED
    BY <2>1, <2>2 DEF IInv, TypeOK
<1>5. ASSUME NEW m \in Ids PROVE Exists(m) <=> Exists(m)'
  <2>1. unions'[m] = IF m = n THEN g ELSE unions[m]
    BY <1>3 DEF IInv, TypeOK
  <2>2. g # None
    BY <1>2, NoneApart
  <2>3. QED
    BY <1>1, <2>1, <2>2 DEF Exists
<1>6. Members(n)' = Members(n) \ {p}
  <2>1. unions'[n] = g
    BY <1>3 DEF IInv, TypeOK
  <2>2. Members(n)' = MembersOf(g)
    BY <1>1, <1>5, <2>1 DEF Members, MembersOf, Exists
  <2>3. QED
    BY <1>1, <1>2, <2>2, GuildType DEF IInv, Members, MembersOf
<1>7. ASSUME NEW m \in Ids \ {n} PROVE Members(m)' = Members(m)
  <2>1. unions'[m] = unions[m]
    BY <1>3 DEF IInv, TypeOK
  <2>2. QED
    BY <2>1 DEF Members, MembersOf, Exists
<1>8. MembershipAgrees'
  <2>1. \A q \in Users : store'[q] = IF q = p THEN 0 ELSE store[q]
    BY DEF IInv, TypeOK, QuitUser
  <2>2. ASSUME NEW q \in Users, NEW m \in Ids
        PROVE  q \in Members(m)' <=> store'[q] = m
    <3>1. (q \in Members(m) <=> store[q] = m) /\ store[p] = n
      BY DEF IInv, MembershipAgrees
    <3>2. m # 0
      BY DEF Ids
    <3>3. QED
      BY <1>6, <1>7, <2>1, <3>1, <3>2
  <2>3. QED
    BY <2>2 DEF MembershipAgrees
<1>9. CopySafe'
  BY DEF IInv, TypeOK, CopySafe, QuitUser
<1>10. OneChairman'
  <2>1. Led(g)
    BY <1>1, <1>2, GuildType DEF IInv, OneChairman, Led
  <2>2. QED
    BY <1>3, <1>5, <2>1 DEF IInv, TypeOK, OneChairman, Led, Exists
<1>11. Fresh'
  BY <1>5 DEF IInv, Fresh, Exists
<1>12. WithinLimit
  BY <1>6, <1>7 DEF WithinLimit, Grows
<1>13. QED
  BY <1>4, <1>8, <1>9, <1>10, <1>11, <1>12 DEF IInv

\* A guild n goes, and those who were in it have none: its members, or the
\* last one of them.
LEMMA Dissolve ==
    ASSUME IInv, NEW n \in Ids, Exists(n),
           unions' = [unions EXCEPT ![n] = None],
           store' = [p \in Users |-> IF p \in Members(n) THEN 0 ELSE store[p]],
           UNCHANGED <<ref, apply>>,
           cooldown' \in [Users -> 0..ApplyCD],
           conn' \in [Users -> {"off", "on", "comm"}],
           copy' \in [Users -> {0, None} \cup Ids],
           \A p \in Users : store'[p] # 0 => copy'[p] \in {None, store[p]}
    PROVE  IInv' /\ WithinLimit
<1>1. TypeOK'
  BY DEF IInv, TypeOK
<1>2. unions'[n] = None /\ \A m \in Ids \ {n} : unions'[m] = unions[m]
  BY DEF IInv, TypeOK
<1>3. Members(n)' = {} /\ \A m \in Ids \ {n} : Members(m)' = Members(m)
  BY <1>2 DEF Members, MembersOf, Exists
<1>4. MembershipAgrees'
  <2>1. ASSUME NEW p \in Users, NEW m \in Ids
        PROVE  p \in Members(m)' <=> store'[p] = m
    <3>1. (p \in Members(m) <=> store[p] = m) /\ (p \in Members(n) <=> store[p] = n)
      BY DEF IInv, MembershipAgrees
    <3>2. m # 0
      BY DEF Ids
    <3>3. QED
      BY <1>3, <3>1, <3>2
  <2>2. QED
    BY <2>1 DEF MembershipAgrees
<1>5. CopySafe'
  BY DEF CopySafe
<1>6. OneChairman' /\ Fresh'
  BY <1>2 DEF IInv, OneChairman, Fresh, Exists
<1>7. WithinLimit
  BY <1>3 DEF WithinLimit, Grows
<1>8. QED
  BY <1>1, <1>4, <1>5, <1>6, <1>7 DEF IInv

----------------------------------------------------------------------------
(* Auditing *)

Desks == [guild : Union, store : [Users -> {0} \cup Ids],
          copy : [Users -> {0, None} \cup Ids], apply : [Users -> [Ids -> Entry]]]

\* What holds of the state auditUser works on: it may have let some players
\* without a guild into n, and no others.
DeskOK(d, n) ==
    /\ d \in Desks
    /\ Led(d.guild)
    /\ \A p \in Users :
         /\ d.guild.pos[p] # NON <=> d.store[p] = n
         /\ d.store[p] # store[p] => d.store[p] = n /\ store[p] = 0
         /\ d.store[p] # 0 => d.copy[p] \in {None, d.store[p]}

LEMMA LetInGuild ==
    ASSUME NEW g \in Union, NEW p \in Users
    PROVE  /\ [g EXCEPT !.pos[p] = NORMAL] \in Union
           /\ [g EXCEPT !.pos[p] = NORMAL].pos = [g.pos EXCEPT ![p] = NORMAL]
           /\ [g EXCEPT !.pos[p] = NORMAL].chairman = g.chairman
BY DEF Union

LEMMA LetInDesk ==
    ASSUME NEW d \in Desks, NEW p \in Users, NEW n \in Ids, NEW r,
           r = [d EXCEPT !.copy[p] = n, !.store[p] = n, !.guild.pos[p] = NORMAL,
                         !.apply[p] = NoApplications]
    PROVE  /\ r.guild = [d.guild EXCEPT !.pos[p] = NORMAL]
           /\ r.store = [d.store EXCEPT ![p] = n]
           /\ r.copy = [d.copy EXCEPT ![p] = n]
           /\ NoApplications \in [Ids -> Entry] /\ r.guild \in Union => r \in Desks
BY DEF Desks

LEMMA AuditUserOK ==
    ASSUME NEW n \in Ids, NEW d, DeskOK(d, n), NEW p \in Users, NEW agree \in BOOLEAN
    PROVE  DeskOK(AuditUser(d, n, p, agree), n)
<1> DEFINE struck == [d EXCEPT !.guild.audit[p] = None]
           loaded == IF d.copy[p] = None THEN d.store[p] ELSE d.copy[p]
           r1 == [struck EXCEPT !.copy[p] = loaded, !.apply[p][n] = None]
           r2 == [struck EXCEPT !.copy[p] = loaded]
           r3 == [struck EXCEPT !.copy[p] = n, !.store[p] = n, !.guild.pos[p] = NORMAL,
                                !.apply[p] = NoApplications]
<1>1. AuditUser(d, n, p, agree) \in {d, struck, r1, r2} \/
      (AuditUser(d, n, p, agree) = r3 /\ loaded = 0)
  BY Zenon DEF AuditUser
<1>2. /\ d.guild \in Union /\ d.store \in [Users -> {0} \cup Ids]
      /\ d.copy \in [Users -> {0, None} \cup Ids] /\ d.apply \in [Users -> [Ids -> Entry]]
      /\ None \in Entry
  BY DEF DeskOK, Desks, Entry
<1>3. /\ loaded \in {0} \cup Ids
      /\ d.store[p] # 0 => loaded = d.store[p]
  BY <1>2, NoneApart DEF DeskOK
<1> HIDE DEF loaded
<1>4. /\ [d.guild EXCEPT !.audit[p] = None] \in Union
      /\ struck.guild = [d.guild EXCEPT !.audit[p] = None]
      /\ struck.store = d.store /\ struck.copy = d.copy /\ struck.apply = d.apply
      /\ struck \in Desks
      /\ struck.guild.pos = d.guild.pos /\ struck.guild.chairman = d.guild.chairman
  BY <1>2 DEF Desks, DeskOK, Union
<1>5. DeskOK(struck, n)
  BY <1>4 DEF DeskOK, Led
<1> HIDE DEF struck
<1>6. DeskOK(r1, n)
  BY <1>2, <1>3, <1>4, <1>5, ZenonT(60) DEF DeskOK, Desks
<1>7. DeskOK(r2, n)
  BY <1>2, <1>3, <1>4, <1>5 DEF DeskOK, Desks
<1>8. ASSUME loaded = 0 PROVE DeskOK(r3, n)
  <2>1. d.store[p] = 0 /\ store[p] = 0
    BY <1>2, <1>3, <1>8 DEF DeskOK
  <2>2. NoApplications \in [Ids -> Entry]
    BY <1>2 DEF NoApplications
  <2> DEFINE let == [struck.guild EXCEPT !.pos[p] = NORMAL]
  <2>9. /\ let \in Union
        /\ let.pos = [struck.guild.pos EXCEPT ![p] = NORMAL]
        /\ let.chairman = struck.guild.chairman
    BY <1>4, LetInGuild DEF Desks
  <2>10. /\ r3.guild = let
         /\ r3.store = [struck.store EXCEPT ![p] = n]
         /\ r3.copy = [struck.copy EXCEPT ![p] = n]
         /\ NoApplications \in [Ids -> Entry] /\ r3.guild \in Union => r3 \in Desks
    BY <1>4, LetInDesk
  <2> HIDE DEF let
  <2>3. /\ r3.guild \in Union
        /\ r3.guild.pos = [struck.guild.pos EXCEPT ![p] = NORMAL]
        /\ r3.guild.chairman = struck.guild.chairman
        /\ r3.store = [struck.store EXCEPT ![p] = n]
        /\ r3.copy = [struck.copy EXCEPT ![p] = n]
    BY <2>9, <2>10
  <2>4. r3 \in Desks
    BY <2>2, <2>9, <2>10
  <2>5. Led(r3.guild)
    <3>1. Led(struck.guild) /\ struck.guild.pos \in [Users -> -1..2]
      BY <1>4, <1>5 DEF DeskOK, Desks, Union
    <3>2. QED
      BY <2>3, <3>1 DEF Led
  <2>6. struck.guild.pos \in [Users -> -1..2] /\ struck.store \in [Users -> {0} \cup Ids]
        /\ struck.copy \in [Users -> {0, None} \cup Ids]
    BY <1>4 DEF Desks, Union
  <2>7. ASSUME NEW q \in Users
        PROVE  /\ r3.guild.pos[q] # NON <=> r3.store[q] = n
               /\ r3.store[q] # store[q] => r3.store[q] = n /\ store[q] = 0
               /\ r3.store[q] # 0 => r3.copy[q] \in {None, r3.store[q]}
    BY <1>5, <2>1, <2>3, <2>6 DEF DeskOK
  <2>8. QED
    BY <2>4, <2>5, <2>7 DEF DeskOK
<1>9. DeskOK(d, n)
  OBVIOUS
<1> HIDE DEF r1, r2, r3
<1>10. QED
  BY <1>1, <1>5, <1>6, <1>7, <1>8, <1>9

\* auditUser lets in p at most, on agreement only, and leaves the level.
LEMMA AuditGrows ==
    ASSUME NEW d \in Desks, NEW n \in Ids, NEW p \in Users, NEW agree \in BOOLEAN
    PROVE  LET r == AuditUser(d, n, p, agree) IN
           /\ r.guild.lv = d.guild.lv
           /\ MembersOf(r.guild) \subseteq MembersOf(d.guild) \cup {p}
           /\ ~agree => MembersOf(r.guild) = MembersOf(d.guild)
<1> DEFINE struck == [d EXCEPT !.guild.audit[p] = None]
           loaded == IF d.copy[p] = None THEN d.store[p] ELSE d.copy[p]
           r1 == [struck EXCEPT !.copy[p] = loaded, !.apply[p][n] = None]
           r2 == [struck EXCEPT !.copy[p] = loaded]
           r3 == [struck EXCEPT !.copy[p] = n, !.store[p] = n, !.guild.pos[p] = NORMAL,
                                !.apply[p] = NoApplications]
           r == AuditUser(d, n, p, agree)
<1>1. r \in {d, struck, r1, r2} \/ (r = r3 /\ agree)
  BY Zenon DEF AuditUser
<1>2. d.guild \in Union /\ d.guild.pos \in [Users -> -1..2]
  BY DEF Desks, Union
<1>3. struck.guild.pos = d.guild.pos /\ struck.guild.lv = d.guild.lv
      /\ DOMAIN struck = DOMAIN d /\ DOMAIN struck.guild = DOMAIN d.guild
  BY <1>2 DEF Desks, Union
<1> HIDE DEF struck
<1>4. r1.guild = struck.guild /\ r2.guild = struck.guild
  OBVIOUS
<1>5. r3.guild.lv = d.guild.lv /\ r3.guild.pos = [d.guild.pos EXCEPT ![p] = NORMAL]
  BY <1>2, <1>3 DEF Desks, Union
<1> HIDE DEF r1, r2, r3, r
<1>6. /\ r.guild.lv = d.guild.lv
      /\ r.guild.pos = d.guild.pos \/ (agree /\ r.guild.pos = [d.guild.pos EXCEPT ![p] = NORMAL])
  BY <1>1, <1>3, <1>4, <1>5
<1>7. QED
  BY <1>2, <1>6 DEF MembersOf, r

LEMMA AuditStep ==
    ASSUME IInv, NEW q \in Users, NEW n \in Ids, NEW p \in Users, NEW r \in Users,
           NEW agree \in BOOLEAN, Audit(q, n, p, r, agree)
    PROVE  IInv' /\ WithinLimit
<1> DEFINE d1 == AuditUser(Desk(n), n, p, agree)
           d == AuditNext(d1, n, r, agree)
<1>1. Exists(n) /\ unions' = [unions EXCEPT ![n] = d.guild] /\ store' = d.store
      /\ copy' = [d.copy EXCEPT ![q] = IF @ = None THEN d.store[q] ELSE @]
      /\ apply' = d.apply /\ UNCHANGED <<ref, cooldown, conn>>
  BY DEF Audit, InUnion
<1>2. DeskOK(Desk(n), n)
  <2>1. Desk(n) \in Desks
    BY <1>1, GuildType DEF IInv, TypeOK, Desk, Desks
  <2>2. Led(Desk(n).guild)
    BY <1>1, LedMeansOne DEF IInv, Desk
  <2>3. ASSUME NEW s \in Users PROVE unions[n].pos[s] # NON <=> store[s] = n
    BY <1>1 DEF IInv, MembershipAgrees, Members, MembersOf
  <2>4. QED
    BY <2>1, <2>2, <2>3 DEF DeskOK, Desk, IInv, CopySafe
<1>3. DeskOK(d1, n)
  BY <1>2, AuditUserOK
<1> HIDE DEF d1
<1>4. DeskOK(AuditUser(d1, n, r, agree), n)
  BY <1>3, AuditUserOK
<1>5. DeskOK(d, n)
  BY <1>3, <1>4 DEF AuditNext
<1> HIDE DEF d
<1>6. /\ d.guild \in Union /\ d.store \in [Users -> {0} \cup Ids]
      /\ d.copy \in [Users -> {0, None} \cup Ids] /\ d.apply \in [Users -> [Ids -> Entry]]
  BY <1>5 DEF DeskOK, Desks
<1>7. copy' \in [Users -> {0, None} \cup Ids]
      /\ \A s \in Users : store'[s] # 0 => copy'[s] \in {None, store'[s]}
  BY <1>1, <1>5, <1>6 DEF DeskOK
<1>8. TypeOK'
  BY <1>1, <1>6, <1>7 DEF IInv, TypeOK
<1>9. ASSUME NEW m \in Ids PROVE Exists(m) <=> Exists(m)'
  <2>1. unions'[m] = IF m = n THEN d.guild ELSE unions[m]
    BY <1>1 DEF IInv, TypeOK
  <2>2. QED
    BY <1>1, <1>6, <2>1, NoneApart DEF Exists
<1>10. MembershipAgrees'
  <2>1. ASSUME NEW s \in Users PROVE s \in Members(n)' <=> store'[s] = n
    <3>1. Members(n)' = MembersOf(d.guild)
      BY <1>1, <1>9 DEF IInv, TypeOK, Members, Exists, MembersOf
    <3>2. QED
      BY <1>1, <1>5, <3>1 DEF DeskOK, MembersOf
  <2>2. ASSUME NEW s \in Users, NEW m \in Ids \ {n}
        PROVE  s \in Members(m)' <=> store'[s] = m
    <3>1. Members(m)' = Members(m)
      BY <1>1 DEF IInv, TypeOK, Members, Exists, MembersOf
    <3>2. s \in Members(m) <=> store[s] = m
      BY DEF IInv, MembershipAgrees
    <3>3. store'[s] = store[s] \/ (store'[s] = n /\ store[s] = 0)
      BY <1>1, <1>5 DEF DeskOK
    <3>4. m # 0
      BY DEF Ids
    <3>5. QED
      BY <3>1, <3>2, <3>3, <3>4
  <2>3. QED
    BY <2>1, <2>2 DEF MembershipAgrees
<1>11. CopySafe'
  BY <1>7 DEF CopySafe
<1>12. OneChairman'
  <2>1. Led(d.guild)
    BY <1>5 DEF DeskOK
  <2>2. QED
    BY <1>1, <1>9, <2>1 DEF IInv, TypeOK, OneChairman, Led, Exists
<1>13. Fresh'
  BY <1>1, <1>9 DEF IInv, Fresh, Exists
<1>14. WithinLimit
  <2> DEFINE M == Members(n)
             limit == MemberLimit[unions[n].lv]
  <2>1. /\ M = MembersOf(unions[n]) /\ limit \in Nat /\ M \in SUBSET Users
        /\ agree => Cardinality(M) < limit
    BY <1>1, GuildType, GuildAssumption DEF IInv, Members, MembersOf, Audit, HasRoom
  <2>2. /\ d1.guild.lv = unions[n].lv /\ MembersOf(d1.guild) \subseteq M \cup {p}
        /\ ~agree => MembersOf(d1.guild) = M
    <3>1. Desk(n) \in Desks /\ Desk(n).guild = unions[n]
      BY <1>2 DEF DeskOK, Desk
    <3>2. QED
      BY <2>1, <3>1, AuditGrows DEF d1
  <2>3. LET e == AuditUser(d1, n, r, agree) IN
        /\ MembersOf(e.guild) \subseteq MembersOf(d1.guild) \cup {r}
        /\ ~agree => MembersOf(e.guild) = MembersOf(d1.guild)
    BY <1>3, AuditGrows DEF DeskOK
  <2>4. MembersOf(d1.guild) \in SUBSET Users /\ MembersOf(d.guild) \in SUBSET Users
    BY DEF MembersOf
  <2> DEFINE N == MembersOf(d1.guild)
             K == MembersOf(d.guild)
  <2>5. /\ N \in SUBSET Users /\ K \in SUBSET Users
        /\ N \subseteq M \cup {p} /\ (~agree => N = M)
        /\ K = N \/ ~(agree /\ N # M /\ Cardinality(N) >= limit)
        /\ K \subseteq N \cup {r} /\ (~agree => K = N)
    <3>1. CASE d = d1
      BY <2>2, <2>4, <3>1
    <3>2. CASE d # d1
      <4>1. d = AuditUser(d1, n, r, agree)
            /\ ~(agree /\ N # M /\ Cardinality(N) >= limit)
        BY <2>2, <3>2 DEF AuditNext, d
      <4>2. QED
        BY <2>2, <2>3, <2>4, <4>1
    <3>3. QED
      BY <3>1, <3>2
  <2>6. Members(n)' = K
    BY <1>1, <1>9 DEF IInv, TypeOK, Members, Exists, MembersOf
  <2> HIDE DEF M, N, K, limit
  <2>7. ASSUME agree PROVE Cardinality(K) <= limit
    <3>1. Cardinality(M) \in Nat /\ Cardinality(N) \in Nat /\ Cardinality(K) \in Nat
      BY <2>1, <2>5, OneMore
    <3>2. Cardinality(N) <= Cardinality(M) + 1
      BY <2>1, <2>5, SmallerSet, OneMore
    <3>3. Cardinality(K) <= Cardinality(N) + 1
      BY <2>5, SmallerSet, OneMore
    <3>4. CASE K = N
      BY <2>1, <2>7, <3>1, <3>2, <3>4
    <3>5. CASE N = M
      BY <2>1, <2>7, <3>1, <3>3, <3>5
    <3>6. CASE ~(Cardinality(N) >= limit)
      BY <2>1, <3>1, <3>3, <3>6
    <3>7. QED
      BY <2>5, <2>7, <3>4, <3>5, <3>6
  <2>8. ASSUME NEW m \in Ids \ {n} PROVE Members(m)' = Members(m)
    BY <1>1 DEF IInv, TypeOK, Members, Exists, MembersOf
  <2>9. Grows(n) => agree
    BY <2>5, <2>6 DEF Grows, M
  <2>10. Grows(n) => Cardinality(Members(n)') <= MemberLimit[unions[n].lv]
    BY <2>6, <2>7, <2>9 DEF limit
  <2>11. QED
    BY <2>8, <2>10 DEF WithinLimit, Grows
<1>15. QED
  BY <1>8, <1>10, <1>11, <1>12, <1>13, <1>14 DEF IInv

----------------------------------------------------------------------------
(* The other handlers *)

\* Coming and going, and what only reads.
LEMMA ComingStep ==
    ASSUME IInv, NEW p \in Users,
           Login(p) \/ OffLine(p) \/ Forget(p) \/ UnionInfo(p) \/ Asks(p)
    PROVE  IInv' /\ WithinLimit
<1>1. CASE Login(p)
  BY <1>1, Keep, Zenon DEF IInv, TypeOK, CopySafe, Login
<1>2. CASE OffLine(p)
  BY <1>2, Keep DEF IInv, TypeOK, CopySafe, OffLine, players
<1>3. CASE Forget(p)
  BY <1>3, Keep DEF IInv, TypeOK, CopySafe, Forget
<1>4. ASSUME NEW P \in SUBSET Users, copy' \in Refreshed(Load(P), p)
      PROVE  /\ copy' \in [Users -> {0, None} \cup Ids]
             /\ \A q \in Users : store[q] # 0 => copy'[q] \in {None, store[q]}
  <2>1. /\ Load(P) \in [Users -> {0, None} \cup Ids]
        /\ \A q \in Users : store[q] # 0 => Load(P)[q] \in {None, store[q]}
    BY LoadFacts
  <2>2. store \in [Users -> {0} \cup Ids]
    BY DEF IInv, TypeOK
  <2>3. QED
    BY <1>4, <2>1, <2>2 DEF Refreshed
<1>5. CASE UnionInfo(p)
  <2>1. PICK n \in Ids :
          copy' \in Refreshed(Load({p} \cup {q \in Members(n) : conn[q] = "comm"}), p)
    BY <1>5 DEF UnionInfo
  <2>2. {p} \cup {q \in Members(n) : conn[q] = "comm"} \in SUBSET Users
    BY DEF Members, MembersOf
  <2>3. /\ copy' \in [Users -> {0, None} \cup Ids]
        /\ \A q \in Users : store[q] # 0 => copy'[q] \in {None, store[q]}
    BY <2>1, <2>2, <1>4
  <2>4. QED
    BY <1>5, <2>3, Keep DEF IInv, TypeOK, CopySafe, UnionInfo
<1>6. CASE Asks(p)
  <2>1. /\ copy' \in [Users -> {0, None} \cup Ids]
        /\ \A q \in Users : store[q] # 0 => copy'[q] \in {None, store[q]}
    BY <1>6, <1>4 DEF Asks
  <2>2. QED
    BY <1>6, <2>1, Keep DEF IInv, TypeOK, CopySafe, Asks
<1>7. QED
  BY <1>1, <1>2, <1>3, <1>5, <1>6

LEMMA ApplyTypes ==
    ASSUME TypeOK, NEW p \in Users, NEW n \in Ids, Exists(n)
    PROVE  /\ CleanApply(p, n) \in [Ids -> Entry]
           /\ CleanAudit(p, n) \in Entry
           /\ NoApplications \in [Ids -> Entry]
           /\ AuditTime \in Entry /\ AuditTime # None
<1>1. AuditTime \in Left /\ None \in Entry
  BY GuildAssumption DEF Left, Entry
<1>2. QED
  BY <1>1, GuildType, NoneApart, GuildAssumption
     DEF TypeOK, CleanApply, CleanAudit, NoApplications, Entry

\* The guild's audit list is amended.
LEMMA WithAudit ==
    ASSUME IInv, NEW n \in Ids, Exists(n), NEW a \in [Users -> Entry],
           NEW g, g = [unions[n] EXCEPT !.audit = a]
    PROVE  /\ g \in Union /\ g.pos = unions[n].pos /\ g.chairman = unions[n].chairman
           /\ Led(g)
<1>1. g \in Union /\ g.pos = unions[n].pos /\ g.chairman = unions[n].chairman
  BY GuildType DEF IInv, Union
<1>2. QED
  BY <1>1, LedMeansOne DEF IInv, Led

\* The copy that an application was decided on, kept in memory.
LEMMA CheckedCopy ==
    ASSUME IInv, NEW p \in Users, NEW n \in Ids, NEW id, CheckApply(p, n, id)
    PROVE  /\ Exists(n) /\ store[p] = 0 /\ id = 0 /\ HasRoom(n)
           /\ [copy EXCEPT ![p] = id] \in [Users -> {0, None} \cup Ids]
           /\ \A q \in Users : store[q] # 0 => [copy EXCEPT ![p] = id][q] \in {None, store[q]}
<1>1. Exists(n) /\ id \in {Loaded(p), store[p]} /\ id = 0 /\ HasRoom(n)
  BY DEF CheckApply, MayJoin
<1>2. store[p] = 0
  BY <1>1, LoadedFacts
<1>3. QED
  BY <1>1, <1>2 DEF IInv, TypeOK, CopySafe

LEMMA WithMember ==
    ASSUME NEW g \in Union, NEW a \in [Users -> Entry], NEW b \in [Users -> -1..2],
           NEW h, h = [g EXCEPT !.audit = a, !.pos = b]
    PROVE  h \in Union /\ h.pos = b /\ h.chairman = g.chairman
BY DEF Union

LEMMA ApplyStep ==
    ASSUME IInv, NEW p \in Users, NEW n \in Ids, NEW id,
           ApplyRefused(p, n, id) \/ ApplyAuto(p, n, id) \/ ApplyAudit(p, n, id)
    PROVE  IInv' /\ WithinLimit
<1>1. CheckApply(p, n, id)
  BY DEF ApplyRefused, ApplyAuto, ApplyAudit
<1>2. /\ Exists(n) /\ store[p] = 0 /\ HasRoom(n)
      /\ [copy EXCEPT ![p] = id] \in [Users -> {0, None} \cup Ids]
      /\ \A q \in Users : store[q] # 0 => [copy EXCEPT ![p] = id][q] \in {None, store[q]}
  BY <1>1, CheckedCopy
<1>3. /\ CleanApply(p, n) \in [Ids -> Entry] /\ CleanAudit(p, n) \in Entry
      /\ NoApplications \in [Ids -> Entry] /\ AuditTime \in Entry
  BY <1>2, ApplyTypes DEF IInv
<1>4. apply \in [Users -> [Ids -> Entry]] /\ conn \in [Users -> {"off", "on", "comm"}]
  BY DEF IInv, TypeOK
<1> DEFINE amended(e) == [unions[n] EXCEPT !.audit = [@ EXCEPT ![p] = e]]
<1>5. ASSUME NEW e \in Entry
      PROVE  /\ amended(e) \in Union /\ amended(e).pos = unions[n].pos
             /\ amended(e).chairman = unions[n].chairman /\ Led(amended(e))
             /\ [unions EXCEPT ![n].audit[p] = e] = [unions EXCEPT ![n] = amended(e)]
  <2>1. [unions[n].audit EXCEPT ![p] = e] \in [Users -> Entry]
    BY <1>2, GuildType DEF IInv
  <2>2. amended(e) = [unions[n] EXCEPT !.audit = [unions[n].audit EXCEPT ![p] = e]]
    OBVIOUS
  <2>3. QED
    BY <1>2, <2>1, <2>2, WithAudit, ZenonT(60)
<1>6. CASE ApplyRefused(p, n, id)
  <2>1. unions' = [unions EXCEPT ![n] = amended(CleanAudit(p, n))]
    BY <1>3, <1>5, <1>6 DEF ApplyRefused
  <2>2. apply' \in [Users -> [Ids -> Entry]]
    BY <1>3, <1>4, <1>6 DEF ApplyRefused
  <2> DEFINE g == amended(CleanAudit(p, n))
  <2>3. g \in Union /\ Led(g) /\ g.pos = unions[n].pos
    BY <1>3, <1>5
  <2>4. unions' = [unions EXCEPT ![n] = g]
    BY <2>1
  <2> HIDE DEF g
  <2>5. \A q \in Users : g.pos[q] # NON <=> unions[n].pos[q] # NON
    BY <2>3
  <2>6. UNCHANGED <<ref, store, cooldown>> /\ copy' = [copy EXCEPT ![p] = id]
        /\ conn' \in [Users -> {"off", "on", "comm"}]
    BY <1>4, <1>6, <2>2 DEF ApplyRefused
  <2>7. QED
    BY <1>2, <2>2, <2>3, <2>4, <2>5, <2>6, Amend
<1>7. CASE ApplyAudit(p, n, id)
  <2>1. unions' = [unions EXCEPT ![n] = amended(AuditTime)]
    BY <1>3, <1>5, <1>7 DEF ApplyAudit
  <2>2. apply' \in [Users -> [Ids -> Entry]] /\ conn' \in [Users -> {"off", "on", "comm"}]
    BY <1>3, <1>4, <1>7 DEF ApplyAudit
  <2> DEFINE g == amended(AuditTime)
  <2>3. g \in Union /\ Led(g) /\ g.pos = unions[n].pos
    BY <1>3, <1>5
  <2>4. unions' = [unions EXCEPT ![n] = g]
    BY <2>1
  <2> HIDE DEF g
  <2>5. \A q \in Users : g.pos[q] # NON <=> unions[n].pos[q] # NON
    BY <2>3
  <2>6. UNCHANGED <<ref, store, cooldown>> /\ copy' = [copy EXCEPT ![p] = id]
        /\ conn' \in [Users -> {"off", "on", "comm"}]
    BY <1>4, <1>7, <2>2 DEF ApplyAudit
  <2>7. QED
    BY <1>2, <2>2, <2>3, <2>4, <2>5, <2>6, Amend
<1>8. CASE ApplyAuto(p, n, id)
  <2> DEFINE g == [unions[n] EXCEPT !.audit = [@ EXCEPT ![p] = CleanAudit(p, n)],
                                    !.pos = [@ EXCEPT ![p] = NORMAL]]
  <2>1. unions' = [unions EXCEPT ![n] = g]
    BY <1>8 DEF ApplyAuto
  <2>2. g \in Union /\ g.pos = [unions[n].pos EXCEPT ![p] = NORMAL]
        /\ g.chairman = unions[n].chairman
    <3>1. /\ unions[n] \in Union
          /\ [unions[n].audit EXCEPT ![p] = CleanAudit(p, n)] \in [Users -> Entry]
          /\ [unions[n].pos EXCEPT ![p] = NORMAL] \in [Users -> -1..2]
      BY <1>2, <1>3, GuildType DEF IInv
    <3>2. g = [unions[n] EXCEPT !.audit = [unions[n].audit EXCEPT ![p] = CleanAudit(p, n)],
                                !.pos = [unions[n].pos EXCEPT ![p] = NORMAL]]
      BY <3>1 DEF Union
    <3> DEFINE a == [unions[n].audit EXCEPT ![p] = CleanAudit(p, n)]
               b == [unions[n].pos EXCEPT ![p] = NORMAL]
    <3>3. g = [unions[n] EXCEPT !.audit = a, !.pos = b] /\ a \in [Users -> Entry]
          /\ b \in [Users -> -1..2]
      BY <3>1, <3>2
    <3> HIDE DEF g, a, b
    <3>4. g \in Union /\ g.pos = b /\ g.chairman = unions[n].chairman
      BY <3>1, <3>3 DEF Union
    <3>5. QED
      BY <3>4 DEF b
  <2> HIDE DEF g
  <2>3. apply' \in [Users -> [Ids -> Entry]] /\ conn' \in [Users -> {"off", "on", "comm"}]
    BY <1>3, <1>4, <1>8 DEF ApplyAuto
  <2>4. QED
    BY <1>2, <1>8, <2>1, <2>2, <2>3, Join DEF ApplyAuto
<1>9. QED
  BY <1>6, <1>7, <1>8

LEMMA CreateStep ==
    ASSUME IInv, NEW p \in Users, Create(p)
    PROVE  IInv' /\ WithinLimit
<1>2. PICK n \in Ids : n = ref + 1 /\ unions[n] = None /\ n # 0
  BY GuildAssumption DEF IInv, TypeOK, Fresh, Create, Ids
<1> DEFINE g == [pos |-> [q \in Users |-> IF q = p THEN CHAIRMAN ELSE NON],
                 chairman |-> p, autoAudit |-> TRUE, lv |-> 1,
                 audit |-> [q \in Users |-> None]]
<1>1. unions' = [unions EXCEPT ![n] = g] /\ store' = [store EXCEPT ![p] = n]
      /\ copy' = [copy EXCEPT ![p] = n] /\ ref' = n /\ UNCHANGED cooldown
      /\ store[p] = 0
  BY <1>2, LoadedFacts DEF Create, MayJoin
<1>3. g \in Union /\ Led(g) /\ MembersOf(g) = {p}
  BY GuildAssumption DEF Union, Entry, Led, MembersOf
<1>4. TypeOK'
  <2>1. ref' \in 0..MaxUnions
    BY <1>1, <1>2, GuildAssumption DEF Ids
  <2>2. apply' \in [Users -> [Ids -> Entry]] /\ conn' \in [Users -> {"off", "on", "comm"}]
    BY DEF IInv, TypeOK, Create, NoApplications, Entry
  <2> HIDE DEF g
  <2>3. QED
    BY <1>1, <1>2, <1>3, <2>1, <2>2 DEF IInv, TypeOK
<1> HIDE DEF g
<1>5. ASSUME NEW m \in Ids PROVE unions'[m] = IF m = n THEN g ELSE unions[m]
  BY <1>1, <1>2 DEF IInv, TypeOK
<1>6. g # None
  BY <1>3, NoneApart
<1>7. MembershipAgrees'
  <2>1. ASSUME NEW q \in Users, NEW m \in Ids PROVE q \in Members(m)' <=> store'[q] = m
    <3>1. Members(n)' = {p} /\ (m # n => Members(m)' = Members(m)) /\ Members(n) = {}
      BY <1>2, <1>3, <1>5, <1>6 DEF Members, MembersOf, Exists
    <3>2. store'[q] = IF q = p THEN n ELSE store[q]
      BY <1>1 DEF IInv, TypeOK
    <3>3. (q \in Members(m) <=> store[q] = m) /\ (q \in Members(n) <=> store[q] = n) /\ m # 0
      BY <1>2 DEF IInv, MembershipAgrees, Ids
    <3>4. QED
      BY <1>1, <3>1, <3>2, <3>3
  <2>2. QED
    BY <2>1 DEF MembershipAgrees
<1>8. CopySafe'
  BY <1>1 DEF IInv, TypeOK, CopySafe
<1>9. OneChairman'
  BY <1>3, <1>5 DEF IInv, OneChairman, Led, Exists
<1>10. Fresh'
  BY <1>1, <1>5, <1>2 DEF IInv, Fresh, Ids, TypeOK
<1>11. WithinLimit
  BY <1>2, <1>5 DEF WithinLimit, Grows, Members, MembersOf, Exists
<1>12. QED
  BY <1>4, <1>7, <1>8, <1>9, <1>10, <1>11 DEF IInv

\* Leaving, by oneself or by another's hand.
LEMMA QuitFacts ==
    ASSUME IInv, NEW p \in Users, CanQuit(p)
    PROVE  QuitFrom(p) \in Ids /\ p \in Members(QuitFrom(p)) /\ store[p] = QuitFrom(p)
<1>1. p \in Members(QuitFrom(p))
  BY DEF CanQuit
<1>2. QuitFrom(p) \in Ids
  BY <1>1 DEF Members, Exists
<1>3. QED
  BY <1>1, <1>2 DEF IInv, MembershipAgrees

LEMMA KickStep ==
    ASSUME IInv, NEW q \in Users, NEW p \in Users, NEW n \in Ids, Kick(q, p, n)
    PROVE  IInv' /\ WithinLimit
<1>1. QuitFrom(p) \in Ids /\ p \in Members(QuitFrom(p)) /\ store[p] = QuitFrom(p)
  BY QuitFacts DEF Kick
<1>2. /\ Load({q}) \in [Users -> {0, None} \cup Ids]
      /\ \A s \in Users : store[s] # 0 => Load({q})[s] \in {None, store[s]}
  BY LoadFacts
<1>3. copy' \in [Users -> {0, None} \cup Ids]
  BY <1>2 DEF Kick, CopyAfterQuit
<1>4. \A s \in Users : store'[s] # 0 => copy'[s] \in {None, store[s]}
  BY <1>2 DEF IInv, TypeOK, Kick, CopyAfterQuit, QuitUser
<1>5. conn' \in [Users -> {"off", "on", "comm"}]
  BY DEF IInv, TypeOK, Kick
<1>6. QED
  BY <1>1, <1>3, <1>4, <1>5, Leave DEF Kick

LEMMA OnlyOne ==
    ASSUME NEW S \in SUBSET Users, NEW p \in S, Cardinality(S) <= 1
    PROVE  S = {p}
<1>1. IsFiniteSet(S)
  BY GuildAssumption, FS_Subset
<1>2. SUFFICES ASSUME NEW q \in S, q # p PROVE FALSE
  OBVIOUS
<1>3. Cardinality({p, q}) = 2
  <2>1. IsFiniteSet({p}) /\ Cardinality({p}) = 1
    BY FS_Singleton
  <2>2. Cardinality({p} \cup {q}) = Cardinality({p}) + 1
    BY <1>2, <2>1, FS_AddElement
  <2>3. {p} \cup {q} = {p, q}
    OBVIOUS
  <2>4. QED
    BY <2>1, <2>2, <2>3
<1>4. Cardinality({p, q}) <= Cardinality(S)
  BY <1>1, <1>2, FS_Subset
<1>5. Cardinality(S) \in Nat
  BY <1>1, FS_CardinalityType
<1>6. QED
  BY <1>3, <1>4, <1>5

LEMMA ExitStep ==
    ASSUME IInv, NEW p \in Users, NEW n \in Ids, Exit(p, n)
    PROVE  IInv' /\ WithinLimit
<1>1. /\ QuitFrom(p) \in Ids /\ p \in Members(QuitFrom(p)) /\ store[p] = QuitFrom(p)
      /\ n = Loaded(p) /\ Exists(n)
  BY QuitFacts DEF Exit, InUnion
<1>2. QuitFrom(p) = n /\ p \in Members(n)
  BY <1>1, LoadedFacts, NoneApart DEF Ids
<1>3. /\ Load({p}) \in [Users -> {0, None} \cup Ids]
      /\ \A s \in Users : store[s] # 0 => Load({p})[s] \in {None, store[s]}
  BY LoadFacts
<1>4. copy' \in [Users -> {0, None} \cup Ids]
  BY <1>3 DEF Exit, CopyAfterQuit
<1>5. \A s \in Users : store'[s] # 0 => copy'[s] \in {None, store[s]}
  BY <1>3 DEF IInv, TypeOK, Exit, CopyAfterQuit, QuitUser
<1>6. conn' \in [Users -> {"off", "on", "comm"}] /\ cooldown' \in [Users -> 0..ApplyCD]
  BY GuildAssumption DEF IInv, TypeOK, Exit, QuitUser
<1>7. QuitUser(p) /\ UNCHANGED <<ref, apply>>
  BY DEF Exit
<1>8. CASE Cardinality(Members(n)) <= 1
  <2>1. Members(n) = {p}
    BY <1>2, <1>8, OnlyOne DEF Members, MembersOf
  <2>2. unions' = [unions EXCEPT ![n] = None]
    BY <1>2, <1>8 DEF Exit, IInv, TypeOK
  <2>3. store' = [s \in Users |-> IF s \in Members(n) THEN 0 ELSE store[s]]
    BY <2>1 DEF Exit, QuitUser, IInv, TypeOK
  <2>4. QED
    BY <1>1, <1>4, <1>5, <1>6, <1>7, <2>2, <2>3, Dissolve
<1>9. CASE ~(Cardinality(Members(n)) <= 1)
  <2>1. unions' = [unions EXCEPT ![n].pos[p] = NON]
    BY <1>2, <1>9 DEF Exit, IInv, TypeOK
  <2>2. QED
    BY <1>2, <1>4, <1>5, <1>6, <1>7, <2>1, Leave
<1>10. QED
  BY <1>8, <1>9

\* What the officers do, and the audit list: the guild is amended, and the
\* copies of some players are read in.
LEMMA Officers ==
    ASSUME IInv, NEW n \in Ids, Exists(n), NEW g \in Union, Led(g),
           \A p \in Users : g.pos[p] # NON <=> unions[n].pos[p] # NON,
           unions' = [unions EXCEPT ![n] = g],
           NEW P \in SUBSET Users, copy' = Load(P),
           UNCHANGED <<ref, store, cooldown, apply, conn>>
    PROVE  IInv' /\ WithinLimit
<1>1. /\ copy' \in [Users -> {0, None} \cup Ids]
      /\ \A p \in Users : store[p] # 0 => copy'[p] \in {None, store[p]}
  BY LoadFacts
<1>2. apply' \in [Users -> [Ids -> Entry]] /\ conn' \in [Users -> {"off", "on", "comm"}]
  BY DEF IInv, TypeOK
<1>3. QED
  BY <1>1, <1>2, Amend

\* A guild with other positions.
LEMMA WithPos ==
    ASSUME NEW g \in Union, NEW b \in [Users -> -1..2], NEW h, h = [g EXCEPT !.pos = b]
    PROVE  h \in Union /\ h.pos = b /\ h.chairman = g.chairman
BY DEF Union

LEMMA AuditListStep ==
    ASSUME IInv, NEW q \in Users, NEW n \in Ids, AuditList(q, n)
    PROVE  IInv' /\ WithinLimit
<1>1. Exists(n)
  BY DEF AuditList, InUnion
<1> DEFINE a == [p \in Users |-> IF unions[n].audit[p] = 0 THEN None ELSE unions[n].audit[p]]
           g == [unions[n] EXCEPT !.audit = a]
<1>2. a \in [Users -> Entry]
  BY <1>1, GuildType DEF IInv, Entry
<1>3. g \in Union /\ g.pos = unions[n].pos /\ Led(g)
  BY <1>1, <1>2, WithAudit
<1>4. unions' = [unions EXCEPT ![n] = g]
  BY DEF AuditList
<1> HIDE DEF g
<1>5. QED
  BY <1>1, <1>3, <1>4, Officers DEF AuditList

LEMMA SetAuditStep ==
    ASSUME IInv, NEW q \in Users, NEW n \in Ids, NEW isAuto \in BOOLEAN,
           SetAudit(q, n, isAuto)
    PROVE  IInv' /\ WithinLimit
<1>1. Exists(n)
  BY DEF SetAudit, InUnion
<1> DEFINE a == isAuto /\ unions[n].pos[q] > NORMAL
           g == [unions[n] EXCEPT !.autoAudit = a]
<1>2. a \in BOOLEAN
  OBVIOUS
<1>3. unions' = [unions EXCEPT ![n] = g]
  BY DEF SetAudit
<1> HIDE DEF a
<1>4. g \in Union /\ g.pos = unions[n].pos /\ g.chairman = unions[n].chairman
  BY <1>1, <1>2, GuildType DEF IInv, Union
<1>5. Led(g)
  BY <1>1, <1>4, LedMeansOne DEF IInv, Led
<1> HIDE DEF g
<1>6. QED
  BY <1>1, <1>3, <1>4, <1>5, Officers DEF SetAudit

\* Setting the position of one member to a lower one than the chairman's.
LEMMA OnePosition ==
    ASSUME IInv, NEW p \in Users, NEW q \in Users, NEW n \in Ids, Exists(n),
           NEW v \in {NORMAL, VICE}, SetPos(n, [r \in {p} |-> v]), FunctionDone(q, p)
    PROVE  IInv' /\ WithinLimit
<1> DEFINE b == [r \in Users |-> IF r = p /\ unions[n].pos[r] # NON THEN v ELSE unions[n].pos[r]]
           g == [unions[n] EXCEPT !.pos = b]
<1>1. b \in [Users -> -1..2]
  BY GuildType DEF IInv
<1>2. unions' = [unions EXCEPT ![n] = g]
  BY DEF SetPos
<1>3. \A r \in Users : /\ b[r] # NON <=> unions[n].pos[r] # NON
                       /\ b[r] = CHAIRMAN => unions[n].pos[r] = CHAIRMAN
  BY GuildType DEF IInv
<1> HIDE DEF b
<1>4. g \in Union /\ g.pos = b /\ g.chairman = unions[n].chairman
  BY <1>1, GuildType, WithPos DEF IInv
<1> HIDE DEF g
<1>5. Led(g)
  BY <1>3, <1>4, LedMeansOne DEF IInv, Led
<1>6. QED
  BY <1>2, <1>3, <1>4, <1>5, Officers DEF FunctionDone

\* A position is handed over by q to p, who was a member too.
LEMMA TransferStep ==
    ASSUME IInv, NEW q \in Users, NEW p \in Users, NEW n \in Ids, Transfer(q, p, n)
    PROVE  IInv' /\ WithinLimit
<1>1. Exists(n) /\ p \in Members(n) /\ unions[n].pos[p] # NON
  BY DEF Transfer, Function, InUnion, Members, MembersOf
<1> DEFINE i == unions[n].pos[q]
           b == [[unions[n].pos EXCEPT ![q] = NORMAL] EXCEPT ![p] = i]
           c == IF i = CHAIRMAN THEN p ELSE unions[n].chairman
           g == [unions[n] EXCEPT !.pos = b, !.chairman = c]
<1>2. unions[n] \in Union /\ unions[n].pos \in [Users -> -1..2] /\ unions[n].chairman \in Users
  BY <1>1, GuildType DEF IInv
<1>3. i \in {VICE, CHAIRMAN}
  BY <1>2 DEF Transfer, CanTransfer, Initiative
<1>4. b \in [Users -> -1..2] /\ c \in Users
  BY <1>2
<1>5. \A r \in Users : b[r] # NON <=> unions[n].pos[r] # NON
  BY <1>1, <1>2, <1>3
<1>6. \A r \in Users : b[r] = CHAIRMAN => c = r
  <2>1. \A r \in Users : unions[n].pos[r] = CHAIRMAN => unions[n].chairman = r
    BY <1>1 DEF IInv, OneChairman
  <2>2. QED
    BY <1>2, <1>3, <2>1
<1>7. unions' = [unions EXCEPT ![n] = g]
  BY DEF Transfer, Initiative
<1> HIDE DEF b, c
<1>8. g \in Union /\ g.pos = b /\ g.chairman = c
  BY <1>2, <1>4 DEF Union
<1> HIDE DEF g
<1>9. QED
  <2>1. Led(g)
    BY <1>6, <1>8 DEF Led
  <2>2. \A r \in Users : g.pos[r] # NON <=> unions[n].pos[r] # NON
    BY <1>5, <1>8
  <2>3. copy' = Load({q, p}) /\ UNCHANGED <<ref, store, cooldown, apply, conn>>
    BY DEF Transfer, FunctionDone
  <2>4. QED
    BY <1>1, <1>7, <1>8, <2>1, <2>2, <2>3, Officers

LEMMA FunctionStep ==
    ASSUME IInv, NEW q \in Users, NEW p \in Users, NEW n \in Ids,
           Relieve(q, p, n) \/ Appoint(q, p, n) \/ Resign(q, n)
    PROVE  IInv' /\ WithinLimit
<1>1. Exists(n)
  BY DEF Relieve, Appoint, Resign, Function, InUnion
<1>2. CASE Relieve(q, p, n)
  BY <1>1, <1>2, OnePosition DEF Relieve
<1>3. CASE Appoint(q, p, n)
  BY <1>1, <1>3, OnePosition DEF Appoint
<1>4. CASE Resign(q, n)
  BY <1>1, <1>4, OnePosition DEF Resign
<1>5. QED
  BY <1>2, <1>3, <1>4

----------------------------------------------------------------------------
(* The day's end, and the process *)

LEMMA WithLevel ==
    ASSUME NEW g \in Union, NEW l \in Levels, NEW h, h = [g EXCEPT !.lv = l]
    PROVE  h \in Union /\ h.pos = g.pos /\ h.chairman = g.chairman
BY DEF Union

\* The daily succession: the members stay, and one at most leads.
LEMMA AssignedFacts ==
    ASSUME NEW g \in Union, Led(g), NEW h \in Assigned(g)
    PROVE  h \in Union /\ Led(h) /\ \A p \in Users : h.pos[p] # NON <=> g.pos[p] # NON
<1>1. g.pos \in [Users -> -1..2] /\ g.chairman \in Users
  BY DEF Union
<1>2. CASE h = g
  BY <1>2
<1>3. CASE h # g
  <2>1. PICK p \in Heirs(g) \ {g.chairman} :
          /\ g.chairman \in MembersOf(g)
          /\ h = [g EXCEPT !.pos = [[@ EXCEPT ![g.chairman] = NORMAL] EXCEPT ![p] = CHAIRMAN],
                           !.chairman = p]
    BY <1>3 DEF Assigned
  <2> DEFINE b == [[g.pos EXCEPT ![g.chairman] = NORMAL] EXCEPT ![p] = CHAIRMAN]
  <2>2. p \in Users /\ g.pos[p] # NON /\ g.pos[g.chairman] # NON
    BY <2>1 DEF Heirs, MembersOf
  <2>3. b \in [Users -> -1..2] /\ \A r \in Users : b[r] # NON <=> g.pos[r] # NON
    BY <1>1, <2>2
  <2>4. \A r \in Users : b[r] = CHAIRMAN => r = p
    BY <1>1, <2>2 DEF Led
  <2>5. h = [g EXCEPT !.pos = b, !.chairman = p]
    BY <2>1
  <2> HIDE DEF b
  <2>6. h \in Union /\ h.pos = b /\ h.chairman = p
    BY <2>2, <2>3, <2>5 DEF Union
  <2>7. QED
    BY <2>3, <2>4, <2>6 DEF Led
<1>4. QED
  BY <1>2, <1>3

LEMMA LevelUpStep ==
    ASSUME IInv, NEW p \in Users, LevelUp(p)
    PROVE  IInv' /\ WithinLimit
<1>1. /\ copy' = Load({p})
      /\ UNCHANGED <<ref, store, cooldown, apply, conn>>
  BY DEF LevelUp
<1>2. /\ Load({p}) \in [Users -> {0, None} \cup Ids]
      /\ \A s \in Users : store[s] # 0 => Load({p})[s] \in {None, store[s]}
  BY LoadFacts
<1>3. CASE unions' = unions
  BY <1>1, <1>2, <1>3, Keep DEF IInv, TypeOK
<1>4. CASE unions' # unions
  <2>1. PICK n : n = Loaded(p)
    OBVIOUS
  <2>2. Exists(n) /\ \E g \in Raised(unions[n]) : unions' = [unions EXCEPT ![n] = g]
    BY <1>4, <2>1 DEF LevelUp
  <2>3. PICK g \in Raised(unions[n]) : unions' = [unions EXCEPT ![n] = g]
    BY <2>2
  <2>4. /\ n \in Ids /\ unions[n] \in Union /\ Led(unions[n])
        /\ unions[n].lv \in Levels
    BY <2>2, GuildType, LedMeansOne DEF IInv, Exists
  <2>5. g \in Union /\ g.pos = unions[n].pos /\ g.chairman = unions[n].chairman
    BY <2>3, <2>4, WithLevel DEF Raised
  <2>6. Led(g)
    BY <2>4, <2>5 DEF Led
  <2>7. QED
    BY <1>1, <1>2, <2>2, <2>3, <2>4, <2>5, <2>6, Amend DEF IInv, TypeOK
<1>5. QED
  BY <1>3, <1>4

LEMMA DayStep ==
    ASSUME IInv, NEW n \in Ids, Daily(n) \/ Dismiss(n)
    PROVE  IInv' /\ WithinLimit
<1>1. /\ Exists(n) /\ unions[n] \in Union /\ Led(unions[n])
      /\ unions[n].lv \in Levels
  BY GuildType, LedMeansOne DEF IInv, Daily, Dismiss
<1>2. CASE Daily(n)
  <2>6. PICK h \in Lowered(unions[n]) :
          \E g \in Assigned(h) : unions' = [unions EXCEPT ![n] = g]
    BY <1>2 DEF Daily
  <2>1. PICK g \in Assigned(h) : unions' = [unions EXCEPT ![n] = g]
    BY <2>6
  <2>2. h \in Union /\ h.pos = unions[n].pos /\ h.chairman = unions[n].chairman
    <3>1. CASE h = unions[n]
      BY <1>1, <3>1
    <3>2. CASE h # unions[n]
      <4>1. unions[n].lv > 1 /\ h = [unions[n] EXCEPT !.lv = unions[n].lv - 1]
        BY <2>6, <3>2 DEF Lowered
      <4>2. QED
        BY <1>1, <4>1, WithLevel, GuildAssumption
    <3>3. QED
      BY <3>1, <3>2
  <2>3. Led(h)
    BY <1>1, <2>2 DEF Led
  <2>4. g \in Union /\ Led(g) /\ \A p \in Users : g.pos[p] # NON <=> unions[n].pos[p] # NON
    BY <2>2, <2>3, AssignedFacts
  <2>5. /\ Load(Members(n)) \in [Users -> {0, None} \cup Ids]
        /\ \A s \in Users : store[s] # 0 => Load(Members(n))[s] \in {None, store[s]}
    <3>1. Members(n) \in SUBSET Users
      BY DEF Members, MembersOf
    <3>2. QED
      BY <3>1, LoadFacts
  <2>7. QED
    BY <1>1, <1>2, <2>1, <2>4, <2>5, Amend DEF Daily, IInv, TypeOK
<1>3. CASE Dismiss(n)
  <2>1. copy' \in [Users -> {0, None} \cup Ids]
    BY <1>3 DEF Dismiss, IInv, TypeOK
  <2>2. \A p \in Users : store'[p] # 0 => copy'[p] \in {None, store[p]}
    BY <1>3 DEF Dismiss, IInv, TypeOK, CopySafe
  <2>3. QED
    BY <1>1, <1>3, <2>1, <2>2, Dissolve DEF Dismiss, IInv, TypeOK
<1>4. QED
  BY <1>2, <1>3

LEMMA RestartStep ==
    ASSUME IInv, Restart
    PROVE  IInv' /\ WithinLimit
<1>1. conn' \in [Users -> {"off", "on", "comm"}]
  BY DEF Restart
<1>2. QED
  BY <1>1, Keep DEF IInv, TypeOK, Restart

LEMMA OlderType ==
    ASSUME NEW t \in Entry
    PROVE  Older(t) \in Entry
BY GuildAssumption, NoneApart DEF Entry, Left, Older

LEMMA TickStep ==
    ASSUME IInv, Tick
    PROVE  IInv' /\ WithinLimit
<1> DEFINE aged(n) == [unions[n] EXCEPT !.audit = [p \in Users |-> Older(unions[n].audit[p])]]
<1>1. ASSUME NEW n \in Ids, Exists(n)
      PROVE  /\ aged(n) \in Union /\ aged(n).pos = unions[n].pos
             /\ aged(n).chairman = unions[n].chairman
  <2> DEFINE a == [p \in Users |-> Older(unions[n].audit[p])]
  <2>1. a \in [Users -> Entry]
    BY <1>1, GuildType, OlderType DEF IInv
  <2>2. aged(n) = [unions[n] EXCEPT !.audit = a]
    OBVIOUS
  <2> HIDE DEF a
  <2>3. QED
    BY <1>1, <2>1, <2>2, WithAudit
<1>2. unions' = [n \in Ids |-> IF unions[n] = None THEN None ELSE aged(n)]
  BY DEF Tick
<1> HIDE DEF aged
<1>3. ASSUME NEW n \in Ids
      PROVE  /\ Exists(n) <=> Exists(n)'
             /\ Exists(n) => unions'[n] = aged(n)
             /\ Members(n)' = Members(n)
  BY <1>1, <1>2, NoneApart DEF Exists, Members, MembersOf
<1>4. TypeOK'
  <2>1. unions' \in [Ids -> Union \cup {None}]
    BY <1>1, <1>2 DEF Exists
  <2>2. apply' \in [Users -> [Ids -> Entry]]
    BY OlderType DEF Tick, IInv, TypeOK
  <2>3. ASSUME NEW c \in 0..ApplyCD PROVE c = 0 \/ c - 1 \in 0..ApplyCD
    BY GuildAssumption
  <2>5. 0 \in 0..ApplyCD
    BY GuildAssumption
  <2>6. cooldown' \in [Users -> 0..ApplyCD]
    BY <2>3, <2>5 DEF Tick, IInv, TypeOK
  <2>4. QED
    BY <2>1, <2>2, <2>6 DEF Tick, IInv, TypeOK
<1>5. MembershipAgrees' /\ CopySafe'
  BY <1>3 DEF Tick, IInv, MembershipAgrees, CopySafe
<1>6. OneChairman'
  BY <1>1, <1>3 DEF IInv, OneChairman
<1>7. Fresh'
  BY <1>3 DEF Tick, IInv, Fresh, Exists
<1>8. WithinLimit
  BY <1>3 DEF WithinLimit, Grows
<1>9. QED
  BY <1>4, <1>5, <1>6, <1>7, <1>8 DEF IInv

----------------------------------------------------------------------------
(* The theorems *)

LEMMA Initially == Init => IInv
<1> SUFFICES ASSUME Init PROVE IInv
  OBVIOUS
<1>1. TypeOK
  BY GuildAssumption DEF Init, TypeOK, Entry
<1>2. \A n \in Ids : ~Exists(n) /\ n # 0
  BY DEF Init, Exists, Ids
<1>3. QED
  BY <1>1, <1>2 DEF Init, IInv, MembershipAgrees, Members, CopySafe, OneChairman, Fresh

LEMMA Preserved == IInv /\ [Next]_vars => IInv' /\ WithinLimit
<1> SUFFICES ASSUME IInv, [Next]_vars PROVE IInv' /\ WithinLimit
  OBVIOUS
<1>1. CASE UNCHANGED vars
  BY <1>1, Keep DEF vars, players, IInv, TypeOK, CopySafe
<1>2. ASSUME NEW p \in Users,
             \/ Login(p) \/ OffLine(p) \/ Forget(p) \/ UnionInfo(p) \/ Asks(p) \/ Create(p)
             \/ LevelUp(p)
      PROVE  IInv' /\ WithinLimit
  BY <1>2, ComingStep, CreateStep, LevelUpStep
<1>3. ASSUME NEW p \in Users, NEW n \in Ids, NEW id \in {0} \cup Ids,
             ApplyRefused(p, n, id) \/ ApplyAuto(p, n, id) \/ ApplyAudit(p, n, id)
      PROVE  IInv' /\ WithinLimit
  BY <1>3, ApplyStep
<1>4. ASSUME NEW p \in Users, NEW n \in Ids, NEW r \in Users, NEW t \in Users,
             NEW agree \in BOOLEAN, Audit(p, n, r, t, agree)
      PROVE  IInv' /\ WithinLimit
  BY <1>4, AuditStep
<1>5. ASSUME NEW p \in Users, NEW n \in Ids, NEW isAuto \in BOOLEAN,
             AuditList(p, n) \/ SetAudit(p, n, isAuto) \/ Exit(p, n)
      PROVE  IInv' /\ WithinLimit
  BY <1>5, AuditListStep, SetAuditStep, ExitStep
<1>6. ASSUME NEW p \in Users, NEW n \in Ids, NEW r \in Users,
             \/ Kick(p, r, n) \/ Relieve(p, r, n) \/ Transfer(p, r, n) \/ Appoint(p, r, n)
             \/ Resign(p, n)
      PROVE  IInv' /\ WithinLimit
  BY <1>6, KickStep, TransferStep, FunctionStep
<1>7. ASSUME NEW n \in Ids, Daily(n) \/ Dismiss(n)
      PROVE  IInv' /\ WithinLimit
  BY <1>7, DayStep
<1>8. ASSUME Restart \/ Tick PROVE IInv' /\ WithinLimit
  BY <1>8, RestartStep, TickStep
<1>9. QED
  BY <1>1, <1>2, <1>3, <1>4, <1>5, <1>6, <1>7, <1>8 DEF Next

LEMMA Always == Spec => []IInv
BY Initially, Preserved, PTL DEF Spec

\* The variables keep their types, for any players and levels.
THEOREM TypeCorrect == Spec => []TypeOK
<1>1. IInv => TypeOK
  BY DEF IInv
<1>2. QED
  BY <1>1, Always, PTL

\* The guild's list and the player's record of a membership agree after every
\* handler of UnionServer, whichever copies are in memory.
THEOREM Membership == Spec => []MembershipAgrees
<1>1. IInv => MembershipAgrees
  BY DEF IInv
<1>2. QED
  BY <1>1, Always, PTL

\* The copy in memory, on which a joining is decided, never shows a member as
\* free.
THEOREM SafeCopies == Spec => []CopySafe
<1>1. IInv => CopySafe
  BY DEF IInv
<1>2. QED
  BY <1>1, Always, PTL

\* At most one member has the chairman's position, and he is the one
\* UNION_FIELD_CHAIRMAN names.
THEOREM SingleChairman == Spec => []OneChairman
<1>1. IInv => OneChairman
  BY DEF IInv
<1>2. QED
  BY <1>1, Always, PTL

\* Whatever the door, and however many an officer agrees to at once, no guild
\* grows past the number of members its level allows.
THEOREM LimitKept == Spec => GrowsWithinLimit
<1>1. IInv /\ [Next]_vars => WithinLimit
  BY Preserved
<1>2. WithinLimit <=> \A n \in Ids : Grows(n) =>
                        Cardinality(Members(n)') <= MemberLimit[unions[n].lv]
  BY DEF WithinLimit
<1>3. QED
  BY <1>1, <1>2, Always, PTL DEF Spec, GrowsWithinLimit
============================================================================
