------------------------------- MODULE Guild -------------------------------
(***************************************************************************)
(* The guilds of UnionServer: who is a member, who waits on the audit      *)
(* list, who leads, and what each player's own record says about it.       *)
(* (The code says "union", a reserved word of TLA+.)                       *)
(*                                                                         *)
(* A membership is written twice, in the guild's member list and in the    *)
(* player's USER_UNION_ID; an application too, in the guild's audit list   *)
(* and in the player's list.  The player's record has a third copy, in the *)
(* CGameUser in memory, while other paths write Redis only.  The guild's   *)
(* own data is written through, so its memory and Redis are one here.      *)
(***************************************************************************)
EXTENDS Integers, FiniteSets

CONSTANTS
    Users,            \* players
    MaxUnions,        \* guilds that may ever be created
    MemberLimit,      \* UnionLevelItem, by level: how many members
    ViceChairmanNum,  \* UnionLevelItem, by level: how many vice-chairmen
    AuditTime,        \* how long an application stands
    ApplyCD,          \* how long one may not apply after leaving
    MaxPending,       \* bound: applications on record at once
    None              \* no guild, no copy, no entry

Ids == 1..MaxUnions
Levels == DOMAIN MemberLimit

\* A time stamp is modelled by the time left until it, 0 once it is past.  The
\* one second it names, at which AuditList takes it for past and auditUser does
\* not, is not told apart.
Left == 0..AuditTime
Entry == Left \cup {None}

ASSUME GuildAssumption ==
    /\ MaxUnions \in Nat
    /\ AuditTime \in Nat \ {0} /\ ApplyCD \in Nat \ {0}
    /\ MaxPending \in Nat
    /\ IsFiniteSet(Users)
    /\ 1 \in Levels /\ Levels \subseteq Nat \ {0}
    /\ \A l \in Levels : l > 1 => l - 1 \in Levels
    /\ MemberLimit \in [Levels -> Nat] /\ ViceChairmanNum \in [Levels -> Nat]
    /\ None \notin Users /\ None \notin Int

\* EUnionPosition
NON == -1
NORMAL == 0
VICE == 1
CHAIRMAN == 2

\* CUnionModel: m_MemberMap as pos, UNION_FIELD_CHAIRMAN, _AUTOAUDIT, _LV and
\* m_AuditMap
Union == [pos : [Users -> NON..CHAIRMAN], chairman : Users, autoAudit : BOOLEAN,
          lv : Levels, audit : [Users -> Entry]]

ASSUME NoneAssumption == None \notin Union

VARIABLES
    unions,    \* CUnionManager::m_UnionMap
    ref,       \* SRV_FD_UNIONREF, the last id given
    store,     \* USER_UNION_ID in Redis
    copy,      \* USER_UNION_ID in the CGameUser in memory, None without one
    cooldown,  \* USER_UNION_APPLYUNIONSTAMP
    apply,     \* each player's applications (m_MapApplyInfo)
    conn       \* "off", "on", or "comm" when CKxCommManager has the player

players == <<store, copy, cooldown, apply>>
vars == <<unions, ref, players, conn>>

TypeOK ==
    /\ unions \in [Ids -> Union \cup {None}]
    /\ ref \in 0..MaxUnions
    /\ store \in [Users -> {0} \cup Ids]
    /\ copy \in [Users -> {0, None} \cup Ids]
    /\ cooldown \in [Users -> 0..ApplyCD]
    /\ apply \in [Users -> [Ids -> Entry]]
    /\ conn \in [Users -> {"off", "on", "comm"}]

Init ==
    /\ unions = [n \in Ids |-> None]
    /\ ref = 0
    /\ store = [p \in Users |-> 0]
    /\ copy = [p \in Users |-> None]
    /\ cooldown = [p \in Users |-> 0]
    /\ apply = [p \in Users |-> [n \in Ids |-> None]]
    /\ conn = [p \in Users |-> "off"]

----------------------------------------------------------------------------
(* Helpers *)

Exists(n) == n \in Ids /\ unions[n] # None
MembersOf(g) == {p \in Users : g.pos[p] # NON}
Members(n) == IF Exists(n) THEN MembersOf(unions[n]) ELSE {}
HasRoom(n) == Cardinality(Members(n)) < MemberLimit[unions[n].lv]
Online(p) == conn[p] # "off"

\* What getGameUser(p) finds: the copy in memory, or one loaded from Redis.
Loaded(p) == IF copy[p] = None THEN store[p] ELSE copy[p]
\* The copies after getGameUser has been called for the players of P
Load(P) == [p \in Users |-> IF p \in P THEN Loaded(p) ELSE copy[p]]

NoApplications == [n \in Ids |-> None]

\* A request of the player p in the guild that p's copy names
InUnion(p, n) == Online(p) /\ n = Loaded(p) /\ Exists(n)

----------------------------------------------------------------------------
(* Coming and going of a player *)

\* processLoginUnionService: refreshModels, then addKxComm for the members and
\* the applicants of a guild.
Login(p) ==
    /\ ~Online(p)
    /\ copy' = [copy EXCEPT ![p] = store[p]]
    /\ conn' = [conn EXCEPT ![p] =
                  IF Exists(store[p]) \/ \E n \in Ids : Exists(n) /\ apply[p][n] # None
                  THEN "comm" ELSE "on"]
    /\ UNCHANGED <<unions, ref, store, cooldown, apply>>

\* ProcessUserOffLine: delKxComm, and removeGameUser with its delay.
OffLine(p) ==
    /\ Online(p)
    /\ conn' = [conn EXCEPT ![p] = "off"]
    /\ UNCHANGED <<unions, ref, players>>

\* The delayed removal of the data (module GameUsers).  Nothing on this server
\* calls it off, so it may also come after the player is back.
Forget(p) ==
    /\ copy[p] # None
    /\ copy' = [copy EXCEPT ![p] = None]
    /\ UNCHANGED <<unions, ref, store, cooldown, apply, conn>>

\* updateUserUnionInfo reads Redis again on the first request of a day.
Refreshed(c, p) == {c, [c EXCEPT ![p] = store[p]]}

\* processUnionInfoService of a member.  The list of those on line loads them.
UnionInfo(p) ==
    /\ \E n \in Ids :
          /\ InUnion(p, n)
          /\ copy' \in Refreshed(Load({p} \cup {q \in Members(n) : conn[q] = "comm"}), p)
    /\ conn' = [conn EXCEPT ![p] = "comm"]
    /\ UNCHANGED <<unions, ref, store, cooldown, apply>>

\* Any other request loads the player (getUnionModel), and some refresh him
\* (processWelfareService).
Asks(p) ==
    /\ Online(p)
    /\ copy' \in Refreshed(Load({p}), p)
    /\ UNCHANGED <<unions, ref, store, cooldown, apply, conn>>

----------------------------------------------------------------------------
(* Creating, applying *)

\* checkCreate and checkApply on the player
MayJoin(p, id) == id = 0 /\ cooldown[p] = 0

\* processCreateService
Create(p) ==
    LET n == ref + 1 IN
    /\ Online(p) /\ MayJoin(p, Loaded(p)) /\ ref < MaxUnions
    /\ ref' = n
    /\ unions' = [unions EXCEPT ![n] =
                    [pos |-> [q \in Users |-> IF q = p THEN CHAIRMAN ELSE NON],
                     chairman |-> p, autoAudit |-> TRUE, lv |-> 1,
                     audit |-> [q \in Users |-> None]]]
    /\ apply' = [apply EXCEPT ![p] = NoApplications]
    /\ store' = [store EXCEPT ![p] = n]
    /\ copy' = [copy EXCEPT ![p] = n]
    /\ conn' = [conn EXCEPT ![p] = "comm"]
    /\ UNCHANGED cooldown

\* The loop of checkApply over the applications, by ascending guild: what has
\* expired goes from the player's list and, whichever guild it was for, from
\* the audit list of n; it ends at a standing application to n.
Standing(p, n) == apply[p][n] \notin {None, 0}
Expired(p, n) ==
    {m \in Ids : apply[p][m] = 0 /\ (Standing(p, n) => m < n)}
CleanApply(p, n) == [m \in Ids |-> IF m \in Expired(p, n) THEN None ELSE apply[p][m]]
CleanAudit(p, n) == IF Expired(p, n) = {} THEN unions[n].audit[p] ELSE None

\* checkApply for a copy of the player with id as its guild, refreshed or not
CheckApply(p, n, id) ==
    /\ Online(p) /\ Exists(n)
    /\ id \in {Loaded(p), store[p]}
    /\ HasRoom(n)
    /\ MayJoin(p, id)

\* processApplyService, the applicant being refused after the loop: a standing
\* application, or too many on one day.
ApplyRefused(p, n, id) ==
    /\ CheckApply(p, n, id)
    /\ unions' = [unions EXCEPT ![n].audit[p] = CleanAudit(p, n)]
    /\ apply' = [apply EXCEPT ![p] = CleanApply(p, n)]
    /\ copy' = [copy EXCEPT ![p] = id]
    /\ UNCHANGED <<ref, store, cooldown, conn>>

\* processApplyService of a guild that takes everyone
ApplyAuto(p, n, id) ==
    /\ CheckApply(p, n, id) /\ ~Standing(p, n)
    /\ unions[n].autoAudit
    /\ unions' = [unions EXCEPT ![n].audit[p] = CleanAudit(p, n), ![n].pos[p] = NORMAL]
    /\ store' = [store EXCEPT ![p] = n]
    /\ copy' = [copy EXCEPT ![p] = n]
    /\ apply' = [apply EXCEPT ![p] = NoApplications]
    /\ conn' = [conn EXCEPT ![p] = "comm"]
    /\ UNCHANGED <<ref, cooldown>>

\* Applications some record still holds
Pending == {e \in Users \X Ids :
              apply[e[1]][e[2]] # None \/ (Exists(e[2]) /\ unions[e[2]].audit[e[1]] # None)}

\* processApplyService of a guild that audits
ApplyAudit(p, n, id) ==
    /\ CheckApply(p, n, id) /\ ~Standing(p, n)
    /\ ~unions[n].autoAudit
    /\ Cardinality(Pending) < MaxPending
    /\ unions' = [unions EXCEPT ![n].audit[p] = AuditTime]
    /\ apply' = [apply EXCEPT ![p] = [CleanApply(p, n) EXCEPT ![n] = AuditTime]]
    /\ copy' = [copy EXCEPT ![p] = id]
    /\ conn' = [conn EXCEPT ![p] = "comm"]
    /\ UNCHANGED <<ref, store, cooldown>>

----------------------------------------------------------------------------
(* Auditing *)

\* processAuditListService forgets what has run out.
AuditList(q, n) ==
    /\ InUnion(q, n)
    /\ unions' = [unions EXCEPT ![n].audit =
                    [p \in Users |-> IF @[p] = 0 THEN None ELSE @[p]]]
    /\ copy' = Load({q})
    /\ UNCHANGED <<ref, store, cooldown, apply, conn>>

\* The state auditUser works on, and the state after it.  The applicant is
\* always loaded: getGameUser never returns NULL for a known player.
Desk(n) == [guild |-> unions[n], store |-> store, copy |-> copy, apply |-> apply]

\* Altered: whether the applicant is already in a guild is not asked.
AuditUnasked(d, n, p, agree) ==
    IF d.guild.audit[p] = None \/ d.guild.audit[p] = 0 \/ ~agree
    THEN [d EXCEPT !.guild.audit[p] = None]
    ELSE [d EXCEPT !.guild.audit[p] = None, !.copy[p] = n, !.store[p] = n,
                   !.guild.pos[p] = NORMAL, !.apply[p] = NoApplications]

\* Altered: the applicant is always written as if off line, to Redis only.
AuditRedisOnly(d, n, p, agree) ==
    IF d.guild.audit[p] \in {None, 0} \/ ~agree \/ d.store[p] # 0
    THEN [d EXCEPT !.guild.audit[p] = None]
    ELSE [d EXCEPT !.guild.audit[p] = None, !.store[p] = n,
                   !.guild.pos[p] = NORMAL, !.apply[p] = NoApplications]

AuditUser(d, n, p, agree) ==
    LET struck == [d EXCEPT !.guild.audit[p] = None]
        loaded == IF d.copy[p] = None THEN d.store[p] ELSE d.copy[p]
    IN  IF d.guild.audit[p] = None THEN d
        ELSE IF d.guild.audit[p] = 0 THEN struck
        ELSE IF ~agree THEN [struck EXCEPT !.copy[p] = loaded, !.apply[p][n] = None]
        ELSE IF loaded # 0 THEN [struck EXCEPT !.copy[p] = loaded]
        ELSE [struck EXCEPT !.copy[p] = n, !.store[p] = n, !.guild.pos[p] = NORMAL,
                            !.apply[p] = NoApplications]

\* Altered: the loop does not count.
AuditAll(d, n, p, agree) == AuditUser(d, n, p, agree)

\* The loop of processAuditService ends when the guild has become full.  A
\* longer list of names is a sequence of such steps.
AuditNext(d, n, p, agree) ==
    IF agree /\ MembersOf(d.guild) # Members(n)
             /\ Cardinality(MembersOf(d.guild)) >= MemberLimit[d.guild.lv]
    THEN d ELSE AuditUser(d, n, p, agree)

Audit(q, n, p, r, agree) ==
    LET d == AuditNext(AuditUser(Desk(n), n, p, agree), n, r, agree)
    IN  /\ InUnion(q, n)
        /\ unions[n].pos[q] >= VICE
        /\ agree => HasRoom(n)
        /\ unions' = [unions EXCEPT ![n] = d.guild]
        /\ store' = d.store
        /\ copy' = [d.copy EXCEPT ![q] = IF @ = None THEN d.store[q] ELSE @]
        /\ apply' = d.apply
        /\ UNCHANGED <<ref, cooldown, conn>>

\* processSetAuditService.  The field is set to 0 where it was to be read, and
\* before the position is looked at.
SetAudit(q, n, isAuto) ==
    /\ InUnion(q, n)
    /\ unions' = [unions EXCEPT ![n].autoAudit = isAuto /\ unions[n].pos[q] > NORMAL]
    /\ copy' = Load({q})
    /\ UNCHANGED <<ref, store, cooldown, apply, conn>>

----------------------------------------------------------------------------
(* Leaving, and the other functions of the officers *)

\* CUnionHelper::quitUnion.  A player without a connection object counts as off
\* line: Redis is read and written, and a copy in memory stays as it is.
QuitFrom(p) == IF conn[p] = "comm" THEN Loaded(p) ELSE store[p]
CanQuit(p) == p \in Members(QuitFrom(p))
CopyAfterQuit(c, p) == IF conn[p] = "comm" THEN [c EXCEPT ![p] = 0] ELSE c
QuitUser(p) ==
    /\ store' = [store EXCEPT ![p] = 0]
    /\ cooldown' = [cooldown EXCEPT ![p] = ApplyCD]

\* processExitService
Exit(p, n) ==
    LET last == Cardinality(Members(n)) <= 1
        from == QuitFrom(p)
    IN  /\ InUnion(p, n) /\ CanQuit(p)
        /\ ~last => unions[n].pos[p] # CHAIRMAN
        /\ unions' = [m \in Ids |-> IF m = n /\ last THEN None
                                    ELSE IF m = from THEN [unions[m] EXCEPT !.pos[p] = NON]
                                    ELSE unions[m]]
        /\ QuitUser(p)
        /\ copy' = CopyAfterQuit(Load({p}), p)
        /\ conn' = [conn EXCEPT ![p] = "on"]
        /\ UNCHANGED <<ref, apply>>

CanKick(initiative, passive) ==
    \/ initiative >= CHAIRMAN
    \/ initiative >= VICE /\ passive < VICE
CanRelieve(initiative, passive) ==
    initiative >= CHAIRMAN /\ passive > NORMAL /\ passive < CHAIRMAN
CanTransfer(initiative, passive) ==
    \/ initiative >= CHAIRMAN
    \/ initiative >= VICE /\ passive < VICE
CanAppoint(initiative, passive) == initiative >= CHAIRMAN /\ passive < VICE

ViceChairmen(g) == {p \in Users : g.pos[p] = VICE}

\* processFunctionService: q acts on the member p of q's guild n.
Function(q, p, n) == InUnion(q, n) /\ p \in Members(n)
Initiative(q, n) == unions[n].pos[q]

Kick(q, p, n) ==
    LET from == QuitFrom(p) IN
    /\ Function(q, p, n)
    /\ CanKick(Initiative(q, n), unions[n].pos[p])
    /\ CanQuit(p)
    /\ unions' = [unions EXCEPT ![from].pos[p] = NON]
    /\ QuitUser(p)
    /\ copy' = [CopyAfterQuit(Load({q}), p) EXCEPT ![p] = IF @ = None THEN 0 ELSE @]
    /\ UNCHANGED <<ref, apply, conn>>

\* The rest only sets positions; sendBeFunctionInfo loads the other player.
SetPos(n, pos) ==
    unions' = [unions EXCEPT ![n].pos = [r \in Users |->
                 IF r \in DOMAIN pos /\ @[r] # NON THEN pos[r] ELSE @[r]]]
FunctionDone(q, p) == copy' = Load({q, p}) /\ UNCHANGED <<ref, store, cooldown, apply, conn>>

Relieve(q, p, n) ==
    /\ Function(q, p, n)
    /\ CanRelieve(Initiative(q, n), unions[n].pos[p])
    /\ SetPos(n, [r \in {p} |-> NORMAL])
    /\ FunctionDone(q, p)

\* Altered: UNION_FIELD_CHAIRMAN keeps the old name.
TransferPosition(q, p, n) ==
    /\ Function(q, p, n)
    /\ CanTransfer(Initiative(q, n), unions[n].pos[p])
    /\ unions' = [unions EXCEPT ![n].pos = [[@ EXCEPT ![q] = NORMAL] EXCEPT
                                              ![p] = Initiative(q, n)]]
    /\ FunctionDone(q, p)

Transfer(q, p, n) ==
    LET i == Initiative(q, n) IN
    /\ Function(q, p, n)
    /\ CanTransfer(i, unions[n].pos[p])
    /\ unions' = [unions EXCEPT ![n].pos = [[@ EXCEPT ![q] = NORMAL] EXCEPT ![p] = i],
                                ![n].chairman = IF i = CHAIRMAN THEN p ELSE @]
    /\ FunctionDone(q, p)

Appoint(q, p, n) ==
    /\ Function(q, p, n)
    /\ Cardinality(ViceChairmen(unions[n])) < ViceChairmanNum[unions[n].lv]
    /\ CanAppoint(Initiative(q, n), unions[n].pos[p])
    /\ SetPos(n, [r \in {p} |-> VICE])
    /\ FunctionDone(q, p)

Resign(q, n) ==
    /\ Function(q, q, n)
    /\ Initiative(q, n) = VICE
    /\ SetPos(n, [r \in {q} |-> NORMAL])
    /\ FunctionDone(q, q)

----------------------------------------------------------------------------
(* The day's end, and the process *)

Raised(g) == {g} \cup IF g.lv + 1 \in Levels THEN {[g EXCEPT !.lv = @ + 1]} ELSE {}

\* processUnionForwardDataService: another server forwards what p's battles were
\* worth, whether p is on line or not, and addUnionLiveness may raise the level
\* of the guild that p's copy names.
LevelUp(p) ==
    LET n == Loaded(p) IN
    /\ unions' \in IF Exists(n) THEN {[unions EXCEPT ![n] = g] : g \in Raised(unions[n])}
                  ELSE {unions}
    /\ copy' = Load({p})
    /\ UNCHANGED <<ref, store, cooldown, apply, conn>>

\* assignChairman.  Who is idle, of highest level, or most active is left
\* open: any of the others of the highest position may be the heir.
Heirs(g) ==
    LET others == {p \in MembersOf(g) : g.pos[p] # CHAIRMAN} IN
    {p \in others : \A r \in others : g.pos[r] <= g.pos[p]}
Assigned(g) ==
    {g} \cup {[g EXCEPT !.pos = [[@ EXCEPT ![g.chairman] = NORMAL] EXCEPT ![p] = CHAIRMAN],
                        !.chairman = p] :
              p \in IF g.chairman \in MembersOf(g) /\ Cardinality(MembersOf(g)) > 1
                    THEN Heirs(g) \ {g.chairman} ELSE {}}
Lowered(g) == {g} \cup IF g.lv > 1 THEN {[g EXCEPT !.lv = @ - 1]} ELSE {}

\* CUnionManager::daily for the guild n that lives on; it loads the members.
Daily(n) ==
    /\ Exists(n)
    /\ \E g \in UNION {Assigned(h) : h \in Lowered(unions[n])} :
          unions' = [unions EXCEPT ![n] = g]
    /\ copy' = Load(Members(n))
    /\ UNCHANGED <<ref, store, cooldown, apply, conn>>

\* CUnionManager::dismissUnion for a guild inactive for too long
Dismiss(n) ==
    LET out == Members(n) IN
    /\ Exists(n)
    /\ store' = [p \in Users |-> IF p \in out THEN 0 ELSE store[p]]
    /\ copy' = [p \in Users |-> IF p \in out /\ copy[p] # None THEN 0 ELSE copy[p]]
    /\ unions' = [unions EXCEPT ![n] = None]
    /\ UNCHANGED <<ref, cooldown, apply, conn>>

\* The process ends and starts again: everything is read from Redis.
Restart ==
    /\ copy' = [p \in Users |-> None]
    /\ conn' = [p \in Users |-> IF Online(p) THEN "on" ELSE "off"]
    /\ UNCHANGED <<unions, ref, store, cooldown, apply>>

\* Altered: what is past goes on.
OlderEver(t) == IF t = None THEN None ELSE t - 1

Older(t) == IF t \in {None, 0} THEN t ELSE t - 1

\* A unit of time passes.
Tick ==
    /\ unions' = [n \in Ids |-> IF unions[n] = None THEN None ELSE
                    [unions[n] EXCEPT !.audit = [p \in Users |-> Older(@[p])]]]
    /\ apply' = [p \in Users |-> [n \in Ids |-> Older(apply[p][n])]]
    /\ cooldown' = [p \in Users |-> IF cooldown[p] = 0 THEN 0 ELSE cooldown[p] - 1]
    /\ UNCHANGED <<ref, store, copy, conn>>

Next ==
    \/ \E p \in Users :
          \/ Login(p) \/ OffLine(p) \/ Forget(p) \/ UnionInfo(p) \/ Asks(p) \/ Create(p)
          \/ LevelUp(p)
    \/ \E p \in Users, n \in Ids :
          \/ \E id \in {0} \cup Ids :
                ApplyRefused(p, n, id) \/ ApplyAuto(p, n, id) \/ ApplyAudit(p, n, id)
          \/ AuditList(p, n)
          \/ \E r, t \in Users, agree \in BOOLEAN : Audit(p, n, r, t, agree)
          \/ \E isAuto \in BOOLEAN : SetAudit(p, n, isAuto)
          \/ Exit(p, n)
          \/ \E r \in Users :
                Kick(p, r, n) \/ Relieve(p, r, n) \/ Transfer(p, r, n) \/ Appoint(p, r, n)
          \/ Resign(p, n)
    \/ \E n \in Ids : Daily(n) \/ Dismiss(n)
    \/ Restart
    \/ Tick

Spec == Init /\ [][Next]_vars

----------------------------------------------------------------------------
(* Properties *)

\* The two records of a membership agree: whoever is on a member list has that
\* guild in USER_UNION_ID, and USER_UNION_ID names no guild without him, also
\* after it is dissolved.  So nobody is in two guilds.
MembershipAgrees ==
    \A p \in Users, n \in Ids : p \in Members(n) <=> store[p] = n

\* A copy in memory may have missed a departure, never a joining: it cannot
\* show a member as free, who would then be taken by a second guild.
CopySafe == \A p \in Users : store[p] # 0 => copy[p] \in {None, store[p]}

\* Transfers, appointments and the daily succession leave at most one chairman,
\* the one UNION_FIELD_CHAIRMAN names.
OneChairman ==
    \A n \in Ids : Exists(n) =>
        \A p \in Users : unions[n].pos[p] = CHAIRMAN => unions[n].chairman = p

\* A guild never grows past the limit of its level, by whatever door, and
\* however many are agreed to at once.
Grows(n) == Members(n) # {} /\ Members(n)' \ Members(n) # {}
GrowsWithinLimit ==
    [][\A n \in Ids :
          Grows(n) => Cardinality(Members(n)') <= MemberLimit[unions[n].lv]]_vars
============================================================================
