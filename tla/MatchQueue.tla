----------------------------- MODULE MatchQueue -----------------------------
(***************************************************************************)
(* The MatchServer's CNewMatchManager: players who ask for an opponent     *)
(* wait in the list of their level (dan), are paired with a neighbour of   *)
(* a near enough player level, move to the next lower list when they have  *)
(* waited long enough, and meet a robot in the lowest one.                 *)
(*                                                                         *)
(* A NewMatcherList is the sequence of its nodes from head to tail;        *)
(* m_mapMatchers holds the nodes of all lists.  Time is counted in the     *)
(* seconds onTimer counts; a stamp is kept as the time since.              *)
(***************************************************************************)
EXTENDS Integers, Sequences, SequencesExt, FiniteSetsExt

CONSTANTS
    Uids,        \* players
    PlayerLvs,   \* player levels (userLv)
    Integrals,   \* points (integral)
    Top,         \* DAN_KING; the lists are 1..Top, DAN_NEWBIE is 1
    Dan,         \* getUserIntegralDan: points -> list
    MidLoad,     \* Arena_Mid: from this number of waiting players, load is mid
    HighLoad,    \* Arena_High: from this number on, load is high
    Interval,    \* load, level -> seconds between two rounds of a list
    Patience,    \* load, level -> seconds in a list before a player moves down
    Limit,       \* LimitWaitingTime
    MaxCount     \* bound: m_nMatcherCount

Levels == 1..Top
Loads == {"low", "mid", "high"}

ASSUME MatchAssumption ==
    /\ IsFiniteSet(Uids)
    /\ PlayerLvs \subseteq Nat /\ Integrals \subseteq Nat
    /\ Top \in Nat \ {0, 1}
    /\ Dan \in [Integrals -> Levels]
    /\ MidLoad \in Nat /\ HighLoad \in Nat
    /\ Interval \in [Loads -> [Levels -> Nat \ {0, 1}]]
    /\ Patience \in [Loads -> [Levels -> Nat \ {0}]]
    /\ Limit \in Nat \ {0}
    /\ MaxCount \in Nat

VARIABLES
    lists,       \* m_mapMatcherList: the nodes of each level; a node's age is the
                 \* time it has waited in its list, up to Limit
    robots,      \* m_mapRobotMatchers: players who will meet a robot
    idle,        \* seconds since the last round of each list
    reverse,     \* NewMatcherList::reverse
    count        \* m_nMatcherCount

vars == <<lists, robots, idle, reverse, count>>

LongestInterval == Max({Interval[load][l] : load \in Loads, l \in Levels})

Init ==
    /\ lists = [l \in Levels |-> <<>>]
    /\ robots = {}
    /\ idle = [l \in Levels |-> 0]
    /\ reverse = [l \in Levels |-> FALSE]
    /\ count = 0

----------------------------------------------------------------------------
(* Lists *)

WaitingAt(u, l) == \E i \in DOMAIN lists[l] : lists[l][i].uid = u
Waiting(u) == \E l \in Levels : WaitingAt(u, l)

ExistsInLists(u) == Waiting(u)

\* isExsit
Exists(u) == Waiting(u) \/ u \in robots

Below(t, m) == t.userLv < m.userLv \/ (t.userLv = m.userLv /\ t.integral < m.integral)
Above(t, m) == t.userLv = m.userLv /\ t.integral > m.integral

InsertByIntegral(list, m) ==
    LET before == {i \in DOMAIN list : list[i].integral < m.integral}
    IN  IF before = {} THEN Append(list, m) ELSE InsertAt(list, Min(before), m)

\* insert: the walk from the head stops at the first node that is lower than m,
\* which m goes in front of, or is higher with the same player level, or is
\* the last one, which m goes behind.
Insert(list, m) ==
    LET stops == {i \in DOMAIN list : Below(list[i], m) \/ Above(list[i], m) \/ i = Len(list)}
    IN  IF list = <<>> THEN <<m>>
        ELSE LET i == Min(stops) IN
             InsertAt(list, IF Below(list[i], m) THEN i ELSE i + 1, m)

\* The nodes of list at the positions of S, in their order: what is left when
\* the others have been unlinked.
Kept(list, S) ==
    LET kept[n \in 0..Len(list)] ==
            IF n = 0 THEN <<>>
            ELSE IF n \in S THEN Append(kept[n - 1], list[n]) ELSE kept[n - 1]
    IN  kept[Len(list)]

\* removeFromMatchList
Without(list, u) == Kept(list, {i \in DOMAIN list : list[i].uid # u})

\* m_nMatcherCount after it
LeftAlways(u) == count - 1
Left(u) == IF Waiting(u) THEN count - 1 ELSE count

\* getMatcherStatus
Load(n) == IF n >= HighLoad THEN "high" ELSE IF n >= MidLoad THEN "mid" ELSE "low"

----------------------------------------------------------------------------
(* One round of a list, on the record q of the manager's fields *)

Near(m1, m2) == m1.userLv <= m2.userLv + 3 /\ m2.userLv <= m1.userLv + 3

PairedByTwos(list) ==
    LET heads == {i \in 1..Len(list) - 1 : i % 2 = 1 /\ Near(list[i], list[i + 1])}
    IN  heads \cup {i + 1 : i \in heads}

\* The positions paired when a list is walked once from its first node: two
\* neighbours that are near leave together, else the first one is passed over.
Paired(list) ==
    LET from[i \in 1..Len(list) + 2] ==
            IF i >= Len(list) THEN {}
            ELSE IF Near(list[i], list[i + 1]) THEN {i, i + 1} \cup from[i + 2]
            ELSE from[i + 1]
    IN  from[1]

PairedInTurn(list, fromTail) ==
    IF fromTail THEN {Len(list) + 1 - i : i \in Paired(Reverse(list))} ELSE Paired(list)

\* The list without its paired players.
Unpaired(list, fromTail) == Kept(list, DOMAIN list \ PairedInTurn(list, fromTail))

StayDown(n, j) == n

\* Where the j-th player that leaves list n out of impatience goes: the loop's
\* own `level' is decremented for each of them.
DownFrom(n, j) == IF j < n THEN n - j ELSE 1

\* The impatient ones start again in lower lists, one after the other.
Sunk(ls, n, impatient) ==
    LET sunk[j \in 0..Len(impatient)] ==
            IF j = 0 THEN ls
            ELSE [sunk[j - 1] EXCEPT
                    ![DownFrom(n, j)] = Insert(@, [impatient[j] EXCEPT !.age = 0])]
    IN  sunk[Len(impatient)]

\* matchUpdateList, after the pairing: players over the limit meet a robot,
\* impatient ones move down.
PassDown(q, n) ==
    LET list == q.lists[n]
        overdue == {i \in DOMAIN list : list[i].age >= Limit}
        impatient == {i \in DOMAIN list \ overdue : list[i].age >= Patience[Load(q.count)][n]}
        stay == DOMAIN list \ (overdue \cup impatient)
    IN [q EXCEPT !.lists = Sunk([@ EXCEPT ![n] = Kept(list, stay)], n, Kept(list, impatient)),
                 !.count = @ - Cardinality(overdue)]

\* matchLevel1List, matchUpdateList: what a round does at level n.
Round(q, n) ==
    LET list == q.lists[n]
        rest == IF n = 1 THEN <<>> ELSE Unpaired(list, q.reverse[n])
        after == [q EXCEPT !.lists[n] = rest, !.count = @ - (Len(list) - Len(rest)),
                           !.idle[n] = 0]
    IN  IF n = 1 \/ list = <<>> THEN after
        ELSE PassDown([after EXCEPT !.reverse[n] = ~@], n)

\* matchUpdate, at one level: a round when the level's interval has passed.
UpdateLevel(q, n) ==
    IF q.idle[n] >= Interval[Load(q.count)][n] THEN Round(q, n) ELSE q

----------------------------------------------------------------------------
(* Actions *)

\* processMatchService: a player of the lowest level always meets a robot, one
\* of the highest never does, others do after losses.
Request(u, lv, points) ==
    /\ ~Exists(u)
    /\ LET n == Dan[points]
           m == [uid |-> u, userLv |-> lv, integral |-> points, age |-> 0]
       IN \/ /\ n < Top
             /\ robots' = robots \cup {u}
             /\ UNCHANGED <<lists, count>>
          \/ /\ n > 1
             /\ count < MaxCount
             /\ lists' = [lists EXCEPT ![n] = Insert(@, m)]
             /\ count' = count + 1
             /\ UNCHANGED robots
    /\ UNCHANGED <<idle, reverse>>

\* processCancelService, processPlayerOffLine
Cancel(u) ==
    /\ lists' = [l \in Levels |-> Without(lists[l], u)]
    /\ robots' = robots \ {u}
    /\ count' = Left(u)
    /\ UNCHANGED <<idle, reverse>>

\* onTimer and matchUpdate: the levels in ascending order, then the robots.
\* The sends of matchSuccess and matchRobotSuccess inside a round succeed: one
\* that failed would run clearMatchers, which deletes the nodes the walk is at,
\* and what the process then does is undefined.
Tick ==
    LET aged == [l \in Levels |->
                    [i \in DOMAIN lists[l] |-> [lists[l][i] EXCEPT !.age = Min({@ + 1, Limit})]]]
        q == [lists |-> aged, idle |-> [l \in Levels |-> Min({idle[l] + 1, LongestInterval})],
              reverse |-> reverse, count |-> count]
        updated[l \in 0..Top] == IF l = 0 THEN q ELSE UpdateLevel(updated[l - 1], l)
        r == updated[Top]
    IN /\ lists' = r.lists
       /\ idle' = r.idle
       /\ reverse' = r.reverse
       /\ count' = r.count
       /\ robots' = {}

\* CMatchModule::processError: a session connection is lost between two rounds,
\* or a send outside them fails; clearMatchers empties every list and
\* leaves m_nMatcherCount.
Clear ==
    /\ lists' = [l \in Levels |-> <<>>]
    /\ robots' = {}
    /\ UNCHANGED <<idle, reverse, count>>

Next ==
    \/ \E u \in Uids, lv \in PlayerLvs, points \in Integrals : Request(u, lv, points)
    \/ \E u \in Uids : Cancel(u)
    \/ Tick
    \/ Clear

\* The timer fires every second; Tick is always enabled.
Spec == Init /\ [][Next]_vars /\ []<><<Tick>>_vars

----------------------------------------------------------------------------
(* Properties *)

\* isExsit: a player waits in one place only, whatever has been requested,
\* cancelled or passed down.
OneTicket ==
    \A u \in Uids :
        LET places == {p \in Levels \X (1..Cardinality(Uids)) :
                          p[2] <= Len(lists[p[1]]) /\ lists[p[1]][p[2]].uid = u}
        IN  Cardinality(places) + (IF u \in robots THEN 1 ELSE 0) <= 1

Waiters == Cardinality({u \in Uids : Waiting(u)})

\* m_nMatcherCount selects the load: it never falls below the number of
\* players in the lists, whatever leaves them in which way.
CountCovers == Waiters <= count

\* NewMatchManager.h:32, its first half: a list is in descending order of
\* player level.
LevelsDescend ==
    \A l \in Levels : \A i, j \in DOMAIN lists[l] :
        i < j => lists[l][i].userLv >= lists[l][j].userLv

\* matchUpdateList pairs as many as it can: after a round, no two players who
\* waited in that list and still do are near enough to be paired.  Walking the
\* list once does that only because of LevelsDescend.
NoPairLeft ==
    [][\A l \in Levels \ {1} : idle'[l] < idle[l] =>
          \A i, j \in DOMAIN lists'[l] :
              i < j /\ WaitingAt(lists'[l][i].uid, l) /\ WaitingAt(lists'[l][j].uid, l)
                 => ~Near(lists'[l][i], lists'[l][j])]_vars

\* A player who waits, as long as he does not cancel, gets an opponent or a
\* robot: the level he waits at sinks to the lowest.
WaiterServed == \A u \in Uids : Waiting(u) ~> ~Waiting(u)
============================================================================
