----------------------------- MODULE RoomProofs -----------------------------
(***************************************************************************)
(* What holds of Room for every set of players and battles.                *)
(*                                                                         *)
(* The invariant is a conjunction over the rooms.  An action changes one   *)
(* room and may take players away from the others in m_UsersBattleId, so   *)
(* each lemma speaks of the room that is changed, and Untouched of those   *)
(* that are not.                                                           *)
(***************************************************************************)
EXTENDS Room, FiniteSetTheorems, TLAPS

\* m_UsersBattleId sends a player only to a room that he has joined.  When the
\* room does not exist that means to none: a new room finds no old entries.
Mapped(b) == \A u \in Uids : battleOf[u] = b => u \in players[b]

\* Only players report, and a room that no longer waits for players has both.
Manned(b) ==
    /\ players[b] \subseteq Entrants[b]
    /\ Reported(progress[b]) \subseteq players[b]
    /\ state[b] = "noroom" => players[b] = {} /\ progress[b] = NoProgress
    /\ state[b] \in {"loading"} \cup Started => players[b] = Entrants[b]

\* A room that waits has time left, and somebody it waits for.
Awaits(b) ==
    state[b] \in Waiting =>
        /\ tick[b] > 0
        /\ \E u \in Entrants[b] : progress[b][u] # "ready"

RoomRight(b) == Mapped(b) /\ Manned(b) /\ Awaits(b)

IInv == TypeOK /\ \A b \in Battles : RoomRight(b)

----------------------------------------------------------------------------

\* A room has room for its two entrants and no other.
LEMMA FullMeansBoth ==
    ASSUME NEW b \in Battles, NEW S \in SUBSET Entrants[b]
    PROVE  /\ Cardinality(S) >= Capacity <=> S = Entrants[b]
           /\ Entrants[b] # {}
<1>1. IsFiniteSet(Entrants[b]) /\ Cardinality(Entrants[b]) = 2
  <2>1. Entrants[b] \in SUBSET Uids
    BY RoomAssumption
  <2>2. QED
    BY <2>1, RoomAssumption, FS_Subset DEF Capacity
<1>2. IsFiniteSet(S) /\ Cardinality(S) <= 2 /\ (Cardinality(S) = 2 => S = Entrants[b])
  BY <1>1, FS_Subset
<1>3. Cardinality(S) \in Nat
  BY <1>2, FS_CardinalityType
<1>4. Entrants[b] # {}
  BY <1>1, FS_EmptySet
<1>5. QED
  BY <1>1, <1>2, <1>3, <1>4 DEF Capacity

\* playerLoading: u's report is r, and nobody but u and the players has one.
LEMMA ReportFacts ==
    ASSUME TypeOK, NEW b \in Battles, NEW u \in Uids, NEW r \in Reports
    PROVE  /\ Report(b, u, r) \in [Uids -> Reports \cup {"none"}]
           /\ Report(b, u, r)[u] = r
           /\ Reported(Report(b, u, r)) \subseteq
                Reported(progress[b]) \cup players[b] \cup {u}
           /\ \A v \in Uids \ {u} :
                Report(b, u, r)[v] = "ready" => progress[b][v] = "ready"
BY DEF TypeOK, Report, Reports, Reported, NoProgress

\* A room keeps its part of the invariant when nothing of it changes and no
\* player is sent to it.
LEMMA Untouched ==
    ASSUME NEW b \in Battles, RoomRight(b),
           state'[b] = state[b], players'[b] = players[b],
           progress'[b] = progress[b], tick'[b] = tick[b],
           \A u \in Uids : battleOf'[u] = b => battleOf[u] = b
    PROVE  RoomRight(b)'
BY DEF RoomRight, Mapped, Manned, Awaits, Reported, NoProgress

----------------------------------------------------------------------------
(* One lemma per group of actions *)

\* startRoom, from a room whose players are there.
LEMMA StartStep ==
    ASSUME IInv, NEW b \in Battles, StartRoom(b), UNCHANGED <<mates, over>>,
           players[b] = Entrants[b]
    PROVE  IInv'
<1>1. UNCHANGED <<battleOf, players, connecting>>
  BY DEF mates
<1>2. TypeOK'
  BY <1>1 DEF IInv, TypeOK, StartRoom, Started, NoProgress, Reports
<1>3. RoomRight(b)'
  BY <1>1 DEF IInv, TypeOK, RoomRight, Mapped, Manned, Awaits, StartRoom, Waiting,
              Reported, NoProgress
<1>4. ASSUME NEW c \in Battles \ {b} PROVE RoomRight(c)'
  BY <1>1, <1>4, Untouched DEF IInv, TypeOK, StartRoom
<1>5. QED
  BY <1>2, <1>3, <1>4 DEF IInv

\* exitRoom
LEMMA ExitStep ==
    ASSUME IInv, NEW b \in Battles, ExitRoom(b)
    PROVE  IInv'
<1>1. TypeOK'
  BY DEF IInv, TypeOK, ExitRoom, NoProgress
<1>2. RoomRight(b)'
  BY RoomAssumption DEF IInv, TypeOK, RoomRight, Mapped, Manned, Awaits, ExitRoom,
     Waiting, Started, Reported, NoProgress
<1>3. ASSUME NEW c \in Battles \ {b} PROVE RoomRight(c)'
  BY <1>3, Untouched, RoomAssumption DEF IInv, TypeOK, ExitRoom
<1>4. QED
  BY <1>1, <1>2, <1>3 DEF IInv

LEMMA OpensStep ==
    ASSUME IInv, NEW u \in Uids, NEW b \in Battles, Opens(u, b)
    PROVE  IInv'
<1>1. TypeOK'
  BY RoomAssumption DEF IInv, TypeOK, Opens, Waiting
<1>2. Mapped(b)'
  BY DEF IInv, TypeOK, RoomRight, Mapped, Manned, Opens
<1>3. Manned(b)'
  BY DEF IInv, TypeOK, RoomRight, Manned, Opens, Started, Reported, NoProgress
<1>4. Awaits(b)'
  <2>1. Entrants[b] # {} /\ Entrants[b] \subseteq Uids
    BY FullMeansBoth, RoomAssumption
  <2>2. \A v \in Uids : progress'[b][v] = "none"
    BY DEF IInv, RoomRight, Manned, Opens, NoProgress
  <2>3. QED
    BY <2>1, <2>2, RoomAssumption DEF IInv, TypeOK, Awaits, Opens
<1>5. ASSUME NEW c \in Battles \ {b} PROVE RoomRight(c)'
  BY <1>5, Untouched DEF IInv, TypeOK, Opens
<1>6. QED
  BY <1>1, <1>2, <1>3, <1>4, <1>5 DEF IInv, RoomRight

LEMMA JoinsStep ==
    ASSUME IInv, NEW u \in Uids, NEW b \in Battles, Joins(u, b)
    PROVE  IInv'
<1>1. players[b] # Entrants[b] /\ state[b] \in {"prepareload"}
  <2>1. players[b] # Entrants[b]
    BY DEF Joins
  <2>2. QED
    BY <2>1 DEF IInv, TypeOK, RoomRight, Manned, Joins, Waiting
<1>2. TypeOK'
  <2>1. /\ state' \in [Battles -> {"noroom"} \cup Waiting \cup Started]
        /\ tick' \in [Battles -> Nat]
    <3>1. CASE UNCHANGED <<state, tick>>
      BY <3>1 DEF IInv, TypeOK
    <3>2. CASE /\ state' = [state EXCEPT ![b] = "loading"]
               /\ tick' = [tick EXCEPT ![b] = LoadingExpire]
      BY <3>2, RoomAssumption DEF IInv, TypeOK, Waiting
    <3>3. QED
      BY <3>1, <3>2 DEF Joins
  <2>2. u \in Uids /\ b \in Battles
    OBVIOUS
  <2>3. /\ battleOf' \in [Uids -> Battles \cup {NoBattle}]
        /\ players' \in [Battles -> SUBSET Uids]
        /\ connecting' \in [Battles -> SUBSET Uids]
    BY <2>2 DEF IInv, TypeOK, Joins
  <2>4. QED
    BY <2>1, <2>3 DEF IInv, TypeOK, Joins
<1>3. Mapped(b)'
  BY DEF IInv, TypeOK, RoomRight, Mapped, Joins
<1>4. Manned(b)'
  <2>1. players'[b] = players[b] \cup {u} /\ players'[b] \subseteq Entrants[b]
    BY DEF IInv, TypeOK, RoomRight, Manned, Joins
  <2>2. state'[b] \in {"loading"} \cup Started => players'[b] = Entrants[b]
    BY <1>1, <2>1, FullMeansBoth DEF IInv, TypeOK, Joins, Started
  <2>3. QED
    BY <2>1, <2>2, <1>1 DEF IInv, TypeOK, RoomRight, Manned, Joins, Reported
<1>5. Awaits(b)'
  BY <1>1, RoomAssumption DEF IInv, TypeOK, RoomRight, Awaits, Joins, Waiting
<1>6. ASSUME NEW c \in Battles \ {b} PROVE RoomRight(c)'
  BY <1>6, Untouched DEF IInv, TypeOK, Joins
<1>7. QED
  BY <1>2, <1>3, <1>4, <1>5, <1>6 DEF IInv, RoomRight

LEMMA ReentersStep ==
    ASSUME IInv, NEW u \in Uids, NEW b \in Battles, Reenters(u, b)
    PROVE  IInv'
<1>1. TypeOK'
  BY DEF IInv, TypeOK, Reenters
<1>2. u \in players[b]
  BY FullMeansBoth DEF IInv, TypeOK, RoomRight, Manned, Reenters
<1>3. RoomRight(b)'
  BY <1>2 DEF IInv, TypeOK, RoomRight, Mapped, Manned, Awaits, Reenters, Reported,
              NoProgress
<1>4. ASSUME NEW c \in Battles \ {b} PROVE RoomRight(c)'
  BY <1>4, Untouched DEF IInv, TypeOK, Reenters
<1>5. QED
  BY <1>1, <1>3, <1>4 DEF IInv

\* A report that does not start the battle, with a new tick or the old one.
LEMMA ReportStep ==
    ASSUME IInv, NEW b \in Battles, NEW u \in Uids, NEW r \in Reports,
           InRoom(u, b), state[b] \in Waiting,
           r = "ready" => ~AllReady(Report(b, u, r)),
           progress' = [progress EXCEPT ![b] = Report(b, u, r)],
           tick' = tick \/ tick' = [tick EXCEPT ![b] = ReadyExpire],
           UNCHANGED <<mates, state, over>>
    PROVE  IInv'
<1> DEFINE p == Report(b, u, r)
<1>1. UNCHANGED <<battleOf, players, connecting, state, over>>
  BY DEF mates
<1>2. /\ p \in [Uids -> Reports \cup {"none"}]
      /\ p[u] = r
      /\ Reported(p) \subseteq Reported(progress[b]) \cup players[b] \cup {u}
      /\ \A v \in Uids \ {u} : p[v] = "ready" => progress[b][v] = "ready"
  BY ReportFacts DEF IInv
<1>3. /\ u \in players[b] /\ players[b] \subseteq Entrants[b]
      /\ Reported(p) \subseteq players[b]
  BY <1>2 DEF IInv, RoomRight, Mapped, Manned, InRoom
<1>4. progress' \in [Battles -> [Uids -> Reports \cup {"none"}]] /\ progress'[b] = p
  BY <1>2 DEF IInv, TypeOK
<1>5. tick' \in [Battles -> Nat] /\ tick'[b] > 0
  BY RoomAssumption DEF IInv, TypeOK, RoomRight, Awaits
<1>6. TypeOK'
  BY <1>1, <1>4, <1>5 DEF IInv, TypeOK
<1>7. Mapped(b)' /\ Manned(b)'
  BY <1>1, <1>3, <1>4 DEF IInv, RoomRight, Mapped, Manned, Reported, InRoom
<1>8. \E v \in Entrants[b] : p[v] # "ready"
  <2>1. CASE r # "ready"
    BY <2>1, <1>2, <1>3
  <2>2. CASE r = "ready"
    <3>1. SUFFICES ASSUME \A v \in Entrants[b] : p[v] = "ready"
                   PROVE  FALSE
      OBVIOUS
    <3>2. Entrants[b] \subseteq Uids
      BY RoomAssumption
    <3>3. Reported(p) = Entrants[b] /\ Reported(p) \subseteq Complete(p)
      BY <1>3, <3>1, <3>2 DEF Reported, Complete
    <3>4. QED
      BY <2>2, <3>3, FullMeansBoth DEF AllReady
  <2>3. QED
    BY <2>1, <2>2
<1>9. Awaits(b)'
  BY <1>1, <1>4, <1>5, <1>8 DEF Awaits
<1>10. ASSUME NEW c \in Battles \ {b} PROVE RoomRight(c)'
  BY <1>1, <1>10, Untouched DEF IInv, TypeOK
<1>11. QED
  BY <1>6, <1>7, <1>9, <1>10 DEF IInv, RoomRight

\* A Ready that starts the battle: both players have reported.
LEMMA AllReadyMeansBoth ==
    ASSUME IInv, NEW b \in Battles, NEW u \in Uids, InRoom(u, b),
           AllReady(Report(b, u, "ready"))
    PROVE  players[b] = Entrants[b]
<1> DEFINE p == Report(b, u, "ready")
<1>1. "ready" \in Reports
  BY DEF Reports
<1>2. Reported(p) \subseteq players[b] /\ players[b] \subseteq Entrants[b]
  BY <1>1, ReportFacts DEF IInv, RoomRight, Mapped, Manned, InRoom
<1>3. Reported(p) = Entrants[b]
  <2>1. Reported(p) \in SUBSET Entrants[b]
    BY <1>2
  <2>2. Cardinality(Reported(p)) >= Capacity
    BY DEF AllReady
  <2>3. QED
    BY <2>1, <2>2, FullMeansBoth
<1>4. QED
  BY <1>2, <1>3

LEMMA ReadyStep ==
    ASSUME IInv, NEW u \in Uids, Ready(u)
    PROVE  IInv'
<1>1. PICK b \in Battles :
        /\ InRoom(u, b) /\ state[b] \in Waiting
        /\ LET p == Report(b, u, "ready") IN
              \/ AllReady(p) /\ StartRoom(b)
              \/ /\ ~AllReady(p)
                 /\ progress' = [progress EXCEPT ![b] = p]
                 /\ tick' = IF OpponentAway(b, u) THEN [tick EXCEPT ![b] = ReadyExpire]
                            ELSE tick
                 /\ UNCHANGED state
        /\ UNCHANGED <<mates, over>>
  BY DEF Ready
<1>2. CASE AllReady(Report(b, u, "ready")) /\ StartRoom(b)
  BY <1>1, <1>2, AllReadyMeansBoth, StartStep
<1>3. CASE ~AllReady(Report(b, u, "ready")) /\ UNCHANGED state
  <2>1. tick' = tick \/ tick' = [tick EXCEPT ![b] = ReadyExpire]
    BY <1>1, <1>3 DEF StartRoom
  <2>2. progress' = [progress EXCEPT ![b] = Report(b, u, "ready")]
    BY <1>1, <1>3
  <2>3. "ready" \in Reports /\ UNCHANGED <<mates, state, over>>
    BY <1>1, <1>3 DEF Reports
  <2>4. QED
    BY <1>1, <1>3, <2>1, <2>2, <2>3, ReportStep
<1>4. QED
  BY <1>1, <1>2, <1>3

LEMMA LoadingStep ==
    ASSUME IInv, NEW u \in Uids, NEW r \in {"part", "full"}, Loading(u, r)
    PROVE  IInv'
<1>1. PICK b \in Battles :
        /\ InRoom(u, b) /\ state[b] \in Waiting
        /\ progress' = [progress EXCEPT ![b] = Report(b, u, r)]
        /\ UNCHANGED <<mates, state, tick, over>>
  BY DEF Loading
<1>2. r \in Reports /\ r # "ready"
  BY DEF Reports
<1>3. UNCHANGED <<mates, state, over>> /\ tick' = tick
  BY <1>1
<1>4. QED
  BY <1>1, <1>2, <1>3, ReportStep

\* Reconnect, OffLine and the steps of a running battle change neither the
\* players nor what a room waits for.
LEMMA QuietStep ==
    ASSUME IInv, UNCHANGED <<battleOf, players, progress, tick>>,
           connecting' \in [Battles -> SUBSET Uids], over' \subseteq Battles,
           \/ UNCHANGED state
           \/ \E b \in Battles : /\ state[b] = "idletime"
                                 /\ state' = [state EXCEPT ![b] = "fighting"]
    PROVE  IInv'
<1>1. TypeOK'
  BY DEF IInv, TypeOK, Started
<1>2. ASSUME NEW c \in Battles PROVE RoomRight(c)'
  <2>1. state'[c] = state[c] \/ (state[c] = "idletime" /\ state'[c] = "fighting")
    BY DEF IInv, TypeOK
  <2>2. QED
    BY <2>1 DEF IInv, RoomRight, Mapped, Manned, Awaits, Waiting, Started, Reported,
                NoProgress
<1>3. QED
  BY <1>1, <1>2 DEF IInv

LEMMA CountsStep ==
    ASSUME IInv, NEW b \in Battles, Counts(b)
    PROVE  IInv'
<1>1. UNCHANGED <<battleOf, players, connecting, state, progress, over>>
  BY DEF Counts, mates
<1>2. tick[b] \in Nat /\ tick[b] > 1
  BY DEF IInv, TypeOK, RoomRight, Awaits, Counts
<1>3. tick' \in [Battles -> Nat] /\ tick'[b] > 0
  BY <1>2 DEF IInv, TypeOK, Counts
<1>4. TypeOK'
  BY <1>1, <1>3 DEF IInv, TypeOK
<1>5. RoomRight(b)'
  BY <1>1, <1>3 DEF IInv, RoomRight, Mapped, Manned, Awaits, Reported, NoProgress
<1>6. ASSUME NEW c \in Battles \ {b} PROVE RoomRight(c)'
  BY <1>1, <1>6, Untouched DEF IInv, TypeOK, Counts
<1>7. QED
  BY <1>4, <1>5, <1>6 DEF IInv

LEMMA TimerStep ==
    ASSUME IInv, NEW b \in Battles, OnTimer(b)
    PROVE  IInv'
<1>1. CASE Counts(b)
  BY <1>1, CountsStep
<1>2. CASE Expires(b)
  <2>1. CASE ExitRoom(b)
    BY <2>1, ExitStep
  <2>2. CASE state[b] = "loading" /\ StartRoom(b) /\ UNCHANGED <<mates, over>>
    <3>1. players[b] = Entrants[b]
      BY <2>2 DEF IInv, RoomRight, Manned
    <3>2. QED
      BY <2>2, <3>1, StartStep
  <2>3. QED
    BY <1>2, <2>1, <2>2 DEF Expires
<1>3. CASE Fights(b)
  BY <1>3, QuietStep DEF Fights, mates, IInv, TypeOK
<1>4. CASE BattleEnds(b)
  BY <1>4, QuietStep DEF BattleEnds, mates, IInv, TypeOK
<1>5. CASE Settles(b)
  BY <1>5, ExitStep DEF Settles
<1>6. QED
  BY <1>1, <1>2, <1>3, <1>4, <1>5 DEF OnTimer

LEMMA RequestStep ==
    ASSUME IInv, NEW u \in Uids, Request(u)
    PROVE  IInv'
<1>1. CASE \E b \in Battles : Opens(u, b) \/ Joins(u, b) \/ Reenters(u, b)
  BY <1>1, OpensStep, JoinsStep, ReentersStep
<1>2. CASE \E r \in {"part", "full"} : Loading(u, r)
  BY <1>2, LoadingStep
<1>3. CASE Ready(u)
  BY <1>3, ReadyStep
<1>4. CASE Reconnect(u)
  BY <1>4, QuietStep DEF Reconnect, IInv, TypeOK
<1>5. CASE OffLine(u)
  BY <1>5, QuietStep DEF OffLine, IInv, TypeOK
<1>6. QED
  BY <1>1, <1>2, <1>3, <1>4, <1>5 DEF Request

----------------------------------------------------------------------------
(* The theorems *)

LEMMA InitInv == Init => IInv
<1> SUFFICES ASSUME Init PROVE IInv
  OBVIOUS
<1>1. TypeOK
  BY DEF Init, TypeOK, NoProgress
<1>2. \A b \in Battles : RoomRight(b)
  BY RoomAssumption DEF Init, RoomRight, Mapped, Manned, Awaits, Waiting, Started,
     Reported, NoProgress
<1>3. QED
  BY <1>1, <1>2 DEF IInv

LEMMA NextInv == IInv /\ [Next]_vars => IInv'
<1> SUFFICES ASSUME IInv, [Next]_vars PROVE IInv'
  OBVIOUS
<1>1. ASSUME NEW u \in Uids, Request(u) PROVE IInv'
  BY <1>1, RequestStep
<1>2. ASSUME NEW b \in Battles, OnTimer(b) PROVE IInv'
  BY <1>2, TimerStep
<1>3. CASE UNCHANGED vars
  BY <1>3, QuietStep DEF vars, IInv, TypeOK
<1>4. QED
  BY <1>1, <1>2, <1>3 DEF Next

THEOREM RoomInvariant == Spec => []IInv
BY InitInv, NextInv, PTL DEF Spec

\* The model's states are of their type.
THEOREM RoomTypes == Spec => []TypeOK
<1>1. IInv => TypeOK
  BY DEF IInv
<1>2. QED
  BY <1>1, RoomInvariant, PTL

\* Whoever getRoomWithUid finds a room for has joined that room.
THEOREM FoundPlayers == Spec => []FoundHasJoined
<1>1. IInv => FoundHasJoined
  BY DEF IInv, RoomRight, Mapped, FoundHasJoined, InRoom
<1>2. QED
  BY <1>1, RoomInvariant, PTL

\* No battle starts without its two players.
THEOREM StartedManned == Spec => []StartedWithBoth
<1>1. IInv => StartedWithBoth
  BY DEF IInv, RoomRight, Manned, StartedWithBoth
<1>2. QED
  BY <1>1, RoomInvariant, PTL

\* A room does not wait for players who are ready.
THEOREM ReadyRoomsStart == Spec => []ReadyStarts
<1>1. IInv => ReadyStarts
  BY DEF IInv, RoomRight, Awaits, ReadyStarts
<1>2. QED
  BY <1>1, RoomInvariant, PTL

LEMMA StepForward ==
    ASSUME IInv, [Next]_vars, NEW b \in Battles
    PROVE  /\ state[b] \in Started => state'[b] \notin Waiting
           /\ state[b] = "fighting" => state'[b] # "idletime"
<1> USE DEF IInv, TypeOK
<1>1. ASSUME NEW u \in Uids, NEW c \in Battles, Joins(u, c)
      PROVE  state[c] \notin Started
  <2>1. players[c] # Entrants[c]
    BY <1>1 DEF Joins
  <2>2. QED
    BY <2>1 DEF RoomRight, Manned
<1>2. ASSUME NEW u \in Uids, Request(u)
      PROVE  state[b] \in Started => state'[b] = state[b]
  <2>1. CASE \E c \in Battles : Opens(u, c)
    BY <2>1 DEF Opens, Started
  <2>2. ASSUME NEW c \in Battles, Joins(u, c)
        PROVE  state[b] \in Started => state'[b] = state[b]
    <3>1. state[c] \notin Started
      BY <1>1, <2>2
    <3>2. state' = state \/ state' = [state EXCEPT ![c] = "loading"]
      BY <2>2 DEF Joins
    <3>3. QED
      BY <3>1, <3>2
  <2>3. CASE \E c \in Battles : Reenters(u, c)
    BY <2>3 DEF Reenters
  <2>4. CASE \E r \in {"part", "full"} : Loading(u, r)
    BY <2>4 DEF Loading
  <2>5. CASE Ready(u)
    BY <2>5 DEF Ready, StartRoom, Waiting, Started
  <2>6. CASE Reconnect(u) \/ OffLine(u)
    BY <2>6 DEF Reconnect, OffLine
  <2>7. QED
    BY <1>2, <2>1, <2>2, <2>3, <2>4, <2>5, <2>6 DEF Request
<1>3. ASSUME NEW c \in Battles, OnTimer(c)
      PROVE  /\ state[b] = "idletime" => state'[b] \in {"idletime", "fighting", "noroom"}
             /\ state[b] = "fighting" => state'[b] \in {"fighting", "noroom"}
  <2>1. CASE Counts(c) \/ BattleEnds(c)
    BY <2>1 DEF Counts, BattleEnds
  <2>2. CASE Expires(c)
    BY <2>2 DEF Expires, ExitRoom, StartRoom
  <2>3. CASE Fights(c)
    BY <2>3 DEF Fights
  <2>4. CASE Settles(c)
    BY <2>4 DEF Settles, ExitRoom
  <2>5. QED
    BY <1>3, <2>1, <2>2, <2>3, <2>4 DEF OnTimer
<1>4. CASE UNCHANGED vars
  BY <1>4 DEF vars, Started, Waiting
<1>5. QED
  BY <1>2, <1>3, <1>4 DEF Next, Started, Waiting

\* A battle that has begun neither loads nor starts again.
THEOREM BattlesGoForward == Spec => NeverBack
<1>1. IInv /\ [Next]_vars =>
        [\A b \in Battles :
            /\ state[b] \in Started => state'[b] \notin Waiting
            /\ state[b] = "fighting" => state'[b] # "idletime"]_vars
  BY StepForward
<1>2. QED
  BY <1>1, RoomInvariant, PTL DEF Spec, NeverBack
============================================================================
