-------------------------------- MODULE Room --------------------------------
(***************************************************************************)
(* The BattleServer's CRoomManager and CPvpRoom: two matched players enter *)
(* a room, load the battle, get ready and fight; a timer sends a player    *)
(* away who waits alone, starts a battle whose players load too long, and  *)
(* removes the room when the battle is over.                               *)
(*                                                                         *)
(* A room that does not exist is "noroom"; its other fields are then those *)
(* of a new one.  m_PlayerProgress and m_nRoomTick are kept until the      *)
(* battle starts: nothing but the display reads them afterwards.           *)
(*                                                                         *)
(* Assumed: every battle is of room type PVPROOMTYPE_PVP, a player enters  *)
(* only battles given to him, and the data he brings is well-formed.       *)
(***************************************************************************)
EXTENDS Integers, FiniteSets

CONSTANTS
    Uids,           \* players
    Battles,        \* battle ids the MatchServer has given out
    Entrants,       \* battle -> the two players it was given to
    PrepareExpire,  \* PVPROOM_PREPARE_EXPIRE
    LoadingExpire,  \* PVPROOM_LOADING_EXPIRE
    ReadyExpire,    \* the 10 seconds of playerReady
    NoBattle        \* a uid absent from m_UsersBattleId

Capacity == 2

ASSUME RoomAssumption ==
    /\ IsFiniteSet(Uids)
    /\ Entrants \in [Battles -> SUBSET Uids]
    /\ \A b \in Battles : Cardinality(Entrants[b]) = Capacity
    /\ PrepareExpire \in Nat \ {0}
    /\ LoadingExpire \in Nat \ {0}
    /\ ReadyExpire \in Nat \ {0}
    /\ NoBattle \notin Battles

VARIABLES
    battleOf,    \* m_UsersBattleId
    state,       \* m_nRoomState of the rooms in m_PVPRoomMap
    players,     \* the keys of m_Players
    connecting,  \* the players whose m_bIsConnecting is set
    progress,    \* m_PlayerProgress; "full" and "ready" both stand for 100,
                 \* reported by a Loading and by a Ready message
    tick,        \* m_nRoomTick
    over         \* rooms whose battle scene has IsBattleOver

vars == <<battleOf, state, players, connecting, progress, tick, over>>
mates == <<battleOf, players, connecting>>

Waiting == {"prepareload", "loading"}
Started == {"idletime", "fighting"}
Reports == {"part", "full", "ready"}

TypeOK ==
    /\ battleOf \in [Uids -> Battles \cup {NoBattle}]
    /\ state \in [Battles -> {"noroom"} \cup Waiting \cup Started]
    /\ players \in [Battles -> SUBSET Uids]
    /\ connecting \in [Battles -> SUBSET Uids]
    /\ progress \in [Battles -> [Uids -> Reports \cup {"none"}]]
    /\ tick \in [Battles -> Nat]
    /\ over \subseteq Battles

NoProgress == [u \in Uids |-> "none"]

Init ==
    /\ battleOf = [u \in Uids |-> NoBattle]
    /\ state = [b \in Battles |-> "noroom"]
    /\ players = [b \in Battles |-> {}]
    /\ connecting = [b \in Battles |-> {}]
    /\ progress = [b \in Battles |-> NoProgress]
    /\ tick = [b \in Battles |-> 0]
    /\ over = {}

----------------------------------------------------------------------------
(* Helpers *)

\* getRoomWithUid: u's room is b.
InRoom(u, b) == battleOf[u] = b /\ state[b] # "noroom"

Reported(p) == {u \in Uids : p[u] # "none"}
Complete(p) == {u \in Uids : p[u] \in {"full", "ready"}}

\* isAllReady
AllReadyOfThose(p) == Reported(p) # {} /\ Reported(p) \subseteq Complete(p)
AllReady(p) ==
    /\ Cardinality(Reported(p)) >= Capacity
    /\ Reported(p) \subseteq Complete(p)

\* playerLoading: the first report of a room enters its players with 0.
Report(b, u, r) ==
    LET p == progress[b]
        q == IF p = NoProgress
             THEN [v \in Uids |-> IF v \in players[b] THEN "part" ELSE "none"]
             ELSE p
    IN  [q EXCEPT ![u] = r]

\* getOpponentUid and isPlayerDisconnect: there is no other player, or his
\* connection is lost.
OpponentAway(b, u) == \A v \in players[b] \ {u} : v \notin connecting[b]

\* startRoom
StartRoom(b) ==
    /\ state' = [state EXCEPT ![b] = "idletime"]
    /\ progress' = [progress EXCEPT ![b] = NoProgress]
    /\ tick' = [tick EXCEPT ![b] = 0]

\* exitRoom and removeWithBattleId: the room goes, and with it the battle of
\* each of its players, whichever that is.
RemovesRoomOnly(b) ==
    /\ state' = [state EXCEPT ![b] = "noroom"]
    /\ players' = [players EXCEPT ![b] = {}]
    /\ connecting' = [connecting EXCEPT ![b] = {}]
    /\ progress' = [progress EXCEPT ![b] = NoProgress]
    /\ tick' = [tick EXCEPT ![b] = 0]
    /\ over' = over \ {b}
    /\ UNCHANGED battleOf
ExitRoom(b) ==
    /\ battleOf' = [u \in Uids |-> IF u \in players[b] THEN NoBattle ELSE battleOf[u]]
    /\ state' = [state EXCEPT ![b] = "noroom"]
    /\ players' = [players EXCEPT ![b] = {}]
    /\ connecting' = [connecting EXCEPT ![b] = {}]
    /\ progress' = [progress EXCEPT ![b] = NoProgress]
    /\ tick' = [tick EXCEPT ![b] = 0]
    /\ over' = over \ {b}

----------------------------------------------------------------------------
(* Requests *)

\* processEnterRoomSS for a battle with no room: the room is created.
Opens(u, b) ==
    /\ u \in Entrants[b]
    /\ state[b] = "noroom"
    /\ battleOf' = [battleOf EXCEPT ![u] = b]
    /\ state' = [state EXCEPT ![b] = "prepareload"]
    /\ players' = [players EXCEPT ![b] = {u}]
    /\ connecting' = [connecting EXCEPT ![b] = {u}]
    /\ tick' = [tick EXCEPT ![b] = PrepareExpire]
    /\ UNCHANGED <<progress, over>>

\* processEnterRoomSS for a room that takes u; it is full then, and loads.
JoinsAgain(u, b) ==
    /\ u \in Entrants[b]
    /\ state[b] # "noroom"
    /\ battleOf' = [battleOf EXCEPT ![u] = b]
    /\ players' = [players EXCEPT ![b] = @ \cup {u}]
    /\ connecting' = [connecting EXCEPT ![b] = @ \cup {u}]
    /\ IF Cardinality(players'[b]) >= Capacity /\ state[b] # "fighting"
       THEN /\ state' = [state EXCEPT ![b] = "loading"]
            /\ tick' = [tick EXCEPT ![b] = LoadingExpire]
       ELSE UNCHANGED <<state, tick>>
    /\ UNCHANGED <<progress, over>>
Joins(u, b) ==
    /\ u \in Entrants[b]
    /\ state[b] # "noroom"
    /\ u \notin players[b] /\ Cardinality(players[b]) < Capacity
    /\ battleOf' = [battleOf EXCEPT ![u] = b]
    /\ players' = [players EXCEPT ![b] = @ \cup {u}]
    /\ connecting' = [connecting EXCEPT ![b] = @ \cup {u}]
    /\ IF Cardinality(players'[b]) >= Capacity /\ state[b] # "fighting"
       THEN /\ state' = [state EXCEPT ![b] = "loading"]
            /\ tick' = [tick EXCEPT ![b] = LoadingExpire]
       ELSE UNCHANGED <<state, tick>>
    /\ UNCHANGED <<progress, over>>

\* processEnterRoomSS when playerJoin refuses: u is in the room already.
Reenters(u, b) ==
    /\ u \in Entrants[b]
    /\ state[b] # "noroom"
    /\ u \in players[b] \/ Cardinality(players[b]) >= Capacity
    /\ battleOf' = [battleOf EXCEPT ![u] = b]
    /\ UNCHANGED <<state, players, connecting, progress, tick, over>>

\* processLoading
Loading(u, r) ==
    \E b \in Battles :
        /\ InRoom(u, b) /\ state[b] \in Waiting
        /\ progress' = [progress EXCEPT ![b] = Report(b, u, r)]
        /\ UNCHANGED <<mates, state, tick, over>>

ReadyBeforeLoading(u) ==
    \E b \in Battles :
        /\ InRoom(u, b) /\ state[b] \in Waiting
        /\ LET p == Report(b, u, "ready") IN
              \/ state[b] = "prepareload" /\ AllReady(p) /\ StartRoom(b)
              \/ /\ state[b] = "loading" \/ ~AllReady(p)
                 /\ progress' = [progress EXCEPT ![b] = p]
                 /\ UNCHANGED <<state, tick>>
        /\ UNCHANGED <<mates, over>>

\* processReady, playerReady: the battle starts when both are ready; when the
\* opponent is away, ten seconds remain from now on.
Ready(u) ==
    \E b \in Battles :
        /\ InRoom(u, b) /\ state[b] \in Waiting
        /\ LET p == Report(b, u, "ready") IN
              \/ AllReady(p) /\ StartRoom(b)
              \/ /\ ~AllReady(p)
                 /\ progress' = [progress EXCEPT ![b] = p]
                 /\ tick' = IF OpponentAway(b, u) THEN [tick EXCEPT ![b] = ReadyExpire]
                            ELSE tick
                 /\ UNCHANGED state
        /\ UNCHANGED <<mates, over>>

\* processReconnect, playerReconnect
Reconnect(u) ==
    \E b \in Battles :
        /\ InRoom(u, b)
        /\ connecting' = [connecting EXCEPT ![b] = @ \cup ({u} \cap players[b])]
        /\ UNCHANGED <<battleOf, players, state, progress, tick, over>>

\* processPlayerOffLine, playerDisconnect
OffLine(u) ==
    \E b \in Battles :
        /\ InRoom(u, b)
        /\ connecting' = [connecting EXCEPT ![b] = @ \ {u}]
        /\ UNCHANGED <<battleOf, players, state, progress, tick, over>>

----------------------------------------------------------------------------
(* onTimer *)

CountsOn(b) ==
    /\ state[b] \in Waiting
    /\ tick' = [tick EXCEPT ![b] = @ - 1]
    /\ UNCHANGED <<mates, state, progress, over>>

\* A second passes before the start.
Counts(b) ==
    /\ state[b] \in Waiting
    /\ tick[b] # 1
    /\ tick' = [tick EXCEPT ![b] = @ - 1]
    /\ UNCHANGED <<mates, state, progress, over>>

ExpiresWhenHere(b) ==
    /\ tick[b] = 1
    /\ \/ state[b] = "prepareload" /\ ExitRoom(b)
       \/ /\ state[b] = "loading" /\ connecting[b] # {}
          /\ StartRoom(b)
          /\ UNCHANGED <<mates, over>>

\* The last second: a player who waits alone is told to match again; a battle
\* that loads too long starts, or ends when both players are away.
Expires(b) ==
    /\ tick[b] = 1
    /\ \/ /\ \/ state[b] = "prepareload"
             \/ state[b] = "loading" /\ connecting[b] = {}
          /\ ExitRoom(b)
       \/ /\ state[b] = "loading" /\ connecting[b] # {}
          /\ StartRoom(b)
          /\ UNCHANGED <<mates, over>>

\* Five seconds of preparation are over.
Fights(b) ==
    /\ state[b] = "idletime"
    /\ state' = [state EXCEPT ![b] = "fighting"]
    /\ UNCHANGED <<mates, progress, tick, over>>

\* executeGame: the simulation ends the battle, and the next frame settles it
\* and removes the room.
BattleEnds(b) ==
    /\ state[b] = "fighting" /\ b \notin over
    /\ over' = over \cup {b}
    /\ UNCHANGED <<mates, state, progress, tick>>
Settles(b) ==
    /\ state[b] = "fighting" /\ b \in over
    /\ ExitRoom(b)

OnTimer(b) == Counts(b) \/ Expires(b) \/ Fights(b) \/ BattleEnds(b) \/ Settles(b)

Request(u) ==
    \/ \E b \in Battles : Opens(u, b) \/ Joins(u, b) \/ Reenters(u, b)
    \/ \E r \in {"part", "full"} : Loading(u, r)
    \/ Ready(u)
    \/ Reconnect(u)
    \/ OffLine(u)

Next ==
    \/ \E u \in Uids : Request(u)
    \/ \E b \in Battles : OnTimer(b)

\* The timers of all rooms fire, and the simulation ends every battle: a stage
\* has a time limit.
Spec == Init /\ [][Next]_vars /\ \A b \in Battles : WF_vars(OnTimer(b))

----------------------------------------------------------------------------
(* Properties *)

\* enterRoom enters u into m_UsersBattleId before the room accepts him: still,
\* a request of u is only ever given to a room that u has joined, also when
\* the room of that battle has been removed and created again.
FoundHasJoined == \A u \in Uids, b \in Battles : InRoom(u, b) => u \in players[b]

\* startRoom: no battle starts without its two players, whether Ready messages
\* or the timer start it; the scene is built from both.
StartedWithBoth == \A b \in Battles : state[b] \in Started => players[b] = Entrants[b]

\* playerReady: a room does not go on waiting when both its players have
\* reported that they are ready, whatever was lost or came first.
ReadyStarts ==
    \A b \in Battles : state[b] \in Waiting =>
        \E u \in Entrants[b] : progress[b][u] # "ready"

\* loadingRoom, startRoom: a battle that has begun neither loads nor starts
\* again.
NeverBack ==
    [][\A b \in Battles :
          /\ state[b] \in Started => state'[b] \notin Waiting
          /\ state[b] = "fighting" => state'[b] # "idletime"]_vars

\* Every room ends, unless its players go on postponing it with Ready messages.
Postponed == \E b \in Battles : tick'[b] > tick[b] /\ state'[b] = state[b]
EveryRoomEnds ==
    <>[][~Postponed]_vars =>
        \A b \in Battles : state[b] # "noroom" ~> state[b] = "noroom"
============================================================================
