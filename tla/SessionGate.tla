---------------------------- MODULE SessionGate ----------------------------
(***************************************************************************)
(* The client side of the SessionServer process: how a TCP connection is   *)
(* accepted as a guest, verified into a user, displaced by a second login  *)
(* of the same account, kicked, timed out or lost, and what the backend    *)
(* servers are told about it.                                              *)
(*                                                                         *)
(* The process is one event loop, so each handler is one atomic action.    *)
(* A connection object (CSessionClient) is a member of Conns; the object   *)
(* lives while the poller, one of the two maps or its own heartbeat timer  *)
(* holds a reference to it, and a member of Conns that nothing holds may   *)
(* be allocated again.                                                     *)
(***************************************************************************)
EXTENDS Naturals, Sequences, FiniteSets

CONSTANTS
    Conns,          \* CSessionClient objects
    Users,          \* account ids (m_UserId)
    GuestIdLimit,   \* the largest id of genGuestId; 0xFFFFFFFE in the code
    Granted,        \* the permissions a verification or SetPermission grants
    MaxVerify,      \* bound: verifications under way at the CheckServer
    MaxQueue,       \* bound: messages on their way to the service backends
    NoConn,         \* no client object: NULL, or an id absent from a map
    NoUser          \* m_UserId of a connection that is not verified, 0

GuestIds == 1..GuestIdLimit

\* Account ids and guest ids share the id field of a message head.  The
\* accounts of a deployment start above every guest id.
ASSUME GateAssumption ==
    /\ GuestIdLimit \in Nat \ {0}
    /\ Granted \subseteq Nat \ {0}
    /\ MaxVerify \in Nat /\ MaxQueue \in Nat
    /\ NoConn \notin Conns
    /\ NoUser \notin Users
    /\ Users \cap GuestIds = {}

VARIABLES
    poller,       \* connections registered with the poller (m_PollMap)
    guests,       \* m_GuestMap: guest id -> connection
    users,        \* m_UserMap: user id -> connection
    heartbeat,    \* connections whose heartbeat timer is pending
    permission,   \* m_Permission of each connection object
    guestId,      \* m_GuestId of each connection object
    userId,       \* m_UserId of each connection object
    nextGuest,    \* CNetWorkManager::m_GuestId
    verifying,    \* login checks sent to the CheckServer and not answered
    toService,    \* messages sent to the service backends, oldest first
    refused,      \* history: the guest ids onAccept refused a connection for
    announced,    \* history: the connections that have sent CMD_LOGIN_CS
    timedOut      \* history: accounts whose last connection a heartbeat ended

connVars == <<permission, guestId, userId>>
mapVars  == <<poller, guests, users, heartbeat>>
idVars   == <<nextGuest, refused>>
gateVars == <<poller, guests, users, heartbeat, permission, guestId, userId,
              nextGuest, verifying, toService, refused, announced, timedOut>>

\* A check carries the id of the asking connection's message head and the
\* account it asks for.
Check   == [id : GuestIds \cup Users, uid : Users]
Message == [type : {"login", "offline"}, uid : Users \cup {NoUser}]

TypeOK ==
    /\ poller \subseteq Conns /\ heartbeat \subseteq Conns
    /\ guests \in [GuestIds -> Conns \cup {NoConn}]
    /\ users \in [Users -> Conns \cup {NoConn}]
    /\ permission \in [Conns -> {0} \cup Granted]
    /\ guestId \in [Conns -> GuestIds]
    /\ userId \in [Conns -> Users \cup {NoUser}]
    /\ nextGuest \in GuestIds
    /\ verifying \subseteq Check
    /\ toService \in Seq(Message)
    /\ refused \subseteq GuestIds
    /\ announced \subseteq Conns
    /\ timedOut \subseteq Users

GateInit ==
    /\ poller = {} /\ heartbeat = {}
    /\ guests = [g \in GuestIds |-> NoConn]
    /\ users = [u \in Users |-> NoConn]
    /\ permission = [c \in Conns |-> 0]
    /\ guestId = [c \in Conns |-> 1]
    /\ userId = [c \in Conns |-> NoUser]
    /\ nextGuest = 1
    /\ verifying = {}
    /\ toService = <<>>
    /\ refused = {} /\ announced = {}
    /\ timedOut = {}

----------------------------------------------------------------------------
(* Helpers *)

\* No poller, timer or map refers to the object: it is deleted.
Freed(c) ==
    /\ c \notin poller \cup heartbeat
    /\ \A g \in GuestIds : guests[g] # c
    /\ \A u \in Users : users[u] # c

\* The id a client message is given before it is routed.
HeadId(c) == IF permission[c] = 0 THEN guestId[c] ELSE userId[c]

\* The two maps after CSessionClient::clean on c: the entry under the id that
\* c's permission selects goes, whoever it refers to.
GuestsWithout(c) ==
    IF permission[c] = 0 THEN [guests EXCEPT ![guestId[c]] = NoConn] ELSE guests
UsersWithout(c) ==
    IF permission[c] # 0 THEN [users EXCEPT ![userId[c]] = NoConn] ELSE users

CleanKeepsPoller(c) ==
    /\ guests' = GuestsWithout(c)
    /\ users' = UsersWithout(c)
    /\ heartbeat' = heartbeat \ {c}
    /\ poller' = poller

\* CSessionClient::clean: the map entry, the timer and the poller let c go.
Clean(c) ==
    /\ guests' = GuestsWithout(c)
    /\ users' = UsersWithout(c)
    /\ heartbeat' = heartbeat \ {c}
    /\ poller' = poller \ {c}

Offline(u) == [type |-> "offline", uid |-> u]
Room(n)    == Len(toService) + n <= MaxQueue
TellFirst(m) == Room(1) /\ toService' = <<m>> \o toService
Tell(m)    == Room(1) /\ toService' = Append(toService, m)

DisconnectSilently(c) == Clean(c) /\ UNCHANGED toService

\* CSessionModule::userDisconnect: every backend hears OffLine with the
\* m_UserId of the connection (NoUser for a guest), then it is cleaned.
UserDisconnect(c) == Clean(c) /\ Tell(Offline(userId[c]))

----------------------------------------------------------------------------
(* Clients *)

\* genGuestId: the counter after an id has been issued.
NextIdNoWrap(n) == n + 1
NextId(n) == IF n >= GuestIdLimit THEN 1 ELSE n + 1

\* CSessionListener::onAccept with a free guest id: the new object is put in
\* the guest map and in the poller.  The id issued is never one that is still
\* being verified: 2^32 connections are accepted before an id comes back.
Accept(c) ==
    /\ Freed(c)
    /\ \A v \in verifying : v.id # nextGuest
    /\ guests[nextGuest] = NoConn
    /\ guests' = [guests EXCEPT ![nextGuest] = c]
    /\ guestId' = [guestId EXCEPT ![c] = nextGuest]
    /\ permission' = [permission EXCEPT ![c] = 0]
    /\ userId' = [userId EXCEPT ![c] = NoUser]
    /\ poller' = poller \cup {c} /\ heartbeat' = heartbeat \cup {c}
    /\ nextGuest' = NextId(nextGuest)
    /\ announced' = announced \ {c}
    /\ UNCHANGED <<users, verifying, toService, refused, timedOut>>

\* onAccept when the wrapped counter meets a guest that is still connected:
\* addGuest fails and the new object is released.  The heartbeat its
\* constructor armed keeps it, with the guest id of the other.
Refuse(c) ==
    /\ Freed(c)
    /\ guests[nextGuest] # NoConn
    /\ guestId' = [guestId EXCEPT ![c] = nextGuest]
    /\ permission' = [permission EXCEPT ![c] = 0]
    /\ userId' = [userId EXCEPT ![c] = NoUser]
    /\ heartbeat' = heartbeat \cup {c}
    /\ refused' = refused \cup {nextGuest}
    /\ nextGuest' = NextId(nextGuest)
    /\ announced' = announced \ {c}
    /\ UNCHANGED <<poller, guests, users, verifying, toService, timedOut>>

\* A client asks for account u; processLogic routes the request, permission 0,
\* to the CheckServer under the connection's HeadId.
AskVerify(c, u) ==
    /\ c \in poller
    /\ LET v == [id |-> HeadId(c), uid |-> u] IN
          verifying' = verifying \cup {v}
    /\ Cardinality(verifying) < MaxVerify
    /\ UNCHANGED <<mapVars, connVars, idVars, toService, announced, timedOut>>

\* A verified client sends CMD_LOGIN_CS, routed to the service backend when
\* its permission is at least 1.
SendLogin(c) ==
    /\ c \in poller
    /\ permission[c] >= 1
    /\ Tell([type |-> "login", uid |-> HeadId(c)])
    /\ announced' = announced \cup {c}
    /\ UNCHANGED <<mapVars, connVars, idVars, verifying, timedOut>>

\* The peer closes or its socket fails: KxEpoller reports the error to
\* CSessionModule::processError.
ConnectionLost(c) ==
    /\ c \in poller
    /\ UserDisconnect(c)
    /\ UNCHANGED <<connVars, idVars, verifying, announced, timedOut>>

\* CSessionClient::onTimer, a day after the client was last heard of.  It
\* cleans the connection and tells no backend.  When c is a refused object,
\* the guest that has its id loses its map entry.
HeartbeatExpired(c) ==
    /\ c \in heartbeat
    /\ DisconnectSilently(c)
    /\ timedOut' = timedOut \cup ({userId[c]} \cap Users)
    /\ UNCHANGED <<connVars, idVars, verifying, announced>>

----------------------------------------------------------------------------
(* Messages from the backends.  Where a handler goes on with the client it *)
(* has just sent to (the replies of ServerSubInit and ServerSubDisconnect), *)
(* the send succeeds: after a failed one the object is freed and what the   *)
(* process does is undefined.                                              *)

\* ServerSubInit for a check that failed: the guest is told and cleaned.
InitRejected(v) ==
    /\ v \in verifying
    /\ verifying' = verifying \ {v}
    /\ v.id \in GuestIds
    /\ guests[v.id] # NoConn
    /\ Clean(guests[v.id])
    /\ UNCHANGED <<connVars, idVars, toService, announced, timedOut>>

\* ServerSubInit when the asking connection is gone, or is no guest any more.
InitIgnored(v) ==
    /\ v \in verifying
    /\ verifying' = verifying \ {v}
    /\ v.id \in GuestIds => guests[v.id] = NoConn
    /\ UNCHANGED <<mapVars, connVars, idVars, toService, announced, timedOut>>

InitAcceptedNoKick(v, p) ==
    /\ v \in verifying
    /\ verifying' = verifying \ {v}
    /\ v.id \in GuestIds
    /\ guests[v.id] # NoConn
    /\ LET c == guests[v.id] IN
          /\ permission' = [permission EXCEPT ![c] = p]
          /\ userId' = [userId EXCEPT ![c] = v.uid]
          /\ guests' = [guests EXCEPT ![guestId[c]] = NoConn]
          /\ users' = [users EXCEPT ![v.uid] = c]
    /\ timedOut' = timedOut \ {v.uid}
    /\ UNCHANGED <<poller, heartbeat, guestId, idVars, toService, announced>>

\* ServerSubInit for a check that succeeded.  EventLogin displaces another
\* connection of the same account: it is told (and, when the send fails, goes
\* through userDisconnect first) and cleaned; then the guest becomes the user.
InitAccepted(v, p) ==
    /\ v \in verifying
    /\ verifying' = verifying \ {v}
    /\ v.id \in GuestIds
    /\ guests[v.id] # NoConn
    /\ LET c == guests[v.id]
           old == users[v.uid]
           displaced == old \notin {NoConn, c}
       IN /\ permission' = [permission EXCEPT ![c] = p]
          /\ userId' = [userId EXCEPT ![c] = v.uid]
          /\ IF displaced
             THEN /\ poller' = poller \ {old} /\ heartbeat' = heartbeat \ {old}
                  /\ guests' = [GuestsWithout(old) EXCEPT ![guestId[c]] = NoConn]
                  /\ users' = [UsersWithout(old) EXCEPT ![v.uid] = c]
                  /\ UNCHANGED toService \/ Tell(Offline(userId[old]))
             ELSE /\ guests' = [guests EXCEPT ![guestId[c]] = NoConn]
                  /\ users' = [users EXCEPT ![v.uid] = c]
                  /\ UNCHANGED <<poller, heartbeat, toService>>
    /\ timedOut' = timedOut \ {v.uid}
    /\ UNCHANGED <<guestId, idVars, announced>>

\* ServerSubDisconnect: the user is told, every backend hears OffLine, and the
\* connection is cleaned.
Kick(u) ==
    /\ users[u] # NoConn
    /\ Clean(users[u])
    /\ Tell(Offline(u))
    /\ UNCHANGED <<connVars, idVars, verifying, announced, timedOut>>

\* ServerSubSetPermission
SetPermission(u, p) ==
    /\ users[u] # NoConn
    /\ permission' = [permission EXCEPT ![users[u]] = p]
    /\ UNCHANGED <<mapVars, guestId, userId, idVars, verifying, toService,
                   announced, timedOut>>

\* ServerSubTransmit, ServerSubQueryLoad: a send to the user that fails runs
\* removeCommObject and onError inside sendData.
TransmitFails(u) ==
    /\ users[u] # NoConn
    /\ UserDisconnect(users[u])
    /\ UNCHANGED <<connVars, idVars, verifying, announced, timedOut>>

----------------------------------------------------------------------------

ClientStep ==
    \E c \in Conns :
        \/ Accept(c)
        \/ Refuse(c)
        \/ \E u \in Users : AskVerify(c, u)
        \/ SendLogin(c)
        \/ ConnectionLost(c)
        \/ HeartbeatExpired(c)

CheckStep ==
    \E v \in verifying :
        \/ InitRejected(v)
        \/ InitIgnored(v)
        \/ \E p \in Granted : InitAccepted(v, p)

BackendStep ==
    \E u \in Users :
        \/ Kick(u)
        \/ \E p \in Granted : SetPermission(u, p)
        \/ TransmitFails(u)

GateStep == ClientStep \/ CheckStep \/ BackendStep

\* The service backends take the oldest message.
ServiceTakes ==
    /\ toService # <<>>
    /\ toService' = Tail(toService)
    /\ UNCHANGED <<mapVars, connVars, idVars, verifying, announced, timedOut>>

Next == GateStep \/ ServiceTakes

Spec == GateInit /\ [][Next]_gateVars

----------------------------------------------------------------------------
(* Properties *)

\* A connection the poller can wake up is found in exactly one map, under its
\* own id, and each map entry is such a connection: no client is unreachable
\* for the backends, and no message for one account goes to another's client.
\* Only a guest may be in no map, when its id is one at which onAccept has
\* refused a connection after the counter wrapped.  Every client has its
\* heartbeat pending, and what only a heartbeat keeps is a refused object.
GuestEntriesRight ==
    \A g \in GuestIds : guests[g] # NoConn =>
        /\ guests[g] \in poller
        /\ permission[guests[g]] = 0
        /\ guestId[guests[g]] = g
UserEntriesRight ==
    \A u \in Users : users[u] # NoConn =>
        /\ users[u] \in poller
        /\ permission[users[u]] # 0
        /\ userId[users[u]] = u
PolledAreIndexed ==
    \A c \in poller :
        /\ permission[c] = 0 =>
              userId[c] = NoUser /\ (guests[guestId[c]] = c \/ guestId[c] \in refused)
        /\ permission[c] # 0 => userId[c] \in Users /\ users[userId[c]] = c
KeptByTimer ==
    /\ poller \subseteq heartbeat
    /\ \A c \in heartbeat \ poller :
          permission[c] = 0 /\ userId[c] = NoUser /\ guestId[c] \in refused
Indexed == GuestEntriesRight /\ UserEntriesRight /\ PolledAreIndexed /\ KeptByTimer

\* CSummonerEvent, EventLogin: when an account moves from one connection to
\* another, the connection that had it is closed in the same step, so that its
\* later loss cannot log the account out.
TakeoverClosesOld ==
    [][\A u \in Users :
          users[u] # NoConn /\ users'[u] \notin {NoConn, users[u]}
             => users[u] \notin poller']_gateVars

\* A message about u waits in the queue behind which nothing says that u left.
LeftBehind(u) ==
    \E i \in 1..Len(toService) :
        /\ toService[i] = Offline(u)
        /\ \A j \in i+1..Len(toService) : toService[j] # [type |-> "login", uid |-> u]

\* While a connection that sent CMD_LOGIN_CS holds account u, the backends do
\* not end up with "u is offline": no OffLine of an earlier connection of u is
\* queued behind that login.
LoginNotOvertaken ==
    \A u \in Users :
        users[u] # NoConn /\ users[u] \in announced => ~LeftBehind(u)

\* userDisconnect, step 1: when an account is left without a connection, all
\* servers are told so.  The heartbeat is the exception.
Reported(u) == Len(toService') > Len(toService) /\ toService'[Len(toService')] = Offline(u)
LeaversReported ==
    [][\A u \in Users :
          users[u] # NoConn /\ users'[u] = NoConn
             => Reported(u) \/ u \in timedOut']_gateVars
============================================================================
