# Verification of trunkServer

TLA+ models of the parts of trunkServer (a mobile game's server cluster) in which
order, loss and timing decide whether the code is right, TLC configurations that
check them on small instances, and TLAPS proofs, for every value of the constants, of
all the safety properties the runs check: of the session gate, its backend connections,
the service's login and cache, the TCP unit in both directions, the timers, the matching
queue, the battle rooms and the guilds.  Paths are relative to the repository's root; `X.cpp:12` is line 12.

## The system

The cluster is a set of single-threaded processes.  Each runs one event loop:
`KxBaseServer` polls the sockets, runs the handlers of what arrived, then the due timers.
On Linux SessionServer and ChatServer poll through `KxEpoller`, edge triggered
(`SessionServer.cpp:66`, `ChatServer.cpp:133`); the others construct a `KxSelectPoller`
(`MatchServer.cpp:69`, `UnionServer.cpp:59`).  A handler is never interrupted, so **each handler is
one atomic action** of a model; concurrency is between processes, and within one
between handlers and the callbacks they run on the way (a failed `sendData` runs
`onError` of the same object before it returns).  Processes talk over TCP: a stream
keeps its order, two streams have none.

| component | state | operations | interaction |
|---|---|---|---|
| SessionServer, client gate (`SessionListener`, `SessionModule`, `SessionClient`, `SessionHelper`, `NetworkManager`, `SummonerEvent`) | guest map, user map, each client's permission and ids, guest id counter | accept, route, verification answer, takeover, kick, set permission, transmit, loss, heartbeat | CheckServer verifies; every backend hears OffLine |
| SessionServer, backend connections (`SessionConnect`, `ChangeConnectModule`, `SessionGMService`, `NetworkManager`) | groups of connections with reference counts and reconnect timers, the backup groups of a hot update | connect, lose, reconnect, update command, swap timer | all backends, the GM's client |
| CheckServer | requests to platforms | check request, HTTP answer | answers ServerSubInit to the gate |
| ServiceServer | accounts in memory | login, reconnect, offline, some thirty game services | CGameUserManager, models, Redis |
| Common `CGameUserManager` | accounts, removal list, map into it | get, create, schedule a removal, cancel it, timer | in Service, Match, Union |
| Common `CKxCommManager` | uid to session connection | add, delete, send, forward | in every backend |
| MatchServer `CNewMatchManager` | seven lists, robots, clocks, count | request, cancel, offline, timer, session loss | sends the battle route to the gate |
| BattleServer `CPvpRoom`, `CRoomManager` | rooms, their players, progress and clock, the battle of each player | enter, load, ready, reconnect, disconnect, timer, settle | entered through ServiceServer with a battle id of MatchServer; CKxCommManager, battle simulation |
| BattleServer simulation | scene, heroes, skills, buffs | frame step | room |
| UnionServer, guilds (`UnionService`, `UnionHelper`, `UnionManager`, `LoginUnionService`) | member and audit lists, chairman, each player's own record, in Redis and in memory | create, apply, audit, leave, kick, positions, daily, dissolve, login, loss | CGameUserManager, CKxCommManager, Redis |
| UnionServer, mercenaries and expeditions | lent heroes, common explorations in Redis | request and reply | session |
| CenterServer, ChatServer | rankings, chat lines in Redis | request and reply | service, session |
| kxServer TCP unit and poller | send and receive buffers, buffer list, poll type | send, flush, receive, error | every process |
| kxServer timers | timer lists | add, remove, update | every process |

What is hard in each, and what makes it right:

* **Gate.** Two connections of one account, a check answered late, a kick, a loss
  and a heartbeat come in any order.  Right means: each live connection is in
  exactly one map under its own id; a takeover leaves one connection; backends hear
  of departures, and never after the login of the successor.
* **Service and user cache.** OffLine schedules a removal an hour ahead, login
  cancels it.  Right means: no data of a player who is online is deleted, and the
  data of those who left is.
* **TCP unit.** Short writes, edge-triggered wake-ups, two places that remember the
  interest in writability, callbacks that send.  Right means: bytes arrive once, in
  order, and no queue is left unattended.
* **Match queue.** Lists spliced by hand, demotion during a walk, a load that changes
  the clocks.  Right means: a player waits once, pairs are not missed, everybody is
  served.
* **Rooms.** Loading, ready, disconnect, reconnect and expiry race, and a player can
  be matched again while his last battle goes on.  Right means: a battle starts once,
  with both players and when both are ready, its room ends, and a player's requests
  reach the room he is in.
* **Backend connections.** A hot update connects a second set of servers, counts the
  connections, and swaps ten seconds later, while connects fail, connections break,
  a GM leaves and a second command arrives.  Right means: every connector is freed by
  its last holder, requests never go to a part of a group, and an update takes effect.
* **Receiving.** A stream is cut anywhere, also inside a head; the receive buffer fills
  exactly.  Right means: the packets written, once, in order, none left waiting.
* **Timers.** Lists are changed by the callbacks they run.  Right means: each timer is in
  one list, in order of time, and is called as often as it was registered for.
* **Guilds.** A membership has three copies, which login, the delayed removal of data,
  two auditing guilds and the player himself change in any order.  Right means: one
  guild for a player, within its limit, with one chairman.

`PROJECT.json` lists each hazard at its line with the properties that cover it.

## Modules

| module | models | structure |
|---|---|---|
| `SessionGate` | the gate as above | one action per handler |
| `GameUsers` | `CGameUserManager` as the service uses it | operators on the cache and its list |
| `LoginFlow` | `SessionGate` and an INSTANCE of `GameUsers` over the ordered stream `toService` | composition |
| `TcpSend` | `KxTCPUnit` sending, `KxBufferList`, `KxEpoller` registration | one unit |
| `PacketStream` | what a connection promises its module | abstract specification |
| `TcpRecv` | `KxTCPUnit::onRecv`, `processLength`, the poller's loop around it | one unit; implements `PacketStream` |
| `Timers` | `KxTimerManager`, `KxTimerList`, `KxTimerObject` | one step per callback |
| `Backends` | `CSessionConnector`, `CChangeConnectModule`, the update command, the two maps of `CNetWorkManager` | one action per handler |
| `MatchQueue` | `CNewMatchManager` | one action per handler |
| `Room` | `CRoomManager`, `CPvpRoom` | one action per request, one per branch of the timer |
| `Guild` | `CUnionService`, `CUnionHelper`, `CUnionManager` | one action per request |
| `SessionGateMC`, `MatchQueueMC`, `RoomMC`, `GuildMC` | values, symmetry and view for TLC | |
| `LoginFlowProofs` (the gate and the service), `TcpSendProofs`, `TcpRecvProofs`, `TimersProofs`, `BackendsProofs`, `MatchQueueProofs`, `RoomProofs`, `GuildProofs` | theorems | |

A module states `TypeOK` where a run or a theorem uses it; the others say at
`VARIABLES` what each variable holds.

### SessionGate

`poller`, `guests`, `users` are the poller's map and the network manager's two maps;
`heartbeat` the connections whose 24 hour timer is pending, which retains its object;
`permission`, `guestId`, `userId` the members of each `CSessionClient`.  An object
that none of the four holds is `Freed` and its name can be accepted again, as its
memory can.  `verifying` holds checks sent to the CheckServer; they are answered in
any order, or never.  `toService` is the stream of messages to the service backends.

* `Accept`, `Refuse`: `onAccept`, whose `addGuest` fails when the wrapped counter
  meets a guest that is still connected.  The object refused is released and lives on
  by its heartbeat, with the id of the other.
* `AskVerify`, `SendLogin`: `processLogic` with a route of permission 0 or 1.
* `InitRejected`, `InitIgnored`, `InitAccepted`: `ServerSubInit` with the event
  `EventLogin`.  `InitAccepted` has two outcomes when the account is taken over,
  because a failed send to the displaced client runs `userDisconnect` on the way.
* `Kick`, `SetPermission`, `TransmitFails`: the other backend messages that change
  state.
* `ConnectionLost`, `HeartbeatExpired`: loss, and 24 hours of silence, after which a
  refused object's `clean` too removes the entry under its id.

`announced`, `timedOut` and `refused` are history: connections that have sent their
login, accounts whose last connection the heartbeat ended, and the guest ids at which a
connection was refused.  `Indexed` holds without exception for users and for guests
whose id is not in `refused`; what the others lose is their entry in the guest map.  Assumptions, stated in the
module: account ids and guest ids do not overlap (both travel in the same field of a
message head); 2^32 connections are not accepted while one check is under way; the
sends inside `ServerSubInit` and `ServerSubDisconnect` to the client that the handler
goes on using succeed, since the code's behaviour after a failure is undefined (the
comment at `SessionClient.cpp:76` knows).

### GameUsers and LoginFlow

`delList` is `m_DelUserList`; an entry's `mapped` says whether `m_MapDelUserList`
holds its iterator, and `left` counts timer intervals (300 s) until it is due.
`Schedule` is `removeGameUser`, `DontDelete` is `donotDeleteUser`, `Expire` the timer.
`LoginFlow` adds the reader of `toService` (`ServiceHandles`), other requests that
load an account (`ServiceServes`), and the timer.  `ServiceServes` has no guard on the
account's connection: the gate forwards what another backend sends about any uid
(`SessionHelper.cpp:132`), and the result of a battle or a mail calls `getGameUser` for a
player who is away.  `present` remembers whose last
message was a login.

### TcpSend

`tx` holds what the unit and the kernel hold: `m_SendBuffer`'s rest, `m_BufferList`,
the kernel's buffer (`wire`, at most `Room` bytes) and whether `m_PollType` has OUT.
`armed` is epoll's registration, `edge` an event epoll has to report.  `Send` is
`sendData` outside the unit's callbacks: it changes `armed` through
`modifyCommObject` and leaves `out`.  `Poll(reply)` is the unit's turn in
`KxEpoller::poll`: `onRecv`, whose handler may send `reply`, then `onSend`, then the
re-registration if `out` has changed.  epoll, the kernel and the peer are external.

### TcpRecv and PacketStream

A byte is a pair of its packet's number and its place in it, so lengths are found, as
`processLength` finds them, at the head of whatever the unit holds, and a byte out of
place is noticed.  `half` and `halfLen` are `m_RecvBuffer` up to its offset and
`m_RecvBufferLen`; `rest` is what follows `stickBuf`, and `ret` how much `onRecv` believes
it has.  `Recv` is `onRecv` up to its loop: `Fresh` without a half packet, `Continued`
with one, and the copy of what is missing when only now the length is known.  `Process` is
one turn of the loop.  Both refuse a length of 0 or above `MaxPkgLen`
(`MAX_TCP_PKG_LEN`); the peer writes no such packet.  `Poll` starts the poller's `while (ret > 0)`, which ends when a
chunk has not filled the buffer (`Full`) or nothing is left.  An unusable length is
`link = "error"`, an orderly end "ended".  The peer writes any part of what it has at
any time and may close.

`PacketStream` promises: `processLogic` once for each packet written, in order; an
orderly end only when all are delivered; and whatever has been written is delivered.  `DeliversStream` is that specification under the
mapping of complete packets, with its fairness.

### Timers

`list` maps a delay to its list, and `Agile` to the sorted list of `addTimerOnTime`;
`left` is `m_TimeVal - m_Now`, so that time passes by subtracting.  One `updateTimers` is
`Advance` (the clock), then `Fire` for each due head and `NextList`, list by list in
ascending order, the sorted one last.  `Fire` is the callback followed by what `update` does
with the timer afterwards (`Again`).  `Callback` allows nothing, any stop or
registration, and what the servers do to their own timer: stop it and register it for
ever.  A timer already registered may be registered again with its own delay
(`CSessionConnector::setTimer`), which changes its parameters only.  `owed` is history:
how many calls the registration has still to bring.

### Backends

A connector is a number; `link` tells whether it is connecting, up, down or freed,
`refs` is its count, `timer` whose reconnect timer is pending; the timer's callback
retains the connector, so it is one of the holders counted, with the poller and the
two maps.  `live` and `bak` are
`m_ServerMapByGroup` and `m_BakServerMapByGroup`, `module` whether a connector still
reports to the module of a command, `count` and `gm` that module's members, `changing`
is `m_bChanging`.  `Update(g, n, k)` is `processDynUpdateServer` for `n` servers of which `k`
connects were under way when the next failed in the call (`k = n`: none did).
`Connected` and `Refused` are the two events of `CChangeConnectModule::processEvent`,
`Break` a loss, `Reconnect` and `ReconnectNoSocket` the connector's `onTimer`, `SwapGroups`
the manager's, `GMLeaves` the end of the GM's client.  `crashed` stands for a NULL
dereference, and for one of the outcomes of using a freed object.  `order`, `source`,
`told`, `faults` and `trouble` are history.

### MatchQueue

A list is the sequence of its nodes, so the four splice cases of `insert` become one
insertion and those of `removeFromMatchList` what is `Kept` of the list.  `Tick` is `onTimer` with
everything it calls: all levels in ascending order (the recursive function
`updated`), a round when the level's clock says so, pairing from head or tail
(`Paired`), robots for those over the limit, demotion (`PassDown`, with `Sunk`), and the robots'
matches.  Sends inside it succeed (a failed one empties the lists under the walk, see
below); `Clear` is that loss outside a round.  `count` is `m_nMatcherCount`, with the omission of `clearMatchers`.
`robots` needs no matcher, since every robot match empties it.  Assumed are finitely
many players and, of the configuration and true of it, intervals of at least two
seconds, every number of points in some level, and no upper end of the high load.

### Room

`battleOf` is `m_UsersBattleId`; the other variables are functions of the battle id:
`state`, `players`, `connecting`, `progress`, `tick` of the room in `m_PVPRoomMap`, and
`over`, the scenes with `IsBattleOver`.  A battle id without room has state "noroom".
`progress` tells apart no report, one below 100, and 100 ("full" when a Loading
brought it, "ready" when a Ready did; the code treats both as 100).  `progress` and
`tick` are kept until the battle starts, since afterwards only the display reads them.

* `Opens`, `Joins`, `Reenters`: `processEnterRoomSS` for a battle without room, for a
  room that takes the player (and goes to loading when full), and for one that
  refuses him after `enterRoom` has mapped him to it.
* `Loading`, `Ready`, `Reconnect`, `OffLine`: the requests looked up by
  `getRoomWithUid`, and the gate's OffLine.
* `Counts`, `Expires`, `Fights`, `BattleEnds`, `Settles`: the branches of `onTimer`, with
  everything `exitRoom` and `startRoom` do.

A player may send any request in any state, enter a battle again after its room is
gone, and enter a second battle while the first goes on: MatchServer does not ask
whether he is in a room.  Assumed: every battle is of type `PVPROOMTYPE_PVP` and given
to two players who enter no others (battle ids come from MatchServer), the data they
bring is well-formed, `startRoom` can build its scene, and the simulation ends every
battle (a stage has a time limit); it is external.

### Guild

`unions` is `CUnionManager::m_UnionMap` with each guild's members' positions, chairman
field, level, admission and audit list; the guild's own data is written through to
Redis, so memory and Redis are one.  A player's `USER_UNION_ID` is two variables: `store` in Redis, `copy` in
the `CGameUser` in memory (`None` without one).  `apply` is his list of applications;
a time stamp is the time left until it.  `conn` tells whether the session has him
("on") and whether `CKxCommManager` does ("comm"), since `quitUnion` takes the latter for
being on line.

* `Login`, `OffLine`, `Forget`, `Restart`: login refreshes the copy, the delayed removal
  drops it (nothing on this server calls it off), a restart drops all.
* `UnionInfo`, `Asks`: requests that load a player, and on the first of a day read his
  record again.
* `Create`, `ApplyRefused`, `ApplyAuto`, `ApplyAudit`: `checkCreate` and `checkApply` with its
  loop over the player's applications, which strikes for each expired one the audit
  entry of the guild applied to now.
* `Audit`: `processAuditService` for one or two names; `AuditList` and `SetAudit` as in the
  code, the latter with the field it clears where it was to read it.
* `Exit`, `Kick`, `Relieve`, `Transfer`, `Appoint`, `Resign`: leaving and
  `processFunctionService`.
* `LevelUp`, `Daily`, `Dismiss`, `Tick`: growth by a forwarded activity of a player, on
  line or not, whom the handler loads; the day's end with `assignChairman` and a level
  lost, which loads the members; dissolution; time.  The one second in which the
  code's `>=`, `>` and `<` on time stamps differ is not told apart.

Assumed: Redis does not fail, requests are well-formed, and which of the highest members
inherits is left open (the code looks at level, activity and last login).

## Runs

| run | configuration | checks |
|---|---|---|
| `gate` | 3 connections, 2 accounts, 2 guest ids, 2 checks, queue of 2 | `TypeOK`, `Indexed`, `LoginNotOvertaken`, `TakeoverClosesOld`, `LeaversReported` |
| `login` | 2 connections, 1 account, queue of 2, 2 removal entries | `RemovalsInOrder`, `RemovalMapLatest`, `ServiceAgrees`, `LeaversDropped` |
| `login_return` | the same | refutes `ReturnedIsKept` |
| `tcp_send` | 4 packets of up to 3 bytes, 2 bytes in the kernel | `Conserved`, `PendingArmed`, `EverythingArrives` |
| `tcp_order` | 3 packets, 1 byte in the kernel | refutes `SentInOrder` |
| `tcp_recv` | 3 packets of 2 to 6 bytes, heads of 2, a buffer of 4 | `Contiguous`, `HalfLacks`, `DeliversStream` |
| `timers` | 3 timers, delays 1 and 2, up to 1 repeat or for ever, time steps of 1 and 2 | `LinkedOnce`, `DueInOrder`, `NoneOverdue`, `CalledAsPromised`, `KeepsFiring` |
| `backends` | 2 groups, 2 commands of up to 2 servers, 5 connectors, 2 faults | `HeldByCount`, `WholeGroups`, `SafeAlone`, `InstalledAlone` |
| `match` | 3 players of level 1 or 5, 1 or 2 points; 3 lists | `OneTicket`, `LevelsDescend`, `CountCovers`, `NoPairLeft`, `WaiterServed` |
| `room` | 3 players, 2 battles with one in common; 2, 3 and 2 ticks | `TypeOK`, `FoundHasJoined`, `StartedWithBoth`, `ReadyStarts`, `NeverBack`, `EveryRoomEnds` |
| `guild` | 2 players, 2 guilds of up to 2 members, 3 applications | `TypeOK`, `MembershipAgrees`, `CopySafe` |
| `guild_batch` | 3 players, 1 guild, levels of 1 and 2 members | `OneChairman`, `GrowsWithinLimit` |

Why the bounds are enough.  *gate*: a takeover needs two connections of an account, a
third lets another client be accepted, verified or lost in the middle, or be refused
at the id of one of two guests that live; two guest ids wrap after two accepts; two
checks let answers cross.  Symmetry over connections and accounts is sound, the run
has only safety properties; the view forgets members of freed objects, which
`Accept` overwrites.  *login*: one account suffices, since accounts meet only in the
order of `delList`, and with two entries of one account the order is visible; no
symmetry, because of the liveness property.  *tcp_send*: packets longer than the
kernel's buffer need two or more flushes, and four of them let one wait in the list
behind one in `m_SendBuffer` while another is sent.  *tcp_recv*: a buffer of two heads holds a packet
and a half, two bare heads, or less than the longest packet; three packets allow a
half one, whole ones and a further half in one chunk; every cut is tried.  *timers*:
three objects let a callback stop a second timer and set a third, in its own list, a
list still to come and one already passed; steps of two make two lists due at once;
symmetry of the objects is not used, because of the liveness property.  *backends*:
two groups are needed for one swap to install another group's servers, two commands
to overlap, two servers for one to fail behind the other; five connectors are the
first two and three of the commands'; with two faults a failure and a later loss
meet.  *match*: players of level 1 and 5 are too far apart (more than 3), players of one
level near; one score leads to list 2, one to list 3, so list 3 demotes into 2, and 2
into 1; load thresholds of 2 and 3 let the load change while players wait; under high
load the wait is 3 with a round every 2 seconds, so that a player can reach the limit
of 4.  *room*: only a player of two battles couples two rooms, through his one entry in
`battleOf`, so two battles with one player in common show all there is; two ticks or
three leave room for requests between a clock's start and its end, and a Ready's two
differ from loading's three.  *guild*: a membership concerns one player, so the races
are between the guilds that want him, and a second player audits or kicks; times of
one unit tell standing, expired and absent.  *guild_batch*: three players are a
chairman, a vice-chairman and an applicant, or a full guild and one more; going from
two members' level down to one's leaves a guild over its limit.  Symmetry of players is
sound in both, they check safety only.
`MaxVerify`, `MaxQueue`, `MaxPending`, `MaxCount`, `MaxUnions`, `MaxUpdates`, `MaxNum`,
`MaxConns`, `MaxFaults`, `MaxRepeat`, `MaxAhead`, `MaxGap`, `Packets` only bound the search.

Deadlock is checked in the runs of the gate, the service, sending, the timers, the
queue and the rooms.  It is not in `tcp_recv` (a connection ends), `backends` (a
session server that has crashed stops) and the two guild runs, in which the rest of
the system goes on.

Fairness.  `LoginFlow`: the service reads its connection and runs its timer; nothing
is assumed of clients, the CheckServer or the gate.  `TcpSend`: the event loop gives
the unit its turn when epoll has an event, and the peer reads; both are needed for
`EverythingArrives` and neither is more than the loop and TCP give.  `MatchQueue`:
the one-second timer goes on firing (`[]<><<Tick>>_vars`; `Tick` is always enabled,
so this is weak fairness).  `Room`: the timer of each room fires, and the simulation
ends its battle.  `TcpRecv`: the event loop goes on calling the unit; nothing is
assumed of the peer.  `Timers`: `updateTimers` is called again and again and reads a later
clock; nothing is assumed of handlers.  `Backends`: TCP ends every connect that is under
way, and the swap timer is called.  `EveryRoomEnds` further assumes that a moment comes after which no
Ready sets a clock back (`Postponed`): without it the property fails, since a player
whose opponent is away can ask for ten seconds more for ever.

Each property has a mutant: a definition (named `...NoKick`, `...First`, ...) that changes
one modelled definition as a plausible bug would, and with which TLC finds the
property violated.

`LeaversDropped` is about accounts of which the service has been told that they left:
their data is dropped, or they are told to be back, whatever loads come between; data loaded after
the drop is another matter, see the observations.

`SafeAlone` and `InstalledAlone` speak of updates without `trouble`: no connect refused, no
GM gone, no second command in between, no server replaced that is down and has no
reconnect pending.  That is the
part the code gets right; what it does otherwise is in the model, and listed below.

### What the refuted properties show

Each states what a comment of the code says and is violated by what the code does.

* `ReturnedIsKept`: OffLine, OffLine, login leaves an entry in `m_DelUserList` that
  `m_MapDelUserList` has forgotten; an hour later it deletes the data of an online
  player (`LoginService.cpp:1328`, `GameUserManager.cpp:552`).
* `SentInOrder`: with the list empty and `m_SendBuffer` half sent, a packet is written
  into the middle of another (`KxTCPUnit.cpp:57`).

### Observations

What the models do because the code does it, and no run states.

* A connection refused by `addGuest` leaves its object to the heartbeat, which a day later
  unmaps the live guest of the same id (`SessionListener.cpp:29`, `SessionClient.cpp:109`).
  That guest stays in the poller and no answer finds it; one to its check may then find
  the next guest that is given the id.
* Requests of other backends load accounts that are away (`SessionHelper.cpp:132`,
  `PvpBattleService.cpp:164`, `GameUserManager.cpp:96`).  When no removal is pending none
  is scheduled, and the data stays until the account has come and gone again.
* A send of `matchSuccess` that fails runs `clearMatchers` while the walk holds nodes of
  the list (`NewMatchManager.cpp:352`, `:386`, `MatchModule.cpp:50`).
* The heartbeat cleans a client and tells no backend, though `SessionModule.cpp:91` says
  all servers hear of it (`SessionClient.cpp:109`); `LeaversReported` excepts it.
* `insert` places a player behind the first node with more points, not the last, so
  players of one level are not in the order `NewMatchManager.h:32` gives
  (`NewMatchManager.cpp:135`).
* `level -= 1` in the demotion loop accumulates over the players of a round, who should
  go one level down (`NewMatchManager.cpp:399`, `:418`).
* `clearMatchers` leaves `m_nMatcherCount` (`NewMatchManager.cpp:572`), so the load stays
  overestimated; `CountCovers` bounds the count from below only.
* A room that ends erases the entry of each of its players, also of one who has since
  entered another battle, for whom `PvpService.cpp:245` then takes the room as destroyed
  (`RoomManager.cpp:111`).
* A group's swap installs every backup group, also one whose servers have not
  connected, because `m_bChanging` is set only when a command completes and a second
  one is accepted until then (`SessionGMService.cpp:91`, `NetworkManager.cpp:326`).
* A connect that succeeds after another of its command has failed dereferences NULL
  (`ChangeConnectModule.cpp:77`); a GM who has left is written to (`:66`); an old server
  that is down and given up (its reconnect failed within the call) is used after its last
  release (`NetworkManager.cpp:336`).  One that is down with its timer pending lives on,
  reconnects, and stays in the poller although it has been replaced.
* A connector refused under a command is kept by its reconnect timer; five seconds later
  it connects again under the command's module with group 0, whose backup group is
  `NULL`, and dereferences it when it succeeds (`SessionConnect.cpp:84`,
  `ChangeConnectModule.cpp:77`).
* A reconnect calls `connect` without a group, and the connector's becomes 0
  (`SessionConnect.cpp:84`); one that fails in the call is never tried again, and the
  buffers of the old connection are kept for the new one.
* `checkApply` strikes expired applications from the list of the guild applied to now
  (`UnionHelper.cpp:437`), and `removeAllApplyInfo` leaves the other guilds' entries, so
  audit lists hold entries of players who are members elsewhere; `auditUser` refuses
  those.
* `auditUser`'s branches for a player off line are never taken (`getGameUser` loads him).
* `quitUnion` decides by `CKxCommManager` whether a player is on line (`UnionHelper.cpp:613`),
  and can leave a copy that names the guild he left.
* `processSetAuditService` sets the field it should read, before it looks at the
  position (`UnionService.cpp:1131`): any member's request ends automatic admission.
* A chairman may kick himself, though `UnionService.cpp:445` does not let him leave; the
  guild then has none, and `assignChairman` does nothing any more.
* `processUnionInfoService` looks up an applicant's guild by the time stamp instead of the
  id (`UnionService.cpp:119`).
* Writes in several parts are not undone when a later one fails (`UnionService.cpp:371`,
  `UnionHelper.cpp:745`, `GameUserManager.cpp:187`); the models have no Redis failures.
* A one-shot timer that is stopped and set again with the same delay in its own
  callback is removed uncalled (`KxTimerManager.cpp:236`); no server does it.

## Proofs

Each proof module takes its model as it is and starts from the model's named
assumption alone, which its run evaluates.  In all of them the invariant proved is
stronger than the property, and says why the property cannot be lost.

**`LoginFlowProofs`**: the gate for all sets of connections and accounts and all bounds
(`GateAssumption`), the service behind it for any delay (`FlowAssumption` as well).

| theorem | states |
|---|---|
| `TypeCorrect` | `Spec => []TypeOK` |
| `GateIndexed` | `Spec => []Indexed` |
| `TakeoverSafe` | `Spec => TakeoverClosesOld` |
| `LeaversHeard` | `Spec => LeaversReported` |
| `LoginOrder` | `Spec => []LoginNotOvertaken` |
| `RemovalsOrdered` | `FlowSpec => []RemovalsInOrder` |
| `RemovalMapRight` | `FlowSpec => []RemovalMapLatest` |
| `ServiceHearsRight` | `FlowSpec => []ServiceAgrees` |

The gate's invariant is `IInv == TypeOK /\ Indexed /\ GuestsSilent`.  `Indexed` by
itself speaks of all that `clean` relies on: `clean` removes whatever entry is under
the client's id, and `CleanRemoves` shows that under `Indexed` this is the client's own
entry (a connection is in one map, once) or that of a guest whose id was refused.  It
includes `KeptByTimer`: an object that only its heartbeat keeps was refused, so that a
timer that outlives its connection never touches a user.  `InitAccepted` is the hard
step: `clean` of the displaced connection and the change from guest to user touch
both maps.  `GuestsSilent` (an unverified connection has not sent a login) is needed by
`LoginOrder`, whose own step argues over the queue: an append of another account's
message, an append of a login, a take from the head, and an append of OffLine, which
only happens when no announced connection holds the account afterwards.  A step of the
composition is a step of the gate or leaves its variables alone, so the gate's
invariant serves there too.  The removal list is shown to be `Listed` (in order of time, and
a mapped entry is the last of its account), an invariant of the list alone that
scheduling, cancelling and expiry keep; `ServiceAgrees` follows from what the gate
knows and the last message in the stream for each account (`HeardAfterTell`).

**`TcpSendProofs`**: packets of any length and number and any buffer of the kernel
(`TcpSendAssumption`).

| theorem | states |
|---|---|
| `WaitingIsArmed` | `Spec => []PendingArmed` |
| `BytesConserved` | `Spec => []Conserved` |

For the first the invariant adds `Registered`: what `m_PollType` says is registered with
epoll, while a registration made outside the callbacks need not be in `m_PollType`.  For
the second, `Delivered` says of an open connection that what has arrived, what the kernel
holds and what waits, one behind the other, `Carries` every byte sent, once, those of a
packet in their order.  A packet that is cut lands in that stream in two places, behind
the kernel's part and behind what waits (`Spread`); flushing leaves the stream as it is
(`OnSendKeeps`).  It does not say that packets keep their order among each other: they
do not, see `SentInOrder`.

**`TcpRecvProofs`**: any packets, head size and buffer (`TcpRecvAssumption`).

| theorem | states |
|---|---|
| `StreamContiguous` | `Spec => []Contiguous` |
| `NothingLeftLying` | `Spec => []HalfLacks` |
| `StreamRefined` | `Spec => Stream!Init /\ [][Stream!Next]_(Stream!vars)` |

What the packets' bytes make up, `All`, never changes; every buffer is a stretch of it, from
one of four places to the next (`Placed`), and where `half` begins, a packet begins.
Between two calls there is less than a packet (`Waits`), in the loop a whole one is in
front (`Works`).  That a stretch begins where a packet does is what lets `processLength` find
a length and never an error (`HeadFound`), however the stream has been cut.
`StreamRefined` is the safety part of `DeliversStream`: each step of the unit is one of
`PacketStream` or stutters.  It needs in addition which packets the peer has written
completely (`WrittenIs`): the first so many, and a packet handed over is the next of them
(`InTurn`).

**`TimersProofs`**: any number of timers, any finite set of delays, and whatever the callbacks
do (`TimersAssumption`).

| theorem | states |
|---|---|
| `TimersLinkedOnce` | `Spec => []LinkedOnce` |
| `TimersInOrder` | `Spec => []DueInOrder` |
| `TimersNoneOverdue` | `Spec => []NoneOverdue` |
| `TimersAsPromised` | `Spec => []CalledAsPromised` |

The invariant is one of the record that `Fire` hands on, so that it can be followed
through what a callback does in the middle of the walk.  `Sound` says that a timer is in one
list, once, that lists are in order, and that who is in the list of a delay has that
delay and at most it to go, so that appending keeps the order; nothing in a list the
walk has passed is due.  `Right` says that a timer is owed the calls it is registered for.

**`BackendsProofs`**: all numbers of groups, commands, connectors and faults
(`BackendsAssumption`).

| theorem | states |
|---|---|
| `GroupsStayWhole` | `Spec => []WholeGroups` |
| `ConnectorsHeld` | `Spec => []HeldByCount` |
| `AloneIsSafe` | `Spec => []SafeAlone` |

For the first the invariant adds to `WholeGroups` that what the maps hold has been
created, by a command accepted so far (`Numbered`), so that a new command's connectors
are in no map.  The second adds `Apart`, no connector is in two places of the maps,
and `Counted`, which says the count with 0 and 1 for each kind of holder, the reconnect
timer among them, and that who waits for a reconnect is down; `CountedEnough` turns it into the cardinalities
of `HeldByCount`.  The third adds what holds as long as there has been no trouble
(`Alone`): a connector still under a command's module is connecting and in the backup
(`Waiting`), only one group has a backup, a module's count is that of the servers that have
joined, the GM is told when the last has (`Answered`), and a swap is only pending when
all have.

**`MatchQueueProofs`**: any finite set of players, any levels and intervals
(`MatchAssumption`).

| theorem | states |
|---|---|
| `TicketsSingle` | `Spec => []OneTicket` |
| `ListsDescend` | `Spec => []LevelsDescend` |
| `CountIsEnough` | `Spec => []CountCovers` |
| `PairsTaken` | `Spec => NoPairLeft` |

The invariant is `Sound(lists)` (each player has one node, each list descends), robots'
players have none, and the count is at least the number of those who have one.
`Insert` is shown to put a node between the higher and the lower (`InsertFacts`), `Kept`
to give the chosen nodes in their order (`KeptPart`), and passing down to give each
impatient player one node again (`SunkSound`), level after level of the timer's walk.
`PairsTaken` rests on the order: a node whose neighbour is not near has nobody near
further on (`Steady`), from head or tail, so one walk leaves no two who are (`WalkApart`).  For the
players who waited in the list this stays true to the end of the timer: later levels
pass down into it only players who waited elsewhere (`Spares`).

**`RoomProofs`**: all players, battles and expiry times (`RoomAssumption`).

| theorem | states |
|---|---|
| `RoomTypes` | `Spec => []TypeOK` |
| `FoundPlayers` | `Spec => []FoundHasJoined` |
| `StartedManned` | `Spec => []StartedWithBoth` |
| `ReadyRoomsStart` | `Spec => []ReadyStarts` |
| `BattlesGoForward` | `Spec => NeverBack` |

The inductive invariant is `TypeOK` and, for each room, `Mapped`, `Manned` and `Awaits`.
`FoundHasJoined` alone is not inductive: a removed room is created again under its
battle id, so `Mapped` demands of a room that does not exist that nobody is mapped to
it, which is what the erasing in `removeWithBattleId` and the two reasons for which
`playerJoin` refuses provide.  `Manned` says whose reports a room can hold and that it is
full from loading on; with it `isAllReady`, which only counts reports, means that both
entrants are there, and `Joins` cannot meet a started room.  `Awaits` says that a waiting
room has time left and somebody to wait for.  The proof goes room by room: the lemma
`Untouched` carries the rooms an action does not change, `FullMeansBoth` turns
`isFull`'s count into equality with the two entrants, and `ReportStep` covers a report
that does not start the battle.

**`GuildProofs`**: all players, tables of levels and times (`GuildAssumption` and
`NoneAssumption`).

| theorem | states |
|---|---|
| `TypeCorrect` | `Spec => []TypeOK` |
| `Membership` | `Spec => []MembershipAgrees` |
| `SafeCopies` | `Spec => []CopySafe` |
| `SingleChairman` | `Spec => []OneChairman` |
| `LimitKept` | `Spec => GrowsWithinLimit` |

The inductive invariant is `TypeOK /\ MembershipAgrees /\ CopySafe /\ OneChairman /\ Fresh`.
`MembershipAgrees` is not inductive by itself: a joining is decided on the copy in
memory, and one that showed a member as free would put him on a second list.
`CopySafe` is what every load, refresh and write of the code keeps of it.  `Fresh` (an id not yet
given names no guild) is for creation.  Most handlers are one of a few kinds of step,
each a lemma: a guild amended without a change of members, a joining, a leaving, a
dissolution, no guild changed.  `Audit` is proved on the state `Desk` that one
`auditUser` hands to the next.

Recursive functions.  The filters, walks and flattenings of the models are recursive
functions, about which the library's induction theorems cannot be used (they take an
operator as parameter).  The proofs use the least number of a set instead (`Least`, from
the well-foundedness of inclusion on finite sets, and from it `UpTo`, induction up to a number for a
set): a function is shown to exist up to each number, which makes the model's `CHOOSE`
meet its equation, and then to have the property up to each number.

Only model-checked is what needs fairness: `LeaversDropped`, `EverythingArrives`, the
liveness of `DeliversStream`, `KeepsFiring`, `InstalledAlone`, `WaiterServed` and
`EveryRoomEnds`.  `ENABLED` and leads-to under fairness are beyond these provers.  The two
properties the code refutes are, of course, not theorems.

## Not modelled, and why

Most of the repository's lines are vendored or generated code (rapidjson, curl, hiredis,
MySQL headers), tables, and the handlers of the game's features.  Left out of these
models are:

* route keys and broadcasts of the gate, and what it forwards beyond the loads of
  `ServiceServes` (they change no state a property speaks of), and a second session server, which adds two unordered streams into one
  service;
* the game services of ServiceServer, the models and storage (requests over one
  player's data, one table each; no interleaving), and Redis failures;
* platform checks over HTTP, rankings, chat, mercenaries and expeditions: request and
  reply over shared data;
* the battle simulation (floating point, frame by frame);
* which connection an entry of `CKxCommManager` names, and that `addKxComm` does not
  replace an old one (`KxCommManager.cpp:52`);
* in `Guild`: names, notices, logs, the shop; in `Backends`: a command for no servers, the
  module's memory, a connect that completes within the call, `getServer`'s choice; in
  `TcpRecv`: a unit removed by the handler of its own packet, and one reused by a
  reconnect; in `Timers`: a clock set back, which holds up every list until it has caught
  up;
* the earlier `CMatchManager` (unused), the select poller (`TcpSend` and `TcpRecv` are about
  a unit behind `KxEpoller`, the clients' side of SessionServer; behind `KxSelectPoller` a
  unit is told again what it has not read or may write), the load generator Rebot,
  vendored libraries and configuration.

## Plan

Done: the gate, the service's login and cache, sending and receiving, timers, backend
connections, the queue, the rooms and the guilds, with proofs of every safety property
the runs check.  Left: a second session server in `LoginFlow`; the guilds' mercenaries,
whose heroes are entered with the lender, the guild and the borrower; a composition of
`MatchQueue` with `Room` through the service; and, as theorems, what the models promise in
a number of steps without fairness, such as the rounds within which a waiting player is
served.
