------------------------------ MODULE Backends ------------------------------
(***************************************************************************)
(* The session server's connections to the servers behind it, and the hot  *)
(* update with which a GM replaces the servers of a group: CSessionConnector*)
(* (SessionConnect.cpp, over KxTCPConnector and the epoll poller),         *)
(* CChangeConnectModule, the GM command processDynUpdateServer and the two *)
(* maps of CNetWorkManager, the servers in use and the backup groups.      *)
(*                                                                         *)
(* A connector is created connecting (a non-blocking connect of Linux does *)
(* not complete in the call; it may fail in it) and is reference counted:  *)
(* the poller, the map in use, the backup map and a pending reconnect      *)
(* timer, whose callback retains it, hold one each.  A command puts its    *)
(* connectors in the backup map of its group under a module of its own,    *)
(* which counts those that connect; when the count is the size of the      *)
(* backup group the GM is told 1 and ten seconds later onTimer puts EVERY  *)
(* backup group in the place of the servers in use.                        *)
(*                                                                         *)
(* The session server is one thread: an action is one whole handler.  A    *)
(* NULL dereference stops it (crashed); a use of an object already freed   *)
(* stops it or does nothing.                                               *)
(***************************************************************************)
EXTENDS Integers, FiniteSets, Sequences

CONSTANTS
  GroupNum,    \* the server groups; each starts with one server
  MaxUpdates,  \* bound: the GM commands accepted
  MaxNum,      \* bound: SGMDynUpdateCS::nNum
  MaxConns,    \* bound: the connectors ever created
  MaxFaults    \* bound: the connects refused and the connections broken

ASSUME BackendsAssumption ==
  /\ GroupNum \in Nat \ {0}
  /\ MaxUpdates \in Nat
  /\ MaxNum \in Nat \ {0}
  /\ MaxConns \in Nat /\ MaxConns >= GroupNum
  /\ MaxFaults \in Nat

Groups == 1 .. GroupNum
Updates == 1 .. MaxUpdates

(* Connector g is the one group g starts with; later ones are numbered in   *)
(* the order of their creation.  Group 0 is the m_nGroupID of a connector   *)
(* that has called connect(ip, port): no group has it.                      *)
Conns == 1 .. MaxConns
NoGroup == 0
ConnectModule == 0

VARIABLES
  live,      \* m_ServerMapByGroup
  bak,       \* m_BakServerMapByGroup; the empty set: no entry
  link,      \* the connection; connecting and up ones are in m_PollMap
  refs,      \* the reference count of the connector
  timer,     \* the connectors with a reconnect timer pending
  module,    \* m_ProcessModule: the module of a command, or the plain one
  group,     \* m_nGroupID
  changing,  \* m_bChanging: onTimer is due
  count,     \* m_nConnectNum of the module of a command
  gm,        \* its m_GMClient: NULL, connected, or a client that has gone
  crashed,
  order,     \* the group each command named, in order (history)
  source,    \* the command that created a connector; 0 for the first (history)
  told,      \* the flags each command's GM was sent (history)
  faults,    \* connects refused and connections broken so far, for the bound
  trouble    \* a connect was refused, a GM left, a command overlapped
             \* another, or a server that nothing was to reconnect was
             \* replaced (history)

vars == <<live, bak, link, refs, timer, module, group, changing, count, gm,
          crashed, order, source, told, faults, trouble>>

-----------------------------------------------------------------------------
Running == ~crashed
Created == {c \in Conns : link[c] # "new"}
Polled(c) == link[c] \in {"connecting", "up"}
InUse == UNION {live[g] : g \in Groups}
BakOf(g) == IF g \in Groups THEN bak[g] ELSE {}

(* The connectors of one command.                                          *)
Made(u) == {c \in Created : source[c] = u}

Drop(r, S) == [c \in Conns |-> IF c \in S THEN r[c] - 1 ELSE r[c]]

Deleted(l, r) ==
  [c \in Conns |-> IF l[c] # "new" /\ r[c] = 0 THEN "freed" ELSE l[c]]

(* A connector nobody holds is deleted.                                    *)
Collect(l, r) == refs' = r /\ link' = Deleted(l, r)

(* Altered: the timer's callback does not retain the connector.             *)
ToTimerUnheld(r, c) == Drop(r, {c})

(* The poller lets c go, and onError arms the reconnect timer, whose         *)
(* callback retains c.                                                      *)
ToTimer(r, c) == [Drop(r, {c}) EXCEPT ![c] = @ + 1]

(* A module tells its GM once.  A GM that has left is a pointer to a freed  *)
(* client: sending to it stops the server or does nothing.                  *)
Answer(m, flag) ==
  /\ gm' = [gm EXCEPT ![m] = "null"]
  /\ told' = IF gm[m] = "here" THEN [told EXCEPT ![m] = Append(@, flag)] ELSE told
  /\ crashed' \in IF gm[m] = "gone" THEN BOOLEAN ELSE {FALSE}

Fault == faults < MaxFaults /\ faults' = faults + 1

NoAnswer == UNCHANGED <<gm, told, crashed>>

(* clearBakServer, and the groups left.                                     *)
Cleared(g) == [h \in Groups |-> IF h = g THEN {} ELSE bak[h]]

-----------------------------------------------------------------------------
Init ==
  /\ live = [g \in Groups |-> {g}]
  /\ bak = [g \in Groups |-> {}]
  /\ link = [c \in Conns |-> IF c \in Groups THEN "connecting" ELSE "new"]
  /\ refs = [c \in Conns |-> IF c \in Groups THEN 2 ELSE 0]
  /\ timer = {}
  /\ module = [c \in Conns |-> ConnectModule]
  /\ group = [c \in Conns |-> IF c \in Groups THEN c ELSE NoGroup]
  /\ changing = FALSE
  /\ count = [u \in Updates |-> 0]
  /\ gm = [u \in Updates |-> "null"]
  /\ crashed = FALSE
  /\ order = << >>
  /\ source = [c \in Conns |-> 0]
  /\ told = [u \in Updates |-> << >>]
  /\ faults = 0
  /\ trouble = FALSE

(* Altered: an earlier backup group is not cleared first.                   *)
BackupAdding(g, new) == bak[g] \cup new

(* The backup group of g after clearBakServer and addBakServer of each.      *)
Backup(g, new) == new

(* processDynUpdateServer: the command names n servers, and the first k     *)
(* connects are under way; when k < n the next one has failed in the call.  *)
(* The connectors of a failed command stay in the poller with its module.   *)
Update(g, n, k) ==
  LET u == Len(order) + 1
      new == {c \in Conns : c \notin Created /\ c <= Cardinality(Created) + k}
      whole == k = n
      l == [c \in Conns |-> IF c \in new THEN "connecting" ELSE link[c]]
      r == [c \in Conns |-> IF c \in new THEN IF whole THEN 2 ELSE 1
                            ELSE Drop(refs, bak[g])[c]]
  IN
  /\ Running /\ ~changing
  /\ Len(order) < MaxUpdates /\ Cardinality(Created) + k <= MaxConns
  /\ Collect(l, r)
  /\ bak' = [bak EXCEPT ![g] = IF whole THEN Backup(g, new) ELSE {}]
  /\ module' = [c \in Conns |-> IF c \in new THEN u ELSE module[c]]
  /\ group' = [c \in Conns |-> IF c \in new THEN g ELSE group[c]]
  /\ source' = [c \in Conns |-> IF c \in new THEN u ELSE source[c]]
  /\ gm' = [gm EXCEPT ![u] = "here"]
  /\ told' = IF whole THEN told ELSE [told EXCEPT ![u] = Append(@, 0)]
  /\ order' = Append(order, g)
  /\ trouble' = (trouble \/ ~whole \/ \E h \in Groups : bak[h] # {})
  /\ UNCHANGED <<live, timer, changing, count, crashed, faults>>

(* Altered: the GM is told at the first connection.                         *)
FullAtFirst(m, B) == m # ConnectModule /\ Cardinality(B) > 0

(* The module's count is the size of the backup group.                      *)
Full(m, B) == m # ConnectModule /\ count[m] + 1 = Cardinality(B)

(* onSend of a connecting connector finds it connected.  Under the module   *)
(* of a command it is counted and gets the plain module, and the backup     *)
(* group of ITS m_nGroupID is looked up: there may be none.                 *)
Connected(c) ==
  LET m == module[c]
      B == BakOf(group[c])
      full == Full(m, B)
  IN
  /\ Running /\ link[c] = "connecting"
  /\ link' = [link EXCEPT ![c] = "up"]
  /\ module' = [module EXCEPT ![c] = ConnectModule]
  /\ count' = IF m = ConnectModule THEN count ELSE [count EXCEPT ![m] = @ + 1]
  /\ changing' = (changing \/ full)
  /\ CASE m # ConnectModule /\ B = {} -> crashed' = TRUE /\ UNCHANGED <<gm, told>>
       [] full -> Answer(m, 1)
       [] OTHER -> NoAnswer
  /\ UNCHANGED <<live, bak, refs, timer, group, order, source, faults, trouble>>

(* processEvent of a connect that failed, under the module of a command: it *)
(* tells the GM and drops the whole backup group of the connector.          *)
ConnectFailed(c, g) ==
  IF module[c] = ConnectModule
  THEN NoAnswer /\ UNCHANGED bak
  ELSE Answer(module[c], 0) /\ bak' = Cleared(g)

(* The connecting connector turns out to be refused: the event, then the    *)
(* poller lets it go and onError arms the reconnect timer, which keeps it   *)
(* when its backup group has just been dropped.                             *)
Refused(c) ==
  LET hit == IF module[c] = ConnectModule THEN {} ELSE BakOf(group[c])
  IN
  /\ Running /\ link[c] = "connecting"
  /\ Fault
  /\ ConnectFailed(c, group[c])
  /\ Collect([link EXCEPT ![c] = "down"], ToTimer(Drop(refs, hit), c))
  /\ timer' = timer \cup {c}
  /\ trouble' = TRUE
  /\ UNCHANGED <<live, module, group, changing, count, order, source>>

(* An established connection breaks, or a request sent over one still being *)
(* made meets the refusal first (no event then): onError arms the timer.    *)
Break(c) ==
  /\ Running /\ (link[c] = "up" \/ (link[c] = "connecting" /\ c \in InUse))
  /\ Fault
  /\ Collect([link EXCEPT ![c] = "down"], ToTimer(refs, c))
  /\ timer' = timer \cup {c}
  /\ UNCHANGED <<live, bak, module, group, changing, count, gm, crashed,
                 order, source, told, trouble>>

(* onTimer of the connector: reconnect.  connect(ip, port) gives nGroupID   *)
(* its default, 0.  When the connect is under way the connector goes back   *)
(* into the poller, else nothing arms the timer again.  The timer, done,    *)
(* releases the connector.                                                  *)
Reconnect(c) ==
  /\ Running /\ c \in timer
  /\ timer' = timer \ {c}
  /\ group' = [group EXCEPT ![c] = NoGroup]
  /\ \/ /\ Collect([link EXCEPT ![c] = "connecting"], refs)
        /\ NoAnswer
        /\ UNCHANGED <<bak, faults, trouble>>
     \/ /\ Fault
        /\ ConnectFailed(c, NoGroup)
        /\ trouble' = TRUE
        /\ Collect(link, Drop(refs, {c}))
  /\ UNCHANGED <<live, module, changing, count, order, source>>

(* No socket can be had for the reconnect: connect is not even called.      *)
ReconnectNoSocket(c) ==
  /\ Running /\ c \in timer
  /\ Fault
  /\ timer' = timer \ {c}
  /\ Collect(link, Drop(refs, {c}))
  /\ UNCHANGED <<live, bak, module, group, changing, count, gm, crashed,
                 order, source, told, trouble>>

(* Altered: the new servers are added to the group.                         *)
InsteadAdding(old, new) == old \cup new

Instead(old, new) == new

(* CNetWorkManager::onTimer: every backup group replaces the servers of its *)
(* group.  An old server is released before removeCommObject: one that only *)
(* the map still held is freed by then.  One that is down with its timer    *)
(* pending lives on and reconnects.                                         *)
SwapGroups ==
  LET ready == {g \in Groups : bak[g] # {}}
      old == UNION {live[g] : g \in ready}
      freed == \E c \in old : ~Polled(c) /\ c \notin timer
  IN
  /\ Running /\ changing
  /\ changing' = FALSE
  /\ live' = [g \in Groups |-> IF g \in ready THEN Instead(live[g], bak[g])
                               ELSE live[g]]
  /\ bak' = [g \in Groups |-> {}]
  /\ Collect(link, Drop(Drop(refs, old), {c \in old : Polled(c)}))
  /\ crashed' \in IF freed THEN BOOLEAN ELSE {FALSE}
  /\ trouble' = (trouble \/ freed)
  /\ UNCHANGED <<timer, module, group, count, gm, order, source, told, faults>>

(* The GM's own connection ends while the module still points to it.        *)
GMLeaves(u) ==
  /\ Running /\ gm[u] = "here"
  /\ gm' = [gm EXCEPT ![u] = "gone"]
  /\ trouble' = TRUE
  /\ UNCHANGED <<live, bak, link, refs, timer, module, group, changing, count,
                 crashed, order, source, told, faults>>

Next ==
  \/ \E g \in Groups, n \in 1 .. MaxNum : \E k \in 0 .. n : Update(g, n, k)
  \/ \E c \in Conns : \/ Connected(c) \/ Refused(c) \/ Break(c)
                      \/ Reconnect(c) \/ ReconnectNoSocket(c)
  \/ SwapGroups
  \/ \E u \in Updates : GMLeaves(u)

(* TCP ends every connect, one way or the other; timers are called.         *)
Fairness ==
  /\ \A c \in Conns : WF_vars(Connected(c) \/ Refused(c))
  /\ WF_vars(SwapGroups)

Spec == Init /\ [][Next]_vars /\ Fairness

-----------------------------------------------------------------------------
(* A connector's count is the number of its holders, the poller, the two    *)
(* maps and its pending reconnect timer, and it is deleted exactly when the *)
(* last of them lets it go, through failures, reconnects, swaps and cleared *)
(* groups: none is freed while a map or a timer can still reach it, and     *)
(* none is left behind that nobody holds.                                   *)
HeldByCount ==
  \A c \in Created :
    /\ refs[c] = Cardinality({g \in Groups : c \in live[g]})
                 + Cardinality({g \in Groups : c \in bak[g]})
                 + (IF Polled(c) THEN 1 ELSE 0)
                 + (IF c \in timer THEN 1 ELSE 0)
    /\ link[c] = "freed" <=> refs[c] = 0

(* Requests are routed to a whole group: the servers in use of a group, and *)
(* a backup group, are all the servers one command (or the configuration)   *)
(* named for it, never some of them and never those of two commands.        *)
WholeGroups ==
  \A g \in Groups :
    /\ live[g] # {}
    /\ \A c \in live[g] : live[g] = IF source[c] = 0 THEN {g} ELSE Made(source[c])
    /\ \A c \in bak[g] : bak[g] = Made(source[c]) /\ order[source[c]] = g

(* An update that runs alone, with no connect refused, no GM gone and no    *)
(* server in use replaced that is down and given up, never stops the        *)
(* session server, and its GM is told nothing but success, once all its     *)
(* servers connected.                                                       *)
SafeAlone ==
  ~trouble =>
    /\ ~crashed
    /\ \A u \in Updates :
         /\ told[u] \in {<< >>, <<1>>}
         /\ told[u] = <<1>> => \A c \in Made(u) : module[c] = ConnectModule

(* Such an update comes about: the group ends up routed to its servers (or  *)
(* to those of a later command).                                            *)
InstalledAlone ==
  \A u \in Updates :
    Len(order) >= u ~>
      \/ trouble
      \/ \E g \in Groups : /\ u \in DOMAIN order /\ order[u] = g
                           /\ \A c \in live[g] : source[c] >= u
=============================================================================
