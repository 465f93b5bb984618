----------------------------- MODULE LoginFlow -----------------------------
(***************************************************************************)
(* SessionServer and ServiceServer together: the gate tells the service    *)
(* who logs in and who goes offline, over one ordered connection, and the  *)
(* service keeps, schedules and drops the accounts' data accordingly.      *)
(***************************************************************************)
EXTENDS SessionGate

CONSTANTS
    Delay,         \* as in GameUsers
    MaxPending     \* bound: entries in the service's removal list

ASSUME FlowAssumption == Delay \in Nat /\ MaxPending \in Nat

VARIABLES
    cached, delList, stored,   \* as in GameUsers
    present                    \* history: accounts whose last news was a login

Cache == INSTANCE GameUsers WITH Uids <- Users

serviceVars == <<cached, delList, stored>>
flowVars == <<gateVars, serviceVars, present>>

FlowInit ==
    /\ GateInit
    /\ Cache!UsersInit
    /\ present = {}

----------------------------------------------------------------------------

\* The service handles the message at the head of the connection.
HandlesLogin(u) ==
    /\ \/ Cache!Return(u)
       \/ Cache!Create(u)
       \/ Cache!ReconnectUnknown(u)
    /\ present' = present \cup {u}

\* An OffLine of a guest names no account.
HandlesOffLine(u) ==
    /\ present' = present \ {u}
    /\ \/ u \in Users /\ Len(delList) < MaxPending /\ Cache!OffLine(u)
       \/ u = NoUser /\ UNCHANGED serviceVars

ServiceHandles ==
    /\ ServiceTakes
    /\ LET m == Head(toService) IN
          \/ m.type = "login" /\ HandlesLogin(m.uid)
          \/ m.type = "offline" /\ HandlesOffLine(m.uid)

\* Any other request that needs u's data: of u's own client, or of another
\* backend about an account that may be away (the result of a battle, a mail),
\* which the gate forwards whether or not u has a connection.
ServiceServes(u) == Cache!Load(u) /\ UNCHANGED <<gateVars, present>>

\* CGameUserManager::onTimer
ServiceTimer == Cache!Expire /\ UNCHANGED <<gateVars, present>>

FlowNext ==
    \/ GateStep /\ UNCHANGED <<serviceVars, present>>
    \/ ServiceHandles
    \/ \E u \in Users : ServiceServes(u)
    \/ ServiceTimer

\* The service's event loop reads its connection and runs its timers; clients
\* owe nothing.
FlowSpec ==
    /\ FlowInit /\ [][FlowNext]_flowVars
    /\ WF_flowVars(ServiceHandles)
    /\ WF_flowVars(ServiceTimer)

----------------------------------------------------------------------------
(* Properties *)

\* GameUsers: the removal list is in the order its entries fall due.
RemovalsInOrder == Cache!DueInOrder

\* GameUsers: the removal map refers to an account's last entry.
RemovalMapLatest == Cache!MapHasLatest

\* What the service will have heard last of u when it has read everything.
HeardLast(u) ==
    \/ \E i \in DOMAIN toService :
          /\ toService[i] = [type |-> "login", uid |-> u]
          /\ \A j \in i+1..Len(toService) : toService[j] # Offline(u)
    \/ u \in present /\ \A i \in DOMAIN toService : toService[i] # Offline(u)

\* CSessionModule::userDisconnect and CLoginService agree: the service ends up
\* taking an account for present when its connection has logged in, and for
\* absent when it has no connection, whatever takeovers, kicks and losses come
\* between.  A heartbeat that ended the connection is the exception.
ServiceAgrees ==
    \A u \in Users :
        /\ users[u] # NoConn /\ users[u] \in announced => HeardLast(u)
        /\ users[u] = NoConn /\ u \notin timedOut => ~HeardLast(u)

\* removeGameUser and onTimer: once OffLine of an account has been sent with no
\* login behind it, the account's data is dropped in the end, or the account
\* comes back, whatever requests about it the other backends send meanwhile.
LeaversDropped ==
    \A u \in Users : LeftBehind(u) ~> u \notin cached \/ HeardLast(u)

\* LoginService.cpp:1328 on donotDeleteUser: the data of an account that has
\* come back is not released.
ReturnedIsKept ==
    [][\A u \in Users : u \in present /\ u \in cached => u \in cached']_flowVars
============================================================================
