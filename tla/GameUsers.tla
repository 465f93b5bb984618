----------------------------- MODULE GameUsers -----------------------------
(***************************************************************************)
(* CGameUserManager: the accounts a backend process holds in memory, and   *)
(* the list of those it will drop some time after they went offline.       *)
(*                                                                         *)
(* m_DelUserList is a list of (uid, due time), m_MapDelUserList maps a uid *)
(* to one list entry.  A list entry here says whether the map's entry of   *)
(* its uid is this one; `left' is the number of timer intervals until it   *)
(* is due.                                                                 *)
(***************************************************************************)
EXTENDS Integers, Sequences, SequencesExt

CONSTANTS
    Uids,     \* account ids
    Delay     \* DELAY_TIME_NUM in units of CHECK_TIME_INTERVAL; 12 in the code

VARIABLES
    cached,   \* the keys of m_GameUsers
    delList,  \* m_DelUserList with m_MapDelUserList, oldest first
    stored    \* accounts whose user data exists in the data base

userVars == <<cached, delList, stored>>

\* Nothing is in memory when the process starts.
UsersInit ==
    /\ cached = {}
    /\ delList = <<>>
    /\ stored \in SUBSET Uids

----------------------------------------------------------------------------

\* The map's entry of u is the i-th of the list.
MapsTo(u, i) == delList[i].uid = u /\ delList[i].mapped

\* donotDeleteUser: the entry the map has for u goes, and no other.
DontDelete(u) ==
    \/ \E i \in DOMAIN delList : MapsTo(u, i) /\ delList' = RemoveAt(delList, i)
    \/ (\A i \in DOMAIN delList : ~MapsTo(u, i)) /\ UNCHANGED delList

UnmappedNone(list, U) == list

\* The list when the map no longer refers to an entry of an account in U.
Unmapped(list, U) ==
    [i \in DOMAIN list |-> [list[i] EXCEPT !.mapped = @ /\ list[i].uid \notin U]]

NewEntry(u) == [uid |-> u, left |-> Delay, mapped |-> TRUE]

ScheduleFirst(u) == delList' = <<NewEntry(u)>> \o Unmapped(delList, {u})

\* removeGameUser: a new entry at the end of the list, which the map's entry
\* of u now is.
Schedule(u) == delList' = Append(Unmapped(delList, {u}), NewEntry(u))

LoadCancelling(u) ==
    /\ u \in stored
    /\ cached' = cached \cup {u}
    /\ DontDelete(u)
    /\ UNCHANGED stored

\* getGameUser(uid): u's object, loaded from the data base when needed.
Load(u) ==
    /\ u \in stored
    /\ cached' = cached \cup {u}
    /\ UNCHANGED <<delList, stored>>

\* processUserLogin and processUserReconect for an account that exists: u is
\* loaded and its removal is cancelled.
Return(u) ==
    /\ u \in stored
    /\ cached' = cached \cup {u}
    /\ DontDelete(u)
    /\ UNCHANGED stored

\* processUserLogin for an account with no data: newGameUser creates it.
Create(u) ==
    /\ u \notin stored
    /\ stored' = stored \cup {u}
    /\ cached' = cached \cup {u}
    /\ UNCHANGED delList

\* processUserReconect for an account with no data returns at once.
ReconnectUnknown(u) == u \notin stored /\ UNCHANGED userVars

\* processPlayerOffLine: an account in memory is scheduled for removal.
OffLine(u) ==
    /\ IF u \in cached THEN Schedule(u) ELSE UNCHANGED delList
    /\ UNCHANGED <<cached, stored>>

\* onTimer, one interval later: the entries that are due are taken from the
\* front, up to the first that is not, and their accounts are deleted.
Aged == [i \in DOMAIN delList |-> [delList[i] EXCEPT !.left = @ - 1]]
Expire ==
    \E n \in 0..Len(delList) :
        LET gone == {Aged[i].uid : i \in 1..n}
        IN /\ \A i \in 1..n : Aged[i].left < 0
           /\ n < Len(delList) => Aged[n + 1].left >= 0
           /\ cached' = cached \ gone
           /\ delList' = Unmapped(SubSeq(Aged, n + 1, Len(Aged)), gone)
           /\ UNCHANGED stored

UsersNext ==
    \/ \E u \in Uids : Load(u) \/ Return(u) \/ Create(u) \/ OffLine(u)
    \/ Expire

UsersSpec == UsersInit /\ [][UsersNext]_userVars

----------------------------------------------------------------------------
(* Properties *)

\* The loop of onTimer stops at the first entry that is not due: entries are
\* in the order they fall due, and none that is due stays in the list.
DueInOrder ==
    \A i, j \in DOMAIN delList :
        delList[i].left >= 0 /\ (i <= j => delList[i].left <= delList[j].left)

\* m_MapDelUserList keeps an iterator into the list: it refers to at most one
\* entry of an account, and that is the account's last one.
MapHasLatest ==
    \A i, j \in DOMAIN delList :
        delList[i].mapped /\ delList[i].uid = delList[j].uid => j <= i
============================================================================
