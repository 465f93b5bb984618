------------------------------- MODULE Timers -------------------------------
(***************************************************************************)
(* KxTimerManager: one list for each delay in use, and a sorted list for   *)
(* timers set to a point of time.  updateTimers walks the lists and calls  *)
(* onTimer of what is due; a callback may stop and add timers, also the    *)
(* one it is called for, in the list being walked and in others.           *)
(*                                                                         *)
(* One updateTimers is the steps from Advance until at is None again.      *)
(* Callbacks do what those of the servers do: a timer that registers anew  *)
(* in its own callback is stopped first and repeats for ever.              *)
(***************************************************************************)
EXTENDS Integers, Sequences, FiniteSets, SequencesExt

CONSTANTS
    Objects,     \* KxTimerObjects
    Delays,      \* delays, in the unit of timeToKey
    MaxRepeat,   \* bound: largest finite m_Repeat
    MaxAhead,    \* bound: how far ahead a point of time is set
    MaxGap,      \* bound: time between two calls of updateTimers
    None         \* not in updateTimers

ASSUME TimersAssumption ==
    /\ Delays \subseteq Nat \ {0} /\ IsFiniteSet(Delays) /\ MaxRepeat \in Nat /\ MaxAhead \in Nat
    /\ MaxGap \in Nat /\ None \notin Int

Forever == -1
Longest == CHOOSE d \in Delays \cup {0} : \A e \in Delays : e <= d
\* The key under which the model keeps m_AglieTimerList: behind all delays
Agile == MaxAhead + MaxGap + 1 + Longest
Keys == Delays \cup {Agile}

VARIABLES
    list,       \* m_FixTimerMap, and m_AglieTimerList under Agile
    left,       \* m_TimeVal - m_Now
    delay,      \* m_Delay
    repeat,     \* m_Repeat
    at,         \* the list updateTimers is in
    owed        \* history: the calls a timer was registered for and has not had

vars == <<list, left, delay, repeat, at, owed>>

Init ==
    /\ list = [k \in Keys |-> <<>>]
    /\ left = [t \in Objects |-> 0] /\ delay = [t \in Objects |-> 0]
    /\ repeat = [t \in Objects |-> 0]
    /\ at = None
    /\ owed = [t \in Objects |-> 0]

----------------------------------------------------------------------------
(* The operations, on a state of the manager *)

State == [list |-> list, left |-> left, delay |-> delay, repeat |-> repeat, owed |-> owed]

\* m_TimerList # NULL, and the list it is
In(s, k, t) == \E i \in DOMAIN s.list[k] : s.list[k][i] = t
Registered(s, t) == \E k \in Keys : In(s, k, t)

\* The times of an object that is in no list are not read again.
Timed(s, f) == [t \in Objects |-> IF Registered(s, t) THEN f[t] ELSE 0]
Becomes(s) ==
    /\ list' = s.list /\ repeat' = s.repeat /\ owed' = s.owed
    /\ left' = Timed(s, s.left) /\ delay' = Timed(s, s.delay)

\* The list with the node of t taken out
Unlinked(l, t) ==
    IF \E i \in DOMAIN l : l[i] = t
    THEN RemoveAt(l, CHOOSE i \in DOMAIN l : l[i] = t)
    ELSE l

\* KxTimerList::remove
Removed(s, k, t) == [s EXCEPT !.list[k] = Unlinked(@, t)]

\* KxTimerObject::stop
Stopped(s, t) ==
    IF ~Registered(s, t) THEN s
    ELSE [s EXCEPT !.list = [k \in Keys |-> Unlinked(@[k], t)],
                   !.repeat[t] = 0, !.owed[t] = 0]

\* Altered: the list does not ask whether the object is in one.
AddedAnyway(s, t, d, r) ==
    [s EXCEPT !.delay[t] = d, !.repeat[t] = r, !.list[d] = Append(@, t), !.left[t] = d,
              !.owed[t] = IF r = Forever THEN Forever ELSE r + 1]

\* addTimer(obj, delay, repeat).  The parameters are stored first; the list
\* does not take an object that is in one.
Added(s, t, d, r) ==
    LET set == [s EXCEPT !.delay[t] = d, !.repeat[t] = r] IN
    IF Registered(s, t) THEN set
    ELSE [set EXCEPT !.list[d] = Append(@, t), !.left[t] = d,
                     !.owed[t] = IF r = Forever THEN Forever ELSE r + 1]

\* Altered: to the end of the list.
AddedLast(s, t, n) ==
    [s EXCEPT !.list[Agile] = Append(@, t), !.left[t] = n, !.repeat[t] = 0, !.owed[t] = 1]

\* addTimerOnTime, for a time n ahead of m_Now: KxTimerList::insert puts it
\* before the first that is due later
AddedOnTime(s, t, n) ==
    LET l == s.list[Agile]
        i == CHOOSE j \in 1..(Len(l) + 1) :
                /\ \A m \in 1..(j - 1) : s.left[l[m]] < n
                /\ j <= Len(l) => s.left[l[j]] >= n
    IN  [s EXCEPT !.list[Agile] = InsertAt(l, i, t), !.left[t] = n, !.repeat[t] = 0,
                  !.owed[t] = 1]

\* Altered: m_Repeat is looked at as after counting down.
AgainOnceLess(s, k, t) ==
    IF ~In(s, k, t) THEN s
    ELSE IF s.repeat[t] \in {0, 1} THEN [Removed(s, k, t) EXCEPT !.repeat[t] = 0]
    ELSE [Removed(s, k, t) EXCEPT !.left[t] = s.delay[t], !.list[k] = Append(@, t)]

\* Altered: only a count above zero makes the timer repeat.
AgainFinite(s, k, t) ==
    IF ~In(s, k, t) THEN s
    ELSE IF s.repeat[t] <= 0 THEN Removed(s, k, t)
    ELSE [Removed(s, k, t) EXCEPT !.repeat[t] = @ - 1, !.left[t] = s.delay[t],
                                  !.list[k] = Append(@, t)]

\* After onTimer: a timer that is still in this list and repeats goes to its
\* end.
Again(s, k, t) ==
    IF ~In(s, k, t) THEN s
    ELSE IF s.repeat[t] = 0 THEN Removed(s, k, t)
    ELSE [Removed(s, k, t) EXCEPT
             !.repeat[t] = IF @ > 0 THEN @ - 1 ELSE @,
             !.left[t] = s.delay[t],
             !.list[k] = Append(@, t)]

Called(s, t) == [s EXCEPT !.owed[t] = IF @ = Forever THEN Forever ELSE @ - 1]

----------------------------------------------------------------------------
(* The steps *)

\* What a handler does with a timer
Uses(s) ==
    {Stopped(s, t) : t \in Objects}
    \cup {Added(s, t, d, r) : t \in {u \in Objects : ~Registered(s, u)},
                              d \in Delays, r \in Forever..MaxRepeat}
    \cup {AddedOnTime(s, t, n) : t \in {u \in Objects : ~Registered(s, u)}, n \in 0..MaxAhead}
    \* a reconnect timer set again before it has run out
    \cup {Added(s, t, s.delay[t], 0) :
            t \in {u \in Objects : Registered(s, u) /\ ~In(s, Agile, u) /\ s.repeat[u] = 0}}

\* A handler, between two calls of updateTimers
Handler ==
    /\ at = None
    /\ \E s \in Uses(State) : Becomes(s)
    /\ UNCHANGED at

First == CHOOSE k \in Keys : \A j \in Keys : k <= j
Following(k) == CHOOSE j \in Keys : j > k /\ \A i \in Keys : i > k => j <= i

\* updateTimers reads the clock.
Advance ==
    /\ at = None
    /\ \E gap \in 1..MaxGap :
          left' = Timed(State, [t \in Objects |-> left[t] - gap])
    /\ at' = First
    /\ UNCHANGED <<list, delay, repeat, owed>>

\* What onTimer of t may do
Callback(s, t) ==
    {s} \cup Uses(s) \cup {Added(Stopped(s, t), t, d, Forever) : d \in Delays}

\* Altered: one timer of each list in a round.
OnToTheNext == at' = IF at = Agile THEN None ELSE Following(at)
\* The walk stays with the list as long as its head is due.
Stays == at' = at

\* KxTimerList::update: the head is due.
Fire ==
    /\ at # None /\ list[at] # <<>>
    /\ LET t == list[at][1] IN
          /\ left[t] < 0
          /\ \E s \in Callback(Called(State, t), t) : Becomes(Again(s, at, t))
    /\ Stays

\* The head is not due: on to the next list.
NextList ==
    /\ at # None
    /\ list[at] # <<>> => left[list[at][1]] >= 0
    /\ at' = IF at = Agile THEN None ELSE Following(at)
    /\ UNCHANGED <<list, left, delay, repeat, owed>>

Next == Handler \/ Advance \/ Fire \/ NextList

\* The event loop calls updateTimers again and again, and time passes.
Fairness == WF_vars(Advance) /\ WF_vars(Fire) /\ WF_vars(NextList)

Spec == Init /\ [][Next]_vars /\ Fairness

----------------------------------------------------------------------------
(* Properties *)

Here(t) == Registered(State, t)

\* No timer is linked into two lists or twice into one, whatever the callbacks
\* do: its single pair of m_Prev and m_Next would join the lists.
LinkedOnce ==
    \A j, k \in Keys : \A i \in DOMAIN list[j], m \in DOMAIN list[k] :
        list[j][i] = list[k][m] => j = k /\ i = m

\* Every list is in the order in which its timers are due, so that stopping at
\* the first that is not due passes over none.
DueInOrder ==
    \A k \in Keys : \A i, m \in DOMAIN list[k] :
        i < m => left[list[k][i]] <= left[list[k][m]]

\* When updateTimers returns, nothing that is due is left behind.
NoneOverdue == at = None => \A t \in Objects : Here(t) => left[t] >= 0

\* KxTimerManager.h: repeat says how often the timer runs again.  What is still to
\* come agrees with what the timer was registered for less the calls it has had,
\* and a timer that left the lists by itself has had them all.
CalledAsPromised ==
    \A t \in Objects :
        owed[t] = IF ~Here(t) THEN 0 ELSE IF repeat[t] = Forever THEN Forever ELSE
                  repeat[t] + 1

\* A timer that repeats for ever is called again and again until it is stopped.
IsCalled(t) == at # None /\ list[at] # <<>> /\ list[at][1] = t /\ left[t] < 0
KeepsFiring ==
    \A t \in Objects : [](owed[t] = Forever => <>(IsCalled(t) \/ owed[t] # Forever))
============================================================================
