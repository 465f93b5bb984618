--------------------------- MODULE BackendsProofs ---------------------------
(***************************************************************************)
(* What holds of Backends for any number of groups, commands, servers to a *)
(* command, failed connects and broken connections.                        *)
(*                                                                         *)
(* A group stays whole because a command's connectors are made in one step *)
(* and enter and leave the two maps together; the numbers of the commands  *)
(* tell later connectors from earlier ones (Numbered).  A crash of the     *)
(* session server, and who holds a connector, play no part.                *)
(***************************************************************************)
EXTENDS Backends, FiniteSetTheorems, TLAPS

States == {"new", "connecting", "up", "down", "freed"}

Kinds ==
  /\ live \in [Groups -> SUBSET Conns]
  /\ bak \in [Groups -> SUBSET Conns]
  /\ link \in [Conns -> States]
  /\ source \in [Conns -> Nat]
  /\ order \in Seq(Groups)

\* What is in a map or has a timer has been created, by a command accepted so
\* far; what is in the backup map not by the configuration.
Numbered ==
  /\ timer \subseteq Created
  /\ \A c \in Created : source[c] <= Len(order)
  /\ \A g \in Groups : /\ live[g] \subseteq Created
                       /\ \A c \in bak[g] : c \in Created /\ source[c] # 0

IInv == Kinds /\ Numbered /\ WholeGroups

-----------------------------------------------------------------------------
\* Deleting connectors creates none.
LEMMA CollectFacts ==
  ASSUME NEW l \in [Conns -> States], NEW r, Collect(l, r)
  PROVE  link' \in [Conns -> States] /\ Created' = {c \in Conns : l[c] # "new"}
BY DEF Collect, Deleted, Created, States

\* Connections come and go: what is in use stays, backup groups may go.
LEMMA Connecting ==
  ASSUME IInv, UNCHANGED <<live, source, order>>,
         link' \in [Conns -> States], Created' = Created, timer' \subseteq Created,
         bak' \in [Groups -> SUBSET Conns],
         \A g \in Groups : bak'[g] \in {{}, bak[g]}
  PROVE  IInv'
<1>1. Kinds'
  BY DEF IInv, Kinds
<1>2. Numbered'
  BY DEF IInv, Numbered
<1>3. WholeGroups'
  <2>1. source' = source /\ order' = order /\ live' = live
    OBVIOUS
  <2>2. ASSUME NEW g \in Groups
        PROVE  live'[g] # {} /\ \A c \in live'[g] :
                 live'[g] = IF source[c] = 0 THEN {g} ELSE Made(source[c])
    <3>1. live[g] # {} /\ \A c \in live[g] :
                 live[g] = IF source[c] = 0 THEN {g} ELSE Made(source[c])
      BY Zenon DEF IInv, WholeGroups
    <3>2. live'[g] = live[g]
      BY <2>1
    <3>3. QED
      BY <3>1, <3>2, Zenon
  <2>3. ASSUME NEW g \in Groups, NEW c \in bak'[g]
        PROVE  bak'[g] = Made(source[c]) /\ order[source[c]] = g
    <3>1. bak'[g] = bak[g]
      BY <2>3
    <3>2. QED
      BY <2>3, <3>1 DEF IInv, WholeGroups
  <2>4. \A c : Made(source[c])' = Made(source[c])
    BY <2>1 DEF Made
  <2>5. QED
    BY <2>1, <2>2, <2>3, <2>4 DEF WholeGroups
<1>4. QED
  BY <1>1, <1>2, <1>3 DEF IInv

LEMMA UpdateStep ==
  ASSUME IInv, NEW g \in Groups, NEW n \in Nat, NEW k \in Nat, Update(g, n, k)
  PROVE  IInv'
<1> DEFINE new == {c \in Conns : c \notin Created /\ c <= Cardinality(Created) + k}
           l == [c \in Conns |-> IF c \in new THEN "connecting" ELSE link[c]]
           r == [c \in Conns |-> IF c \in new THEN IF k = n THEN 2 ELSE 1
                                 ELSE Drop(refs, bak[g])[c]]
<1>1. /\ Collect(l, r)
      /\ bak' = [bak EXCEPT ![g] = IF k = n THEN new ELSE {}]
      /\ order' = Append(order, g) /\ UNCHANGED <<live, timer>>
  BY DEF Update, Backup
<1>2. PICK u \in Nat : u = Len(order) + 1
  BY DEF IInv, Kinds
<1>3. source' = [c \in Conns |-> IF c \in new THEN u ELSE source[c]]
  BY <1>2 DEF Update
<1>4. new \subseteq Conns /\ new \cap Created = {} /\ Created \subseteq Conns
  BY DEF Created
<1> HIDE DEF new, r
<1>5. link' \in [Conns -> States] /\ Created' = Created \cup new
  <2>1. l \in [Conns -> States]
    BY <1>4 DEF IInv, Kinds, States
  <2>2. {c \in Conns : l[c] # "new"} = Created \cup new
    BY <1>4 DEF Created
  <2>3. QED
    BY <1>1, <2>1, <2>2, CollectFacts
<1>6. /\ order' \in Seq(Groups) /\ Len(order') = u /\ order'[u] = g
      /\ \A s \in 1..Len(order) : order'[s] = order[s]
  BY <1>1, <1>2 DEF IInv, Kinds
<1>7. Kinds'
  BY <1>1, <1>3, <1>4, <1>5, <1>6 DEF IInv, Kinds
<1>8. \A c \in Created : source'[c] = source[c] /\ source[c] < u /\ source[c] \in Nat
  BY <1>2, <1>3, <1>4 DEF IInv, Kinds, Numbered
<1>9. \A c \in new : source'[c] = u
  BY <1>3, <1>4
<1>10. Numbered'
  <2>1. \A c \in Created' : source'[c] <= Len(order')
    BY <1>5, <1>6, <1>8, <1>9
  <2>2. ASSUME NEW h \in Groups
        PROVE  /\ live'[h] \subseteq Created'
               /\ \A c \in bak'[h] : c \in Created' /\ source'[c] # 0
    <3>1. live'[h] \subseteq Created'
      BY <1>1, <1>5 DEF IInv, Numbered
    <3>2. bak'[h] \in {bak[h], new, {}}
      BY <1>1 DEF IInv, Kinds
    <3>3. ASSUME NEW c \in bak[h] PROVE c \in Created' /\ source'[c] # 0
      BY <1>5, <1>8 DEF IInv, Numbered
    <3>4. ASSUME NEW c \in new PROVE c \in Created' /\ source'[c] # 0
      BY <1>2, <1>5, <1>9
    <3>5. QED
      BY <3>1, <3>2, <3>3, <3>4
  <2>3. timer' \subseteq Created'
    BY <1>1, <1>5 DEF IInv, Numbered
  <2>4. QED
    BY <2>1, <2>2, <2>3 DEF Numbered
\* The connectors of the command, and of the earlier ones
<1>11. new = {d \in Created' : source'[d] = u}
  BY <1>4, <1>5, <1>8, <1>9
<1>12. ASSUME NEW c \in Created
       PROVE  {d \in Created' : source'[d] = source'[c]} = Made(source[c])
  BY <1>4, <1>5, <1>8, <1>9 DEF Made
<1>13. WholeGroups'
  <2>1. ASSUME NEW h \in Groups PROVE live'[h] # {}
    BY <1>1 DEF IInv, WholeGroups
  <2>2. ASSUME NEW h \in Groups, NEW c \in live'[h]
        PROVE  live'[h] = IF source'[c] = 0 THEN {h} ELSE {d \in Created' : source'[d] = source'[c]}
    <3>1. c \in live[h] /\ c \in Created
      BY <1>1, <2>2 DEF IInv, Numbered
    <3>2. live[h] = IF source[c] = 0 THEN {h} ELSE Made(source[c])
      BY <3>1 DEF IInv, WholeGroups
    <3>3. source'[c] = source[c] /\ {d \in Created' : source'[d] = source'[c]} = Made(source[c])
      BY <1>8, <1>12, <3>1
    <3>4. QED
      BY <1>1, <3>2, <3>3
  <2>3. ASSUME NEW h \in Groups, NEW c \in bak'[h]
        PROVE  bak'[h] = {d \in Created' : source'[d] = source'[c]} /\ order'[source'[c]] = h
    <3>1. CASE h = g
      <4>1. bak'[h] = new
        BY <1>1, <2>3, <3>1 DEF IInv, Kinds
      <4>2. source'[c] = u
        BY <1>9, <2>3, <4>1
      <4>3. QED
        BY <1>6, <1>11, <3>1, <4>1, <4>2
    <3>2. CASE h # g
      <4>1. bak'[h] = bak[h] /\ c \in bak[h]
        BY <1>1, <2>3, <3>2 DEF IInv, Kinds
      <4>2. c \in Created /\ source[c] # 0 /\ bak[h] = Made(source[c]) /\ order[source[c]] = h
        BY <4>1 DEF IInv, Numbered, WholeGroups
      <4>3. source[c] \in 1..Len(order)
        BY <1>2, <1>8, <4>2 DEF IInv, Kinds
      <4>4. QED
        BY <1>6, <1>8, <1>12, <4>1, <4>2, <4>3
    <3>3. QED
      BY <3>1, <3>2
  <2>4. QED
    BY <2>1, <2>2, <2>3 DEF WholeGroups, Made
<1>14. QED
  BY <1>7, <1>10, <1>13 DEF IInv

LEMMA SwapStep ==
  ASSUME IInv, SwapGroups
  PROVE  IInv'
<1>1. /\ \A g \in Groups : live'[g] = IF bak[g] # {} THEN bak[g] ELSE live[g]
      /\ live' \in [Groups -> SUBSET Conns]
      /\ bak' = [g \in Groups |-> {}] /\ UNCHANGED <<source, order, timer>>
  BY DEF IInv, Kinds, SwapGroups, Instead
<1>2. link' \in [Conns -> States] /\ Created' = Created
  <2>1. PICK r : Collect(link, r)
    BY DEF SwapGroups
  <2>2. QED
    BY <2>1, CollectFacts DEF IInv, Kinds, Created
<1>3. Kinds'
  BY <1>1, <1>2 DEF IInv, Kinds
<1>4. Numbered'
  BY <1>1, <1>2 DEF IInv, Kinds, Numbered
<1>5. WholeGroups'
  <2>1. \A c : Made(source[c])' = Made(source[c])
    BY <1>1, <1>2 DEF Made
  <2>2. ASSUME NEW g \in Groups
        PROVE  live'[g] # {} /\ \A c \in live'[g] :
                 live'[g] = IF source[c] = 0 THEN {g} ELSE Made(source[c])
    <3>1. CASE bak[g] = {}
      BY <1>1, <3>1, ZenonT(60) DEF IInv, WholeGroups
    <3>2. CASE bak[g] # {}
      BY <1>1, <3>2, ZenonT(60) DEF IInv, Numbered, WholeGroups
    <3>3. QED
      BY <3>1, <3>2
  <2>3. QED
    BY <1>1, <2>1, <2>2 DEF WholeGroups
<1>6. QED
  BY <1>3, <1>4, <1>5 DEF IInv

\* One connector's connection changes, and somebody may be deleted.
LEMMA RelinkedFacts ==
  ASSUME link \in [Conns -> States], NEW c \in Conns, link[c] # "new",
         NEW s \in States \ {"new"}, NEW r, Collect([link EXCEPT ![c] = s], r)
  PROVE  link' \in [Conns -> States] /\ Created' = Created
<1> DEFINE l == [link EXCEPT ![c] = s]
<1>1. l \in [Conns -> States] /\ {d \in Conns : l[d] # "new"} = Created
  BY DEF Created
<1>2. Collect(l, r)
  OBVIOUS
<1> HIDE DEF l
<1>3. QED
  BY <1>1, <1>2, CollectFacts

LEMMA ConnectionStep ==
  ASSUME IInv, NEW c \in Conns,
         \/ Connected(c) \/ Refused(c) \/ Break(c) \/ Reconnect(c) \/ ReconnectNoSocket(c)
  PROVE  IInv'
<1>1. link \in [Conns -> States] /\ bak \in [Groups -> SUBSET Conns]
  BY DEF IInv, Kinds
<1>2. \A g : Cleared(g) \in [Groups -> SUBSET Conns] /\ \A h \in Groups : Cleared(g)[h] \in {{}, bak[h]}
  BY <1>1 DEF Cleared
<1>3. UNCHANGED <<live, source, order>>
  BY DEF Connected, Refused, Break, Reconnect, ReconnectNoSocket
<1>8. timer \subseteq Created
  BY DEF IInv, Numbered
<1>4. CASE Connected(c)
  <2>1. link' = [link EXCEPT ![c] = "up"] /\ link[c] = "connecting" /\ UNCHANGED <<bak, timer>>
    BY <1>4 DEF Connected
  <2>2. link' \in [Conns -> States] /\ Created' = Created
    BY <1>1, <2>1 DEF Created, States
  <2>3. QED
    BY <1>1, <1>3, <1>8, <2>1, <2>2, Connecting
<1>5. CASE Refused(c) \/ Break(c)
  <2>1. PICK r : Collect([link EXCEPT ![c] = "down"], r)
    BY <1>5 DEF Refused, Break
  <2>2. link[c] # "new" /\ timer' = timer \cup {c}
    BY <1>5 DEF Refused, Break
  <2>3. bak' = bak \/ bak' = Cleared(group[c])
    BY <1>5 DEF Refused, Break, ConnectFailed
  <2>4. link' \in [Conns -> States] /\ Created' = Created
    BY <1>1, <2>1, <2>2, RelinkedFacts DEF States
  <2>5. timer' \subseteq Created'
    BY <1>8, <2>2, <2>4 DEF Created
  <2>6. QED
    BY <1>1, <1>2, <1>3, <2>3, <2>4, <2>5, Connecting
<1>6. CASE Reconnect(c) \/ ReconnectNoSocket(c)
  <2>1. PICK s \in {link[c], "connecting"} : \E r : Collect([link EXCEPT ![c] = s], r)
    <3>1. link = [link EXCEPT ![c] = link[c]]
      BY <1>1
    <3>2. QED
      BY <1>6, <3>1 DEF Reconnect, ReconnectNoSocket
  <2>2. bak' = bak \/ bak' = Cleared(NoGroup)
    BY <1>6 DEF Reconnect, ReconnectNoSocket, ConnectFailed
  <2>3. c \in Created /\ timer' = timer \ {c}
    BY <1>6, <1>8 DEF Reconnect, ReconnectNoSocket
  <2>4. link' \in [Conns -> States] /\ Created' = Created
    <3>1. s \in States \ {"new"} /\ link[c] # "new"
      BY <1>1, <2>1, <2>3 DEF States, Created
    <3>2. QED
      BY <1>1, <2>1, <3>1, RelinkedFacts
  <2>5. QED
    BY <1>1, <1>2, <1>3, <1>8, <2>2, <2>3, <2>4, Connecting
<1>7. QED
  BY <1>4, <1>5, <1>6

LEMMA Preserved == IInv /\ [Next]_vars => IInv'
<1> SUFFICES ASSUME IInv, [Next]_vars PROVE IInv'
  OBVIOUS
<1>1. CASE UNCHANGED vars
  BY <1>1, Connecting DEF vars, IInv, Kinds, Numbered, Created
<1>2. ASSUME NEW g \in Groups, NEW n \in 1 .. MaxNum, NEW k \in 0 .. n, Update(g, n, k)
      PROVE  IInv'
  BY <1>2, UpdateStep, BackendsAssumption
<1>3. ASSUME NEW c \in Conns,
             \/ Connected(c) \/ Refused(c) \/ Break(c) \/ Reconnect(c) \/ ReconnectNoSocket(c)
      PROVE  IInv'
  BY <1>3, ConnectionStep
<1>4. ASSUME NEW u \in Updates, GMLeaves(u) PROVE IInv'
  BY <1>4, Connecting DEF GMLeaves, IInv, Kinds, Numbered, Created
<1>5. QED
  BY <1>1, <1>2, <1>3, <1>4, SwapStep, Zenon DEF Next

LEMMA Initially == Init => IInv
<1> SUFFICES ASSUME Init PROVE IInv
  OBVIOUS
<1>1. Groups \subseteq Conns /\ Created = Groups
  BY BackendsAssumption DEF Init, Created, Groups, Conns
<1>2. Kinds
  BY <1>1 DEF Init, Kinds, States
<1>3. Numbered
  BY <1>1 DEF Init, Numbered
<1>4. WholeGroups
  BY <1>1 DEF Init, WholeGroups
<1>5. QED
  BY <1>2, <1>3, <1>4 DEF IInv

\* The servers in use of a group, and a backup group, are all the servers of
\* one command or of the configuration, whichever connects fail, connections
\* break and commands overlap.
THEOREM GroupsStayWhole == Spec => []WholeGroups
<1>1. IInv => WholeGroups
  BY DEF IInv
<1>2. QED
  BY <1>1, Initially, Preserved, PTL DEF Spec
-----------------------------------------------------------------------------
(* Who holds a connector *)

InBak == UNION {bak[g] : g \in Groups}
One(b) == IF b THEN 1 ELSE 0

\* No connector is in two sets of the maps.
Apart ==
  /\ \A g, h \in Groups : g # h => live[g] \cap live[h] = {} /\ bak[g] \cap bak[h] = {}
  /\ \A g, h \in Groups : live[g] \cap bak[h] = {}

\* With Apart, a holder is the poller, the one map or the other, or the timer.  Who
\* has a timer is down.
Counted ==
  /\ refs \in [Conns -> Int]
  /\ \A c \in Conns : refs[c] = One(c \in InUse) + One(c \in InBak)
                                + One(Polled(c)) + One(c \in timer)
  /\ \A c \in Created : link[c] = "freed" <=> refs[c] = 0
  /\ \A c \in timer : link[c] = "down"

HInv == IInv /\ Apart /\ Counted

LEMMA CountedEnough == HInv => HeldByCount
<1> SUFFICES ASSUME HInv PROVE HeldByCount
  OBVIOUS
<1>1. ASSUME NEW f \in [Groups -> SUBSET Conns], NEW c,
             \A g, h \in Groups : g # h => f[g] \cap f[h] = {}
      PROVE  Cardinality({g \in Groups : c \in f[g]}) = One(\E g \in Groups : c \in f[g])
  <2>1. CASE \E g \in Groups : c \in f[g]
    <3>1. PICK g \in Groups : c \in f[g]
      BY <2>1
    <3>2. {h \in Groups : c \in f[h]} = {g}
      BY <1>1, <3>1
    <3>3. QED
      BY <2>1, <3>2, FS_Singleton DEF One
  <2>2. CASE ~\E g \in Groups : c \in f[g]
    <3>1. {h \in Groups : c \in f[h]} = {}
      BY <2>2
    <3>2. QED
      BY <2>2, <3>1, FS_EmptySet DEF One
  <2>3. QED
    BY <2>1, <2>2
<1>2. ASSUME NEW c \in Created
      PROVE  refs[c] = Cardinality({g \in Groups : c \in live[g]})
                       + Cardinality({g \in Groups : c \in bak[g]})
                       + (IF Polled(c) THEN 1 ELSE 0) + (IF c \in timer THEN 1 ELSE 0)
  <2>1. Cardinality({g \in Groups : c \in live[g]}) = One(\E g \in Groups : c \in live[g])
    BY <1>1 DEF HInv, IInv, Kinds, Apart
  <2>2. Cardinality({g \in Groups : c \in bak[g]}) = One(\E g \in Groups : c \in bak[g])
    BY <1>1 DEF HInv, IInv, Kinds, Apart
  <2>3. refs[c] = One(c \in InUse) + One(c \in InBak) + One(Polled(c)) + One(c \in timer)
    BY DEF HInv, Counted, Created
  <2>4. /\ One(c \in InUse) = One(\E g \in Groups : c \in live[g])
        /\ One(c \in InBak) = One(\E g \in Groups : c \in bak[g])
    BY DEF InUse, InBak, One
  <2>5. QED
    BY <2>1, <2>2, <2>3, <2>4 DEF One
<1>3. \A c \in Created : link[c] = "freed" <=> refs[c] = 0
  BY DEF HInv, Counted
<1>4. QED
  BY <1>2, <1>3 DEF HeldByCount

\* After Collect it is enough to have counted before.
LEMMA CollectCounted ==
  ASSUME NEW l \in [Conns -> States], NEW r \in [Conns -> Int], Collect(l, r),
         \A c \in Conns :
           /\ r[c] = One(c \in InUse') + One(c \in InBak')
                     + One(l[c] \in {"connecting", "up"} /\ r[c] # 0) + One(c \in timer')
           /\ l[c] \in {"new", "freed"} => r[c] = 0,
         \A c \in timer' : c \in Conns /\ l[c] = "down"
  PROVE  Counted'
<1>1. refs' = r
      /\ \A c \in Conns : link'[c] = IF l[c] # "new" /\ r[c] = 0 THEN "freed" ELSE l[c]
  BY DEF Collect, Deleted
<1>2. \A c \in Conns : One(Polled(c)') = One(l[c] \in {"connecting", "up"} /\ r[c] # 0)
  BY <1>1 DEF Polled, One
<1>3. \A c \in Created' : link'[c] = "freed" <=> refs'[c] = 0
  BY <1>1 DEF Created
<1>4. \A c \in Conns : refs'[c] = One(c \in InUse') + One(c \in InBak')
                                + One(Polled(c)') + One(c \in timer')
  BY <1>1, <1>2
<1>5. \A c \in timer' : link'[c] = "down"
  <2>1. ASSUME NEW c \in timer' PROVE r[c] # 0
    <3>1. /\ One(c \in InUse') \in {0, 1} /\ One(c \in InBak') \in {0, 1}
          /\ One(l[c] \in {"connecting", "up"} /\ r[c] # 0) \in {0, 1}
          /\ One(c \in timer') = 1
      BY <2>1 DEF One
    <3>2. QED
      BY <2>1, <3>1
  <2>2. QED
    BY <1>1, <2>1
<1>6. QED
  BY <1>1, <1>3, <1>4, <1>5 DEF Counted

\* Before a step: what is in a map or polled is not freed, and what is new is
\* nowhere.
LEMMA HeldFacts ==
  ASSUME HInv, NEW c \in Conns
  PROVE  /\ link[c] \in {"new", "freed"} => refs[c] = 0
         /\ c \in InUse \/ c \in InBak \/ Polled(c) \/ c \in timer => refs[c] # 0
         /\ ~(c \in InUse /\ c \in InBak)
         /\ refs[c] \in Int
<1>1. ~(c \in InUse /\ c \in InBak)
  BY DEF HInv, Apart, InUse, InBak
<1>2. c \in InUse \/ c \in InBak => c \in Created
  BY DEF HInv, IInv, Numbered, InUse, InBak
<1>3. /\ refs[c] = One(c \in InUse) + One(c \in InBak) + One(Polled(c)) + One(c \in timer)
      /\ refs[c] \in Int
  BY DEF HInv, Counted
<1>4. link[c] = "freed" => refs[c] = 0
  BY DEF HInv, Counted, Created
<1>5. link[c] = "new" => refs[c] = 0
  BY <1>2, <1>3 DEF Created, Polled, One, HInv, Counted
<1>6. c \in InUse \/ c \in InBak \/ Polled(c) \/ c \in timer => refs[c] # 0
  BY <1>3 DEF One
<1>7. QED
  BY <1>1, <1>3, <1>4, <1>5, <1>6

LEMMA UpdateHeld ==
  ASSUME HInv, NEW g \in Groups, NEW n \in Nat, NEW k \in Nat, Update(g, n, k)
  PROVE  Apart' /\ Counted'
<1> DEFINE new == {c \in Conns : c \notin Created /\ c <= Cardinality(Created) + k}
           l == [c \in Conns |-> IF c \in new THEN "connecting" ELSE link[c]]
           r == [c \in Conns |-> IF c \in new THEN IF k = n THEN 2 ELSE 1
                                 ELSE Drop(refs, bak[g])[c]]
<1>1. /\ Collect(l, r) /\ UNCHANGED <<live, timer>>
      /\ bak' = [bak EXCEPT ![g] = IF k = n THEN new ELSE {}]
  BY DEF Update, Backup
<1>2. new \subseteq Conns /\ new \cap Created = {}
  OBVIOUS
<1>3. \A h \in Groups : live[h] \subseteq Created /\ bak[h] \subseteq Created
  BY DEF HInv, IInv, Numbered
<1>4. /\ live \in [Groups -> SUBSET Conns] /\ bak \in [Groups -> SUBSET Conns]
      /\ link \in [Conns -> States] /\ refs \in [Conns -> Int] /\ timer \subseteq Created
      /\ \A c \in timer : c \in Conns /\ link[c] = "down"
  BY DEF HInv, IInv, Kinds, Counted, Numbered, Created
<1>5. \A c \in Conns : r[c] = IF c \in new THEN IF k = n THEN 2 ELSE 1
                             ELSE IF c \in bak[g] THEN refs[c] - 1 ELSE refs[c]
  BY DEF Drop
<1>6. \A c \in Conns : l[c] = IF c \in new THEN "connecting" ELSE link[c]
  OBVIOUS
<1>7. r \in [Conns -> Int] /\ l \in [Conns -> States]
  BY <1>4 DEF Drop, States
<1> HIDE DEF new, l, r
<1>8. Apart'
  BY <1>1, <1>2, <1>3, <1>4 DEF HInv, Apart
<1>9. ASSUME NEW c \in Conns
      PROVE  /\ r[c] = One(c \in InUse') + One(c \in InBak')
                       + One(l[c] \in {"connecting", "up"} /\ r[c] # 0) + One(c \in timer')
             /\ l[c] \in {"new", "freed"} => r[c] = 0
  <2>1. InUse' = InUse
    BY <1>1 DEF InUse
  <2>2. c \in InBak' <=> IF c \in new THEN k = n ELSE c \in InBak /\ c \notin bak[g]
    BY <1>1, <1>2, <1>3, <1>4 DEF InBak, HInv, Apart
  <2>3. CASE c \in new
    <3>1. c \notin InUse /\ c \notin timer'
      BY <1>1, <1>2, <1>3, <1>4, <2>3 DEF InUse
    <3>2. QED
      BY <1>5, <1>6, <2>1, <2>2, <2>3, <3>1 DEF One
  <2>4. CASE c \notin new
    <3>1. /\ refs[c] = One(c \in InUse) + One(c \in InBak)
                      + One(link[c] \in {"connecting", "up"}) + One(c \in timer)
          /\ c \in bak[g] => c \in InBak
          /\ c \in timer => link[c] = "down"
      BY DEF HInv, Counted, Polled, InBak
    <3>2. /\ link[c] \in {"new", "freed"} => refs[c] = 0
          /\ c \in bak[g] => link[c] \notin {"new", "freed"}
      BY <3>1, HeldFacts
    <3>3. QED
      BY <1>1, <1>5, <1>6, <2>1, <2>2, <2>4, <3>1, <3>2 DEF One
  <2>5. QED
    BY <2>3, <2>4
<1>10. Counted'
  <2>1. \A c \in timer' : c \in Conns /\ l[c] = "down"
    BY <1>1, <1>2, <1>4, <1>6
  <2>2. QED
    BY <1>1, <1>7, <1>9, <2>1, CollectCounted
<1>11. QED
  BY <1>8, <1>10

LEMMA SwapHeld ==
  ASSUME HInv, SwapGroups
  PROVE  Apart' /\ Counted'
<1> DEFINE old == UNION {live[g] : g \in {h \in Groups : bak[h] # {}}}
           r == Drop(Drop(refs, old), {c \in old : Polled(c)})
<1>1. /\ \A g \in Groups : live'[g] = IF bak[g] # {} THEN bak[g] ELSE live[g]
      /\ bak' = [g \in Groups |-> {}] /\ Collect(link, r) /\ UNCHANGED timer
  BY DEF SwapGroups, Instead
<1>2. /\ link \in [Conns -> States] /\ refs \in [Conns -> Int]
      /\ \A d \in timer : d \in Conns /\ link[d] = "down"
  BY DEF HInv, IInv, Kinds, Counted, Numbered, Created
<1>3. Apart'
  BY <1>1 DEF HInv, Apart
<1>4. /\ r \in [Conns -> Int]
      /\ \A c \in Conns : r[c] = refs[c] - One(c \in old) - One(c \in old /\ Polled(c))
  BY <1>2 DEF Drop, One
<1>5. ASSUME NEW c
      PROVE  /\ c \in InUse' <=> (c \in InUse /\ c \notin old) \/ c \in InBak
             /\ c \notin InBak'
             /\ c \in old => c \in InUse
  BY <1>1 DEF InUse, InBak, HInv, Apart
<1> HIDE DEF old, r
<1>6. ASSUME NEW c \in Conns
      PROVE  /\ r[c] = One(c \in InUse') + One(c \in InBak')
                       + One(link[c] \in {"connecting", "up"} /\ r[c] # 0) + One(c \in timer')
             /\ link[c] \in {"new", "freed"} => r[c] = 0
  <2>1. /\ refs[c] = One(c \in InUse) + One(c \in InBak)
                    + One(link[c] \in {"connecting", "up"}) + One(c \in timer)
        /\ c \in timer => link[c] = "down"
    BY DEF HInv, Counted, Polled
  <2>2. /\ link[c] \in {"new", "freed"} => refs[c] = 0
        /\ ~(c \in InUse /\ c \in InBak)
    BY HeldFacts
  <2>3. QED
    BY <1>1, <1>4, <1>5, <2>1, <2>2 DEF One, Polled
<1>7. Counted'
  BY <1>1, <1>2, <1>4, <1>6, CollectCounted
<1>8. QED
  BY <1>3, <1>7

\* A backup group that is cleared, of the connectors of hit, and the others.
LEMMA ClearHeld ==
  ASSUME HInv, NEW G, UNCHANGED live, bak' = Cleared(G)
  PROVE  /\ Apart'
         /\ \A c \in Conns : /\ c \in InUse' <=> c \in InUse
                             /\ c \in InBak' <=> c \in InBak /\ c \notin BakOf(G)
                             /\ c \in BakOf(G) => c \in InBak
<1>1. bak \in [Groups -> SUBSET Conns]
  BY DEF HInv, IInv, Kinds
<1>2. \A h \in Groups : bak'[h] = IF h = G THEN {} ELSE bak[h]
  BY DEF Cleared
<1>3. Apart'
  BY <1>2 DEF HInv, Apart
<1>4. ASSUME NEW c \in Conns
      PROVE  /\ c \in InUse' <=> c \in InUse
             /\ c \in InBak' <=> c \in InBak /\ c \notin BakOf(G)
             /\ c \in BakOf(G) => c \in InBak
  BY <1>2 DEF InUse, InBak, BakOf, HInv, Apart
<1>5. QED
  BY <1>3, <1>4

LEMMA RefusedHeld ==
  ASSUME HInv, NEW c \in Conns, Refused(c)
  PROVE  Apart' /\ Counted'
<1> DEFINE hit == IF module[c] = ConnectModule THEN {} ELSE BakOf(group[c])
           l == [link EXCEPT ![c] = "down"]
           r == ToTimer(Drop(refs, hit), c)
<1>1. /\ Collect(l, r) /\ link[c] = "connecting" /\ UNCHANGED live
      /\ timer' = timer \cup {c}
  BY DEF Refused
<1>2. /\ link \in [Conns -> States] /\ refs \in [Conns -> Int]
      /\ \A d \in timer : d \in Conns /\ link[d] = "down"
      /\ bak \in [Groups -> SUBSET Conns]
  BY DEF HInv, IInv, Kinds, Counted, Numbered, Created
<1>3. /\ Apart'
      /\ \A d \in Conns : /\ d \in InUse' <=> d \in InUse
                          /\ d \in InBak' <=> d \in InBak /\ d \notin hit
                          /\ d \in hit => d \in InBak
  <2>1. CASE module[c] = ConnectModule
    <3>1. UNCHANGED bak /\ hit = {}
      BY <2>1 DEF Refused, ConnectFailed
    <3>2. QED
      BY <1>1, <3>1 DEF InUse, InBak, HInv, Apart
  <2>2. CASE module[c] # ConnectModule
    <3>1. bak' = Cleared(group[c]) /\ hit = BakOf(group[c])
      BY <2>2 DEF Refused, ConnectFailed
    <3>2. QED
      BY <1>1, <3>1, ClearHeld
  <2>3. QED
    BY <2>1, <2>2
<1> HIDE DEF hit
<1>4. \A d \in Conns : r[d] = refs[d] - One(d \in hit)
  BY <1>2 DEF Drop, ToTimer, One
<1>5. r \in [Conns -> Int] /\ l \in [Conns -> States]
  BY <1>2 DEF Drop, ToTimer, States
<1>6. \A d \in Conns : l[d] = IF d = c THEN "down" ELSE link[d]
  BY <1>2
<1> HIDE DEF l, r
<1>7. ASSUME NEW d \in Conns
      PROVE  /\ r[d] = One(d \in InUse') + One(d \in InBak')
                       + One(l[d] \in {"connecting", "up"} /\ r[d] # 0) + One(d \in timer')
             /\ l[d] \in {"new", "freed"} => r[d] = 0
  <2>1. /\ refs[d] = One(d \in InUse) + One(d \in InBak)
                    + One(link[d] \in {"connecting", "up"}) + One(d \in timer)
        /\ d \in timer => link[d] = "down"
    BY DEF HInv, Counted, Polled
  <2>2. link[d] \in {"new", "freed"} => refs[d] = 0
    BY HeldFacts
  <2>3. QED
    BY <1>1, <1>3, <1>4, <1>6, <2>1, <2>2 DEF One
<1>8. Counted'
  <2>1. \A d \in timer' : d \in Conns /\ l[d] = "down"
    BY <1>1, <1>2, <1>6
  <2>2. QED
    BY <1>1, <1>5, <1>7, <2>1, CollectCounted
<1>9. QED
  BY <1>3, <1>8

LEMMA BreakHeld ==
  ASSUME HInv, NEW c \in Conns, Break(c)
  PROVE  Apart' /\ Counted'
<1> DEFINE l == [link EXCEPT ![c] = "down"]
           r == ToTimer(refs, c)
<1>1. /\ Collect(l, r) /\ link[c] \in {"connecting", "up"}
      /\ timer' = timer \cup {c} /\ UNCHANGED <<live, bak>>
  BY DEF Break
<1>2. /\ link \in [Conns -> States] /\ refs \in [Conns -> Int]
      /\ \A d \in timer : d \in Conns /\ link[d] = "down"
  BY DEF HInv, IInv, Kinds, Counted, Numbered, Created
<1>3. Apart' /\ InUse' = InUse /\ InBak' = InBak
  BY <1>1 DEF InUse, InBak, HInv, Apart
<1>4. \A d \in Conns : r[d] = refs[d]
  BY <1>2 DEF Drop, ToTimer
<1>5. r \in [Conns -> Int] /\ l \in [Conns -> States]
  BY <1>2 DEF Drop, ToTimer, States
<1>6. \A d \in Conns : l[d] = IF d = c THEN "down" ELSE link[d]
  BY <1>2
<1> HIDE DEF l, r
<1>7. ASSUME NEW d \in Conns
      PROVE  /\ r[d] = One(d \in InUse') + One(d \in InBak')
                       + One(l[d] \in {"connecting", "up"} /\ r[d] # 0) + One(d \in timer')
             /\ l[d] \in {"new", "freed"} => r[d] = 0
  <2>1. /\ refs[d] = One(d \in InUse) + One(d \in InBak)
                    + One(link[d] \in {"connecting", "up"}) + One(d \in timer)
        /\ d \in timer => link[d] = "down"
    BY DEF HInv, Counted, Polled
  <2>2. link[d] \in {"new", "freed"} => refs[d] = 0
    BY HeldFacts
  <2>3. QED
    BY <1>1, <1>3, <1>4, <1>6, <2>1, <2>2 DEF One
<1>8. Counted'
  <2>1. \A d \in timer' : d \in Conns /\ l[d] = "down"
    BY <1>1, <1>2, <1>6
  <2>2. QED
    BY <1>1, <1>5, <1>7, <2>1, CollectCounted
<1>9. QED
  BY <1>3, <1>8

LEMMA ConnectedHeld ==
  ASSUME HInv, NEW c \in Conns, Connected(c)
  PROVE  Apart' /\ Counted'
<1>1. /\ link' = [link EXCEPT ![c] = "up"] /\ link[c] = "connecting"
      /\ UNCHANGED <<live, bak, refs, timer>>
  BY DEF Connected
<1>2. link \in [Conns -> States]
  BY DEF HInv, IInv, Kinds
<1>3. Apart' /\ InUse' = InUse /\ InBak' = InBak
  BY <1>1 DEF InUse, InBak, HInv, Apart
<1>4. \A d \in Conns : link'[d] = IF d = c THEN "up" ELSE link[d]
  BY <1>1, <1>2
<1>5. ASSUME NEW d \in Conns
      PROVE  /\ (link'[d] \in {"connecting", "up"}) <=> (link[d] \in {"connecting", "up"})
             /\ (link'[d] = "new") <=> (link[d] = "new")
             /\ (link'[d] = "freed") <=> (link[d] = "freed")
             /\ (link'[d] = "down") <=> (link[d] = "down")
  <2>1. CASE d = c
    BY <2>1, <1>1, <1>4
  <2>2. CASE d # c
    BY <2>2, <1>4
  <2>3. QED
    BY <2>1, <2>2
<1>6. Created' = Created
  BY <1>5 DEF Created
<1>7. Counted'
  <2>1. /\ refs' \in [Conns -> Int]
        /\ \A d \in Conns : refs'[d] = One(d \in InUse') + One(d \in InBak')
                                     + One(Polled(d)') + One(d \in timer')
    <3>1. \A d \in Conns : One(Polled(d)') = One(Polled(d))
      BY <1>5 DEF One, Polled
    <3>2. QED
      BY <1>1, <1>3, <3>1 DEF HInv, Counted
  <2>2. \A d \in Created' : link'[d] = "freed" <=> refs'[d] = 0
    BY <1>1, <1>5, <1>6 DEF HInv, Counted, Created
  <2>3. \A d \in timer' : link'[d] = "down"
    BY <1>1, <1>5 DEF HInv, IInv, Kinds, Numbered, Created, Counted
  <2>4. QED
    BY <2>1, <2>2, <2>3 DEF Counted
<1>8. QED
  BY <1>3, <1>7

LEMMA ReconnectHeld ==
  ASSUME HInv, NEW c \in Conns, Reconnect(c) \/ ReconnectNoSocket(c)
  PROVE  Apart' /\ Counted'
<1>1. c \in timer /\ timer' = timer \ {c} /\ UNCHANGED live
  BY DEF Reconnect, ReconnectNoSocket
<1>2. /\ link \in [Conns -> States] /\ refs \in [Conns -> Int]
      /\ bak \in [Groups -> SUBSET Conns]
  BY DEF HInv, IInv, Kinds, Counted
<1>3. UNCHANGED bak
  <2>1. Cleared(NoGroup) = bak
    BY <1>2 DEF Cleared, NoGroup, Groups
  <2>2. QED
    BY <2>1 DEF Reconnect, ReconnectNoSocket, ConnectFailed
<1>4. Apart' /\ InUse' = InUse /\ InBak' = InBak
  BY <1>1, <1>3 DEF InUse, InBak, HInv, Apart
<1>5. /\ timer \subseteq Conns /\ link[c] = "down" /\ \A d \in timer : link[d] = "down"
      /\ refs[c] \in Int
  BY <1>1, <1>2 DEF HInv, IInv, Numbered, Created, Counted
<1>6. ASSUME NEW d \in Conns
      PROVE  /\ refs[d] = One(d \in InUse) + One(d \in InBak)
                         + One(link[d] \in {"connecting", "up"}) + One(d \in timer)
             /\ link[d] \in {"new", "freed"} => refs[d] = 0
  BY HeldFacts DEF HInv, Counted, Polled
<1>7. CASE Collect(link, Drop(refs, {c}))
  <2> DEFINE r == Drop(refs, {c})
  <2>1. r \in [Conns -> Int] /\ \A d \in Conns : r[d] = refs[d] - One(d = c)
    BY <1>2 DEF Drop, One
  <2>2. Collect(link, r)
    BY <1>7
  <2> HIDE DEF r
  <2>3. ASSUME NEW d \in Conns
        PROVE  /\ r[d] = One(d \in InUse') + One(d \in InBak')
                         + One(link[d] \in {"connecting", "up"} /\ r[d] # 0) + One(d \in timer')
               /\ link[d] \in {"new", "freed"} => r[d] = 0
    BY <1>1, <1>4, <1>5, <1>6, <2>1 DEF One
  <2>4. \A d \in timer' : d \in Conns /\ link[d] = "down"
    BY <1>1, <1>5
  <2>5. QED
    BY <1>2, <1>4, <2>1, <2>2, <2>3, <2>4, CollectCounted
<1>8. CASE Collect([link EXCEPT ![c] = "connecting"], refs)
  <2> DEFINE l == [link EXCEPT ![c] = "connecting"]
  <2>1. l \in [Conns -> States] /\ \A d \in Conns : l[d] = IF d = c THEN "connecting" ELSE link[d]
    BY <1>2 DEF States
  <2>2. Collect(l, refs)
    BY <1>8
  <2> HIDE DEF l
  <2>3. ASSUME NEW d \in Conns
        PROVE  /\ refs[d] = One(d \in InUse') + One(d \in InBak')
                            + One(l[d] \in {"connecting", "up"} /\ refs[d] # 0) + One(d \in timer')
               /\ l[d] \in {"new", "freed"} => refs[d] = 0
    BY <1>1, <1>4, <1>5, <1>6, <2>1 DEF One
  <2>4. \A d \in timer' : d \in Conns /\ l[d] = "down"
    BY <1>1, <1>5, <2>1
  <2>5. QED
    BY <1>2, <1>4, <2>1, <2>2, <2>3, <2>4, CollectCounted
<1>9. QED
  BY <1>4, <1>7, <1>8 DEF Reconnect, ReconnectNoSocket

LEMMA HeldPreserved == HInv /\ [Next]_vars => HInv'
<1> SUFFICES ASSUME HInv, [Next]_vars PROVE HInv'
  OBVIOUS
<1>1. IInv'
  BY Preserved DEF HInv
<1>2. SUFFICES Apart' /\ Counted'
  BY <1>1 DEF HInv
<1>3. ASSUME UNCHANGED <<live, bak, link, refs, timer>> PROVE Apart' /\ Counted'
  BY <1>3 DEF HInv, Apart, Counted, InUse, InBak, Polled, Created
<1>4. CASE UNCHANGED vars
  BY <1>3, <1>4 DEF vars
<1>5. ASSUME NEW g \in Groups, NEW n \in 1 .. MaxNum, NEW k \in 0 .. n, Update(g, n, k)
      PROVE  Apart' /\ Counted'
  BY <1>5, UpdateHeld, BackendsAssumption
<1>6. ASSUME NEW c \in Conns,
             \/ Connected(c) \/ Refused(c) \/ Break(c) \/ Reconnect(c) \/ ReconnectNoSocket(c)
      PROVE  Apart' /\ Counted'
  BY <1>6, ConnectedHeld, RefusedHeld, BreakHeld, ReconnectHeld
<1>7. ASSUME NEW u \in Updates, GMLeaves(u) PROVE Apart' /\ Counted'
  BY <1>3, <1>7 DEF GMLeaves
<1>8. QED
  BY <1>4, <1>5, <1>6, <1>7, SwapHeld, Zenon DEF Next

\* The first servers are held by the map in use and by the poller.
LEMMA HeldInitially == Init => HInv
<1> SUFFICES ASSUME Init PROVE HInv
  OBVIOUS
<1>1. Groups \subseteq Conns /\ Created = Groups
  BY BackendsAssumption DEF Init, Created, Groups, Conns
<1>2. InUse = Groups /\ InBak = {}
  BY DEF Init, InUse, InBak
<1>3. Apart
  BY DEF Init, Apart
<1>4. Counted
  <2>1. ASSUME NEW c \in Conns
        PROVE  refs[c] = One(c \in InUse) + One(c \in InBak) + One(Polled(c)) + One(c \in timer)
    BY <1>1, <1>2 DEF Init, Polled, One
  <2>2. QED
    BY <1>1, <2>1 DEF Init, Counted
<1>5. QED
  BY <1>3, <1>4, Initially DEF HInv

\* A connector lives exactly as long as the poller, one of the maps or its
\* reconnect timer holds it.
THEOREM ConnectorsHeld == Spec => []HeldByCount
BY HeldInitially, HeldPreserved, CountedEnough, PTL DEF Spec
-----------------------------------------------------------------------------
(* Commands that run alone *)

\* The servers of a command that its module has counted.
Joined(u) == {c \in Made(u) : module[c] = ConnectModule}

AloneKinds ==
  /\ Len(order) <= MaxUpdates /\ changing \in BOOLEAN
  /\ module \in [Conns -> {ConnectModule} \cup Updates] /\ group \in [Conns -> Nat]
  /\ count \in [Updates -> Nat]
  /\ gm \in [Updates -> {"null", "here", "gone"}]
  /\ told \in [Updates -> Seq({0, 1})]

\* A connector under the module of a command has not finished its first connect,
\* still has its group, and is in that group's backup.
Waiting ==
  \A c \in Conns : module[c] # ConnectModule =>
    /\ link[c] = "connecting" /\ module[c] = source[c]
    /\ group[c] \in Groups /\ c \in bak[group[c]]

OneBackup == \A g, h \in Groups : bak[g] # {} /\ bak[h] # {} => g = h

\* The module's count is right, and the GM is told when the last server joins.
Answered ==
  \A u \in Updates :
    /\ count[u] = Cardinality(Joined(u))
    /\ \/ told[u] = << >> /\ u > Len(order)
       \/ told[u] = << >> /\ gm[u] = "here" /\ u <= Len(order) /\ Joined(u) # Made(u)
       \/ told[u] = <<1>> /\ u <= Len(order) /\ Joined(u) = Made(u)

AllJoined == \A c \in Conns : module[c] = ConnectModule

Alone ==
  ~trouble => /\ ~crashed /\ Waiting /\ OneBackup /\ Answered
              /\ (changing => AllJoined)

AInv == HInv /\ AloneKinds /\ Alone

\* The steps that neither answer a GM nor touch a backup group nor a connector
\* under the module of a command.
LEMMA StillAlone ==
  ASSUME AInv, UNCHANGED <<module, bak, source, order, told, gm, count, crashed, changing>>,
         trouble => trouble', Created' = Created, group' \in [Conns -> Nat],
         \A c \in Conns : module[c] # ConnectModule =>
           (~trouble => link'[c] = link[c] /\ group'[c] = group[c])
  PROVE  AloneKinds' /\ Alone'
<1>1. AloneKinds'
  BY DEF AInv, AloneKinds
<1>2. SUFFICES ASSUME ~trouble' PROVE Alone'
  BY <1>1 DEF Alone
<1>3. ~crashed /\ Waiting /\ OneBackup /\ Answered /\ (changing => AllJoined)
  BY <1>2 DEF AInv, Alone
<1>4. Waiting'
  BY <1>2, <1>3 DEF Waiting
<1>5. Answered'
  <2>1. \A u : Made(u)' = Made(u) /\ Joined(u)' = Joined(u)
    BY DEF Made, Joined
  <2>2. QED
    BY <1>3, <2>1 DEF Answered
<1>6. OneBackup' /\ (changing' => AllJoined')
  BY <1>3 DEF OneBackup, AllJoined
<1>7. QED
  BY <1>3, <1>4, <1>5, <1>6 DEF Alone

\* What a module is told keeps its kind.
LEMMA AnswerKinds ==
  ASSUME AloneKinds, NEW m \in Updates, NEW flag \in {0, 1}, Answer(m, flag)
  PROVE  /\ gm' \in [Updates -> {"null", "here", "gone"}]
         /\ told' \in [Updates -> Seq({0, 1})]
BY DEF AloneKinds, Answer

LEMMA UpdateAlone ==
  ASSUME AInv, NEW g \in Groups, NEW n \in Nat \ {0}, NEW k \in Nat, Update(g, n, k)
  PROVE  AloneKinds' /\ Alone'
<1> DEFINE new == {c \in Conns : c \notin Created /\ c <= Cardinality(Created) + k}
<1>0. PICK u : u = Len(order) + 1
  OBVIOUS
<1>1. /\ UNCHANGED <<changing, count, crashed>> /\ ~changing
      /\ module' = [c \in Conns |-> IF c \in new THEN u ELSE module[c]]
      /\ group' = [c \in Conns |-> IF c \in new THEN g ELSE group[c]]
      /\ source' = [c \in Conns |-> IF c \in new THEN u ELSE source[c]]
      /\ gm' = [gm EXCEPT ![u] = "here"]
      /\ told' = IF k = n THEN told ELSE [told EXCEPT ![u] = Append(@, 0)]
      /\ order' = Append(order, g)
      /\ bak' = [bak EXCEPT ![g] = IF k = n THEN new ELSE {}]
      /\ trouble' = (trouble \/ k # n \/ \E h \in Groups : bak[h] # {})
      /\ Len(order) < MaxUpdates /\ Cardinality(Created) + k <= MaxConns
  BY <1>0 DEF Update, Backup
<1>2. /\ Len(order) \in Nat /\ u \in Updates /\ u = Len(order) + 1
      /\ Len(order') = u
      /\ source \in [Conns -> Nat] /\ bak \in [Groups -> SUBSET Conns]
  BY <1>0, <1>1, BackendsAssumption DEF AInv, HInv, IInv, Kinds, Updates
<1>3. AloneKinds'
  <2>1. told' \in [Updates -> Seq({0, 1})]
    BY <1>1, <1>2 DEF AInv, AloneKinds
  <2>2. gm' \in [Updates -> {"null", "here", "gone"}]
    BY <1>1, <1>2 DEF AInv, AloneKinds
  <2>3. group' \in [Conns -> Nat] /\ module' \in [Conns -> {ConnectModule} \cup Updates]
    BY <1>1, <1>2 DEF AInv, AloneKinds, Groups
  <2>4. QED
    BY <1>1, <1>2, <2>1, <2>2, <2>3, BackendsAssumption, SMTT(60) DEF AInv, AloneKinds
<1>4. SUFFICES ASSUME ~trouble' PROVE Alone'
  BY <1>3 DEF Alone
<1>5. /\ ~trouble /\ k = n /\ \A h \in Groups : bak[h] = {}
      /\ ~crashed /\ Waiting /\ Answered
  BY <1>1, <1>4 DEF AInv, Alone
<1>6. \A c \in Conns : module[c] = ConnectModule
  BY <1>5 DEF Waiting
<1>7. /\ Created' = Created \cup new
      /\ \A c \in new : link'[c] = "connecting"
  <2> DEFINE l == [c \in Conns |-> IF c \in new THEN "connecting" ELSE link[c]]
             r == [c \in Conns |-> IF c \in new THEN IF k = n THEN 2 ELSE 1
                                   ELSE Drop(refs, bak[g])[c]]
  <2>1. Collect(l, r)
    BY DEF Update
  <2>2. \A c \in new : r[c] = 2 /\ l[c] = "connecting"
    BY <1>5
  <2>3. \A c \in Conns : l[c] # "new" <=> c \in Created \cup new
    BY DEF Created
  <2> HIDE DEF l, r, new
  <2>4. \A c \in Conns : link'[c] = IF l[c] # "new" /\ r[c] = 0 THEN "freed" ELSE l[c]
    BY <2>1 DEF Collect, Deleted
  <2>5. new \subseteq Conns
    BY DEF new
  <2>6. QED
    BY <2>2, <2>3, <2>4, <2>5 DEF Created
<1>8. new # {}
  <2>1. Created \subseteq Conns /\ IsFiniteSet(Conns)
    BY BackendsAssumption, FS_Interval DEF Conns, Created
  <2>2. IsFiniteSet(Created) /\ Cardinality(Created) \in Nat
    BY <2>1, FS_Subset, FS_CardinalityType
  <2>3. PICK q \in Nat : q = Cardinality(Created) + k
    BY <2>2
  <2>4. q <= MaxConns /\ q > Cardinality(Created)
    BY <1>1, <1>5, <2>2, <2>3
  <2>5. Cardinality(1 .. q) = q /\ IsFiniteSet(1 .. q)
    BY <2>3, FS_Interval
  <2>6. ~(1 .. q \subseteq Created)
    BY <2>2, <2>4, <2>5, FS_Subset
  <2>7. 1 .. q \subseteq Conns
    BY <2>3, <2>4, BackendsAssumption DEF Conns
  <2>8. QED
    BY <2>3, <2>6, <2>7
<1>9. /\ new \subseteq Conns /\ new \cap Created = {} /\ Created \subseteq Conns
      /\ \A c \in Created : source[c] <= Len(order)
  BY DEF Created, AInv, HInv, IInv, Numbered
<1> HIDE DEF new
<1>10. Made(u)' = new /\ Made(u) = {} /\ \A v \in Updates : v # u => Made(v)' = Made(v)
  BY <1>1, <1>2, <1>7, <1>9 DEF Made
<1>11. Joined(u)' = {} /\ Joined(u) = {} /\ \A v \in Updates : v # u => Joined(v)' = Joined(v)
  <2>1. \A c \in new : module'[c] # ConnectModule
    BY <1>1, <1>2, <1>9 DEF Updates, ConnectModule
  <2>2. \A v \in Updates : \A c \in Made(v) : module'[c] = module[c]
    BY <1>1, <1>9 DEF Made
  <2>3. QED
    BY <1>10, <2>1, <2>2 DEF Joined
<1>12. Waiting'
  BY <1>1, <1>2, <1>5, <1>6, <1>7, <1>9 DEF Waiting
<1>13. OneBackup'
  BY <1>1, <1>2, <1>5 DEF OneBackup
<1>14. Answered'
  <2>1. ASSUME NEW v \in Updates, v # u
        PROVE  count'[v] = count[v] /\ gm'[v] = gm[v] /\ told'[v] = told[v]
               /\ (v <= Len(order) <=> v <= Len(order'))
    BY <1>1, <1>2, <1>5, <2>1 DEF AInv, AloneKinds, Updates
  <2>2. count'[u] = count[u] /\ told'[u] = told[u] /\ gm'[u] = "here"
    BY <1>1, <1>2, <1>5 DEF AInv, AloneKinds
  <2>3. count[u] = Cardinality(Joined(u)) /\ told[u] = << >>
    BY <1>2, <1>5 DEF Answered
  <2>4. \A v \in Updates : v > Len(order) <=> ~(v <= Len(order))
    BY <1>2 DEF Updates
  <2>5. \A v \in Updates : v > Len(order') <=> ~(v <= Len(order'))
    BY <1>2 DEF Updates
  <2>6. ASSUME NEW v \in Updates, v # u
        PROVE  /\ count'[v] = Cardinality(Joined(v)')
               /\ \/ told'[v] = << >> /\ v > Len(order')
                  \/ told'[v] = << >> /\ gm'[v] = "here" /\ v <= Len(order') /\ Joined(v)' # Made(v)'
                  \/ told'[v] = <<1>> /\ v <= Len(order') /\ Joined(v)' = Made(v)'
    BY <1>5, <1>10, <1>11, <2>1, <2>4, <2>5, <2>6 DEF Answered
  <2>7. u <= Len(order')
    BY <1>2
  <2>8. QED
    BY <1>8, <1>10, <1>11, <2>2, <2>3, <2>6, <2>7 DEF Answered
<1>15. QED
  BY <1>1, <1>5, <1>12, <1>13, <1>14 DEF Alone

LEMMA ConnectedAlone ==
  ASSUME AInv, NEW c \in Conns, Connected(c)
  PROVE  AloneKinds' /\ Alone'
<1>0. PICK m, B : m = module[c] /\ B = BakOf(group[c])
  OBVIOUS
<1>1. /\ link[c] = "connecting" /\ link' = [link EXCEPT ![c] = "up"]
      /\ module' = [module EXCEPT ![c] = ConnectModule]
      /\ count' = IF m = ConnectModule THEN count ELSE [count EXCEPT ![m] = @ + 1]
      /\ changing' = (changing \/ Full(m, B))
      /\ UNCHANGED <<live, bak, group, order, source, trouble>>
  BY <1>0 DEF Connected
<1>2. \/ m # ConnectModule /\ B = {} /\ UNCHANGED <<gm, told>>
      \/ Full(m, B) /\ Answer(m, 1)
      \/ ~Full(m, B) /\ NoAnswer
  <2>1. (CASE m # ConnectModule /\ B = {} -> crashed' = TRUE /\ UNCHANGED <<gm, told>>
           [] Full(m, B) -> Answer(m, 1)
           [] OTHER -> NoAnswer)
    BY <1>0 DEF Connected
  <2>2. QED
    BY <2>1
<1>3. /\ link \in [Conns -> States] /\ module \in [Conns -> {ConnectModule} \cup Updates]
      /\ count \in [Updates -> Nat] /\ bak \in [Groups -> SUBSET Conns]
      /\ gm \in [Updates -> {"null", "here", "gone"}] /\ told \in [Updates -> Seq({0, 1})]
  BY DEF AInv, HInv, IInv, Kinds, AloneKinds
<1>4. Created' = Created
  BY <1>1, <1>3 DEF Created
<1>5. CASE m = ConnectModule
  <2>1. module' = module /\ count' = count /\ ~Full(m, B)
    BY <1>0, <1>1, <1>3, <1>5 DEF Full
  <2>2. UNCHANGED <<gm, told, crashed, changing>>
    <3>1. NoAnswer
      BY <1>2, <1>5, <2>1
    <3>2. changing' = changing
      BY <1>1, <2>1 DEF AInv, AloneKinds
    <3>3. QED
      BY <3>1, <3>2 DEF NoAnswer
  <2>3. \A d \in Conns : module[d] # ConnectModule => link'[d] = link[d]
    BY <1>0, <1>1, <1>3, <1>5
  <2>4. group \in [Conns -> Nat]
    BY DEF AInv, AloneKinds
  <2>5. QED
    BY <1>1, <1>4, <2>1, <2>2, <2>3, <2>4, StillAlone
<1>6. CASE m # ConnectModule
  <2>1. m \in Updates /\ c \in Created
    BY <1>0, <1>1, <1>3, <1>6 DEF Created
  <2>2. AloneKinds'
    <3>1. module' \in [Conns -> {ConnectModule} \cup Updates] /\ count' \in [Updates -> Nat]
      BY <1>1, <1>3, <2>1
    <3>2. gm' \in [Updates -> {"null", "here", "gone"}] /\ told' \in [Updates -> Seq({0, 1})]
      BY <1>2, <1>3, <2>1, AnswerKinds DEF AInv, NoAnswer
    <3>3. QED
      BY <1>1, <3>1, <3>2 DEF AInv, AloneKinds
  <2>3. SUFFICES ASSUME ~trouble PROVE Alone'
    BY <1>1, <2>2 DEF Alone
  <2>4. ~crashed /\ Waiting /\ OneBackup /\ Answered
    BY <2>3 DEF AInv, Alone
  <2>5. /\ source[c] = m /\ group[c] \in Groups /\ c \in B /\ B = bak[group[c]]
        /\ B = Made(m)
    <3>1. source[c] = m /\ group[c] \in Groups /\ c \in bak[group[c]]
      BY <1>0, <1>6, <2>4 DEF Waiting
    <3>2. bak[group[c]] = Made(source[c])
      BY <3>1, Zenon DEF AInv, HInv, IInv, WholeGroups
    <3>3. QED
      BY <1>0, <3>1, <3>2 DEF BakOf
  <2>6. /\ IsFiniteSet(Made(m)) /\ c \in Made(m) /\ c \notin Joined(m)
        /\ Joined(m) \subseteq Made(m)
    <3>1. Made(m) \subseteq Conns /\ IsFiniteSet(Conns)
      BY BackendsAssumption, FS_Interval DEF Conns, Made, Created
    <3>2. QED
      BY <1>0, <1>6, <2>1, <2>5, <3>1, FS_Subset DEF Joined, Made
  <2>7. Joined(m)' = Joined(m) \cup {c} /\ \A v \in Updates : v # m => Joined(v)' = Joined(v)
    BY <1>1, <1>3, <1>4, <2>5, <2>6 DEF Joined, Made, Created
  <2>8. \A v : Made(v)' = Made(v)
    BY <1>1, <1>4 DEF Made
  <2>9. /\ Cardinality(Joined(m)') = Cardinality(Joined(m)) + 1
        /\ Cardinality(Joined(m)') \in Nat
    BY <2>6, <2>7, FS_Subset, FS_AddElement, FS_CardinalityType
  <2>10. Full(m, B) <=> Joined(m)' = Made(m)
    <3>1. count[m] = Cardinality(Joined(m))
      BY <2>1, <2>4 DEF Answered
    <3>2. Joined(m)' \subseteq Made(m)
      BY <2>6, <2>7
    <3>3. Cardinality(Joined(m)') = Cardinality(Made(m)) <=> Joined(m)' = Made(m)
      BY <2>6, <3>2, FS_Subset
    <3>4. QED
      BY <1>6, <2>5, <2>9, <3>1, <3>3 DEF Full
  <2>11. told[m] = << >> /\ gm[m] = "here" /\ m <= Len(order)
    <3>1. m <= Len(order)
      BY <2>1, <2>5 DEF AInv, HInv, IInv, Numbered
    <3>2. ~(m > Len(order))
      BY <2>1, <3>1 DEF Updates, AInv, HInv, IInv, Kinds
    <3>3. QED
      BY <2>1, <2>4, <2>6, <3>1, <3>2 DEF Answered
  <2>12. \A v \in Updates : v # m => told'[v] = told[v] /\ gm'[v] = gm[v] /\ count'[v] = count[v]
    BY <1>1, <1>2, <1>3, <2>1, <2>5 DEF NoAnswer, Answer
  <2>13. ~crashed'
    BY <1>2, <2>4, <2>5, <2>11 DEF NoAnswer, Answer
  <2>14. count'[m] = Cardinality(Joined(m)')
    BY <1>1, <1>3, <1>6, <2>1, <2>4, <2>9 DEF Answered
  <2>15. Answered'
    <3>1. CASE Full(m, B)
      <4>1. Answer(m, 1)
        BY <1>2, <2>5, <3>1
      <4>2. told'[m] = <<1>>
        BY <1>3, <2>1, <2>11, <4>1 DEF Answer
      <4>3. QED
        BY <1>1, <2>4, <2>7, <2>8, <2>10, <2>11, <2>12, <2>14, <3>1, <4>2 DEF Answered
    <3>2. CASE ~Full(m, B)
      <4>1. told'[m] = << >> /\ gm'[m] = "here"
        BY <1>2, <2>5, <2>11, <3>2 DEF NoAnswer
      <4>2. QED
        BY <1>1, <2>4, <2>7, <2>8, <2>10, <2>11, <2>12, <2>14, <3>2, <4>1 DEF Answered
    <3>3. QED
      BY <3>1, <3>2
  <2>16. Waiting'
    BY <1>1, <1>3, <2>4 DEF Waiting
  <2>17. OneBackup'
    BY <1>1, <2>4 DEF OneBackup
  <2>18. changing' => AllJoined'
    <3>1. CASE changing
      BY <1>0, <1>6, <2>3, <3>1 DEF AInv, Alone, AllJoined
    <3>2. ASSUME Full(m, B), NEW d \in Conns, module[d] # ConnectModule
          PROVE  module'[d] = ConnectModule
      <4>1. d \in B
        <5>1. group[d] \in Groups /\ d \in bak[group[d]]
          BY <2>4, <3>2 DEF Waiting
        <5>2. group[d] = group[c]
          BY <2>4, <2>5, <5>1 DEF OneBackup
        <5>3. QED
          BY <2>5, <5>1, <5>2
      <4>2. QED
        BY <2>5, <2>10, <3>2, <4>1 DEF Joined
    <3>3. QED
      BY <1>1, <1>3, <3>1, <3>2 DEF AllJoined
  <2>19. QED
    BY <2>13, <2>15, <2>16, <2>17, <2>18 DEF Alone
<1>7. QED
  BY <1>5, <1>6

LEMMA SwapAlone ==
  ASSUME AInv, SwapGroups
  PROVE  AloneKinds' /\ Alone'
<1>1. /\ UNCHANGED <<module, group, count, gm, order, source, told>>
      /\ changing /\ changing' = FALSE /\ bak' = [g \in Groups |-> {}]
      /\ (~trouble' => ~trouble /\ ~crashed')
  BY DEF SwapGroups
<1>2. Created' = Created
  <2>1. PICK r : Collect(link, r)
    BY DEF SwapGroups
  <2>2. QED
    BY <2>1, CollectFacts DEF AInv, HInv, IInv, Kinds, Created
<1>3. AloneKinds'
  BY <1>1 DEF AInv, AloneKinds
<1>4. ASSUME ~trouble' PROVE Alone'
  <2>1. Answered /\ AllJoined
    BY <1>1, <1>4 DEF AInv, Alone
  <2>2. \A u : Made(u)' = Made(u) /\ Joined(u)' = Joined(u)
    BY <1>1, <1>2 DEF Made, Joined
  <2>3. Answered'
    BY <1>1, <2>1, <2>2 DEF Answered
  <2>4. Waiting' /\ OneBackup'
    BY <1>1, <2>1 DEF Waiting, OneBackup, AllJoined
  <2>5. QED
    BY <1>1, <1>4, <2>3, <2>4 DEF Alone
<1>5. QED
  BY <1>3, <1>4 DEF Alone

\* A server in use that breaks has joined before it was put in use, and one
\* that reconnects has been connected before.
LEMMA BreakAlone ==
  ASSUME AInv, NEW c \in Conns, Break(c)
  PROVE  AloneKinds' /\ Alone'
<1> DEFINE l == [link EXCEPT ![c] = "down"]
           r == ToTimer(refs, c)
<1>1. /\ Collect(l, r)
      /\ link[c] = "up" \/ (link[c] = "connecting" /\ c \in InUse)
      /\ UNCHANGED <<bak, module, group, changing, count, gm, crashed, order, source, told, trouble>>
  BY DEF Break
<1>2. l \in [Conns -> States] /\ {d \in Conns : l[d] # "new"} = Created
  BY <1>1 DEF AInv, HInv, IInv, Kinds, States, Created
<1>3. \A d \in Conns \ {c} : r[d] = refs[d] /\ l[d] = link[d]
  BY DEF Drop, ToTimer, AInv, HInv, IInv, Kinds
<1> HIDE DEF l, r
<1>4. Created' = Created
  BY <1>1, <1>2, CollectFacts
<1>5. ASSUME ~trouble, NEW d \in Conns, module[d] # ConnectModule
      PROVE  link'[d] = link[d]
  <2>1. link[d] = "connecting" /\ d \in InBak
    BY <1>5 DEF AInv, Alone, Waiting, InBak
  <2>2. refs[d] # 0 /\ ~(d \in InUse)
    BY <2>1, HeldFacts DEF AInv
  <2>3. d # c
    BY <1>1, <2>1, <2>2
  <2>4. QED
    BY <1>1, <1>3, <2>2, <2>3 DEF Collect, Deleted
<1>6. group \in [Conns -> Nat]
  BY DEF AInv, AloneKinds
<1>7. QED
  BY <1>1, <1>4, <1>5, <1>6, StillAlone

\* What a refused connect does, under the module of a command.
LEMMA FailedKinds ==
  ASSUME AInv, NEW c \in Conns, NEW g, ConnectFailed(c, g),
         UNCHANGED <<module, count, order, changing>>, group' \in [Conns -> Nat]
  PROVE  AloneKinds'
<1>1. module[c] # ConnectModule => module[c] \in Updates
  BY DEF AInv, AloneKinds
<1>2. /\ gm' \in [Updates -> {"null", "here", "gone"}]
      /\ told' \in [Updates -> Seq({0, 1})]
  BY <1>1, AnswerKinds DEF ConnectFailed, NoAnswer, AInv, AloneKinds
<1>3. QED
  BY <1>2 DEF AInv, AloneKinds

\* Who waits for the first connect is held, so that nothing deletes it.
LEMMA WaitingStays ==
  ASSUME AInv, ~trouble, NEW l, NEW r, Collect(l, r), NEW d \in Conns,
         module[d] # ConnectModule, l[d] = link[d], r[d] = refs[d]
  PROVE  link'[d] = link[d]
<1>1. link[d] = "connecting" /\ d \in InBak
  BY DEF AInv, Alone, Waiting, InBak
<1>2. refs[d] # 0
  BY <1>1, HeldFacts DEF AInv
<1>3. QED
  BY <1>2 DEF Collect, Deleted

LEMMA NoSocketAlone ==
  ASSUME AInv, NEW c \in Conns, ReconnectNoSocket(c)
  PROVE  AloneKinds' /\ Alone'
<1>1. /\ c \in timer /\ Collect(link, Drop(refs, {c}))
      /\ UNCHANGED <<module, bak, source, order, told, gm, count, crashed, changing, group, trouble>>
  BY DEF ReconnectNoSocket
<1>2. link \in [Conns -> States] /\ link[c] = "down" /\ group \in [Conns -> Nat]
  BY <1>1 DEF AInv, HInv, IInv, Kinds, Counted, AloneKinds
<1>3. Created' = Created
  BY <1>1, <1>2, CollectFacts DEF Created
<1>4. ASSUME ~trouble, NEW d \in Conns, module[d] # ConnectModule PROVE link'[d] = link[d]
  <2>1. d # c
    BY <1>2, <1>4 DEF AInv, Alone, Waiting
  <2>2. Drop(refs, {c})[d] = refs[d]
    BY <2>1 DEF Drop
  <2>3. QED
    BY <1>1, <1>4, <2>2, WaitingStays
<1>5. QED
  BY <1>1, <1>2, <1>3, <1>4, StillAlone

LEMMA ReconnectAlone ==
  ASSUME AInv, NEW c \in Conns, Reconnect(c)
  PROVE  AloneKinds' /\ Alone'
<1>1. /\ c \in timer /\ group' = [group EXCEPT ![c] = NoGroup]
      /\ UNCHANGED <<live, module, changing, count, order, source>>
  BY DEF Reconnect
<1>2. group' \in [Conns -> Nat]
  BY <1>1 DEF AInv, AloneKinds, NoGroup
<1>3. CASE ConnectFailed(c, NoGroup) /\ trouble'
  BY <1>1, <1>2, <1>3, FailedKinds DEF Alone
<1>4. CASE /\ Collect([link EXCEPT ![c] = "connecting"], refs) /\ NoAnswer
           /\ UNCHANGED <<bak, trouble>>
  <2>1. link[c] = "down" /\ link \in [Conns -> States]
    BY <1>1 DEF AInv, HInv, Counted, IInv, Kinds
  <2>2. Created' = Created
    <3>1. link[c] # "new" /\ "connecting" \in States \ {"new"}
      BY <2>1 DEF States
    <3>2. QED
      BY <1>4, <2>1, <3>1, RelinkedFacts
  <2>3. \A d \in Conns : module[d] # ConnectModule =>
            (~trouble => link'[d] = link[d] /\ group'[d] = group[d])
    <3> SUFFICES ASSUME NEW d \in Conns, module[d] # ConnectModule, ~trouble
                 PROVE  link'[d] = link[d] /\ group'[d] = group[d]
      OBVIOUS
    <3> DEFINE l == [link EXCEPT ![c] = "connecting"]
    <3>1. d # c
      BY <2>1 DEF AInv, Alone, Waiting
    <3>2. l[d] = link[d] /\ Collect(l, refs)
      BY <1>4, <2>1, <3>1
    <3>3. group'[d] = group[d]
      BY <1>1, <3>1 DEF AInv, AloneKinds
    <3> HIDE DEF l
    <3>4. link'[d] = link[d]
      BY <3>2, WaitingStays
    <3>5. QED
      BY <3>3, <3>4
  <2>4. QED
    BY <1>1, <1>2, <1>4, <2>2, <2>3, StillAlone DEF NoAnswer
<1>5. QED
  BY <1>3, <1>4 DEF Reconnect

LEMMA AlonePreserved == AInv /\ [Next]_vars => AInv'
<1> SUFFICES ASSUME AInv, [Next]_vars PROVE AloneKinds' /\ Alone'
  BY HeldPreserved DEF AInv
<1> USE DEF AInv
<1>1. CASE UNCHANGED vars
  BY <1>1, StillAlone DEF vars, AloneKinds, Created
<1>2. ASSUME NEW g \in Groups, NEW n \in 1 .. MaxNum, NEW k \in 0 .. n, Update(g, n, k)
      PROVE  AloneKinds' /\ Alone'
  BY <1>2, UpdateAlone, BackendsAssumption
<1>3. ASSUME NEW c \in Conns, Refused(c) PROVE AloneKinds' /\ Alone'
  <2>1. /\ ConnectFailed(c, group[c]) /\ trouble'
        /\ UNCHANGED <<module, count, order, changing, group>>
    BY <1>3 DEF Refused
  <2>2. QED
    BY <2>1, FailedKinds DEF Alone, AloneKinds
<1>4. ASSUME NEW c \in Conns, ReconnectNoSocket(c) PROVE AloneKinds' /\ Alone'
  BY <1>4, NoSocketAlone
<1>5. ASSUME NEW u \in Updates, GMLeaves(u) PROVE AloneKinds' /\ Alone'
  BY <1>5 DEF GMLeaves, AloneKinds, Alone
<1>6. QED
  BY <1>1, <1>2, <1>3, <1>4, <1>5, SwapAlone, ConnectedAlone, BreakAlone, ReconnectAlone,
     Zenon DEF Next

\* processDynUpdateServer, CChangeConnectModule and onTimer: while commands do
\* not overlap and nothing is refused, the session server is not stopped, and a
\* GM is told nothing but success, when the last of its servers has connected.
THEOREM AloneIsSafe == Spec => []SafeAlone
<1>1. Init => AInv
  <2> SUFFICES ASSUME Init PROVE AInv
    OBVIOUS
  <2>1. Created \subseteq Conns /\ \A c \in Created : source[c] = 0
    BY DEF Init, Created
  <2>2. \A u \in Updates : Made(u) = {} /\ Joined(u) = {}
    BY <2>1 DEF Made, Joined, Updates
  <2>3. AloneKinds
    <3>1. changing \in BOOLEAN
      BY Zenon DEF Init
    <3>2. QED
      BY <3>1, BackendsAssumption DEF Init, AloneKinds, ConnectModule, Groups, NoGroup
  <2>4. Waiting /\ OneBackup
    BY DEF Init, Waiting, OneBackup
  <2>5. Answered
    <3>1. \A u \in Updates : u > Len(order) /\ told[u] = << >> /\ count[u] = 0
      BY BackendsAssumption DEF Init, Updates
    <3>2. Cardinality({}) = 0
      BY FS_EmptySet
    <3>3. QED
      BY <2>2, <3>1, <3>2, Zenon DEF Answered
  <2>6. QED
    BY <2>3, <2>4, <2>5, HeldInitially DEF AInv, Alone, Init
<1>2. AInv => SafeAlone
  <2>1. ASSUME NEW u \in Updates, told[u] = << 1 >>, Joined(u) = Made(u) \/ told[u] = << >>
        PROVE  \A c \in Made(u) : module[c] = ConnectModule
    BY <2>1 DEF Joined
  <2>2. QED
    BY <2>1 DEF AInv, Alone, Answered, SafeAlone
<1>3. QED
  BY <1>1, <1>2, AlonePreserved, PTL DEF Spec
=============================================================================
