--------------------------- MODULE LoginFlowProofs ---------------------------
(***************************************************************************)
(* What holds of SessionGate and of LoginFlow, the gate with the service   *)
(* and its cache behind it, for every set of connections and accounts and  *)
(* every delay.                                                            *)
(*                                                                         *)
(* First the gate.  Indexed is inductive together with TypeOK and          *)
(* GuestsSilent: the two maps, the poller and the pending heartbeats agree *)
(* about each connection before a step, so the entry that clean removes is *)
(* the connection's own, or that of a guest whose id was refused to it.    *)
(*                                                                         *)
(* Then the two processes.  A step of both together is one of the gate, or *)
(* leaves it alone, so the gate's invariant is theirs too.  The removal    *)
(* list has an invariant of its own.                                       *)
(***************************************************************************)
EXTENDS LoginFlow, SequenceTheorems, TLAPS

\* A connection that is not verified has not sent CMD_LOGIN_CS.
GuestsSilent == \A c \in poller : permission[c] = 0 => c \notin announced

IInv == TypeOK /\ Indexed /\ GuestsSilent

----------------------------------------------------------------------------

\* NextId stays within the guest ids.
LEMMA NextIdType ==
    ASSUME NEW n \in GuestIds
    PROVE  NextId(n) \in GuestIds
BY GateAssumption DEF NextId, GuestIds

\* The bound of the queue is not used: sending a message keeps the queue a
\* sequence of messages.
LEMMA TellType ==
    ASSUME toService \in Seq(Message), NEW m \in Message, Tell(m)
    PROVE  toService' \in Seq(Message)
BY DEF Tell

\* What clean leaves: the entry of c is gone and every other entry stays.
LEMMA CleanType ==
    ASSUME TypeOK, NEW c \in Conns
    PROVE  /\ GuestsWithout(c) \in [GuestIds -> Conns \cup {NoConn}]
           /\ UsersWithout(c) \in [Users -> Conns \cup {NoConn}]
BY DEF TypeOK, GuestsWithout, UsersWithout

\* A pending heartbeat is that of a client, or of a refused object.
LEMMA Beating ==
    ASSUME TypeOK, Indexed, NEW c \in heartbeat
    PROVE  /\ c \in Conns /\ c # NoConn /\ guestId[c] \in GuestIds
           /\ \/ permission[c] = 0
              \/ permission[c] # 0 /\ c \in poller /\ userId[c] \in Users /\ users[userId[c]] = c
           /\ c \in poller \/ guestId[c] \in refused
BY GateAssumption DEF TypeOK, Indexed, PolledAreIndexed, KeptByTimer

\* Clean on c takes c's entry out of the maps.  The only other entry it can
\* take is the one of a guest whose id was refused to somebody.
LEMMA CleanRemoves ==
    ASSUME TypeOK, Indexed, NEW c \in heartbeat
    PROVE  /\ \A g \in GuestIds :
                /\ GuestsWithout(c)[g] \in {NoConn, guests[g]}
                /\ guests[g] = c => GuestsWithout(c)[g] = NoConn
                /\ guests[g] # c /\ g \notin refused => GuestsWithout(c)[g] = guests[g]
           /\ \A u \in Users :
                UsersWithout(c)[u] = IF users[u] = c THEN NoConn ELSE users[u]
<1> USE GateAssumption
<1>1. c \in Conns /\ c # NoConn /\ guestId[c] \in GuestIds
  BY Beating
<1>2. CASE permission[c] = 0
  <2>1. \A u \in Users : users[u] # c
    BY <1>1, <1>2 DEF Indexed, UserEntriesRight
  <2>2. UsersWithout(c) = users
    BY <1>2 DEF UsersWithout
  <2>3. GuestsWithout(c) = [guests EXCEPT ![guestId[c]] = NoConn]
    BY <1>2 DEF GuestsWithout
  <2>4. \A g \in GuestIds : guests[g] = c => g = guestId[c]
    BY <1>1 DEF Indexed, GuestEntriesRight
  <2>5. guests[guestId[c]] = c \/ guestId[c] \in refused
    BY <1>2 DEF Indexed, PolledAreIndexed, KeptByTimer
  <2>6. QED
    BY <1>1, <2>1, <2>2, <2>3, <2>4, <2>5 DEF TypeOK
<1>3. CASE permission[c] # 0
  <2>1. users[userId[c]] = c /\ userId[c] \in Users
    BY <1>3, Beating
  <2>2. \A u \in Users : users[u] = c => u = userId[c]
    BY <1>1 DEF Indexed, UserEntriesRight
  <2>3. \A g \in GuestIds : guests[g] # c
    BY <1>1, <1>3 DEF Indexed, GuestEntriesRight
  <2>4. QED
    BY <1>3, <2>1, <2>2, <2>3 DEF GuestsWithout, UsersWithout, TypeOK
<1>4. QED
  BY <1>2, <1>3

\* A step that cleans one connection whose heartbeat is pending and changes no
\* member of a connection object keeps the maps and the poller in agreement.
LEMMA CleanKeepsIndexed ==
    ASSUME TypeOK, Indexed, NEW c \in heartbeat, Clean(c), UNCHANGED <<connVars, refused>>
    PROVE  Indexed'
<1> USE GateAssumption
<1>1. /\ \A g \in GuestIds :
            /\ guests'[g] \in {NoConn, guests[g]}
            /\ guests[g] = c => guests'[g] = NoConn
            /\ guests[g] # c /\ g \notin refused => guests'[g] = guests[g]
      /\ \A u \in Users : users'[u] = IF users[u] = c THEN NoConn ELSE users[u]
      /\ poller' = poller \ {c} /\ heartbeat' = heartbeat \ {c}
  BY CleanRemoves DEF Clean
<1>2. UNCHANGED <<permission, guestId, userId, refused>>
  BY DEF connVars
<1>3. GuestEntriesRight'
  BY <1>1, <1>2 DEF Indexed, GuestEntriesRight
<1>4. UserEntriesRight'
  BY <1>1, <1>2 DEF Indexed, UserEntriesRight
<1>5. PolledAreIndexed'
  BY <1>1, <1>2 DEF Indexed, PolledAreIndexed, TypeOK
<1>6. KeptByTimer'
  BY <1>1, <1>2 DEF Indexed, KeptByTimer
<1>7. QED
  BY <1>3, <1>4, <1>5, <1>6 DEF Indexed

----------------------------------------------------------------------------
(* One lemma per group of actions *)

LEMMA CleanStep ==
    ASSUME IInv, NEW c \in heartbeat, Clean(c), UNCHANGED <<connVars, refused, announced>>,
           nextGuest' \in GuestIds, verifying' \subseteq Check,
           toService' \in Seq(Message), timedOut' \subseteq Users
    PROVE  IInv'
<1>1. c \in Conns
  BY DEF IInv, TypeOK
<1>2. TypeOK'
  BY <1>1, CleanType DEF IInv, TypeOK, Clean, connVars
<1>3. Indexed'
  BY CleanKeepsIndexed DEF IInv
<1>4. GuestsSilent'
  BY DEF IInv, GuestsSilent, Clean, connVars
<1>5. QED
  BY <1>2, <1>3, <1>4 DEF IInv

LEMMA MapsUntouched ==
    ASSUME IInv, UNCHANGED <<mapVars, connVars, refused>>,
           announced' \subseteq announced \cup {c \in poller : permission[c] # 0},
           nextGuest' \in GuestIds, verifying' \subseteq Check,
           toService' \in Seq(Message), timedOut' \subseteq Users
    PROVE  IInv'
<1>1. TypeOK'
  BY DEF IInv, TypeOK, mapVars, connVars
<1>2. Indexed'
  BY DEF IInv, Indexed, GuestEntriesRight, UserEntriesRight, PolledAreIndexed,
         KeptByTimer, mapVars, connVars
<1>3. GuestsSilent'
  BY DEF IInv, GuestsSilent, mapVars, connVars
<1>4. QED
  BY <1>1, <1>2, <1>3 DEF IInv

LEMMA AcceptStep ==
    ASSUME IInv, NEW c \in Conns, Accept(c)
    PROVE  IInv'
<1> USE GateAssumption
<1>1. nextGuest \in GuestIds /\ nextGuest' \in GuestIds
  BY NextIdType DEF IInv, TypeOK, Accept
<1>2. TypeOK'
  BY <1>1 DEF IInv, TypeOK, Accept
<1>3. c # NoConn /\ c \notin poller
  BY DEF Accept, Freed
<1>4. GuestEntriesRight'
  BY <1>1, <1>3 DEF IInv, TypeOK, Indexed, GuestEntriesRight, Accept, Freed
<1>5. UserEntriesRight'
  BY <1>3 DEF IInv, TypeOK, Indexed, UserEntriesRight, Accept, Freed
<1>6. PolledAreIndexed'
  <2>1. ASSUME NEW d \in poller'
        PROVE  /\ permission'[d] = 0 =>
                     userId'[d] = NoUser /\ (guests'[guestId'[d]] = d \/ guestId'[d] \in refused')
               /\ permission'[d] # 0 => userId'[d] \in Users /\ users'[userId'[d]] = d
    <3>1. CASE d = c
      BY <3>1, <1>1 DEF IInv, TypeOK, Accept
    <3>2. CASE d # c
      <4>1. d \in poller /\ d \in Conns /\ d # NoConn
        BY <3>2 DEF IInv, TypeOK, Accept
      <4>2. guestId[d] \in GuestIds
        BY <4>1 DEF IInv, TypeOK
      <4>3. /\ permission'[d] = permission[d] /\ guestId'[d] = guestId[d]
            /\ userId'[d] = userId[d] /\ users' = users /\ refused' = refused
        BY <3>2, <4>1 DEF IInv, TypeOK, Accept
      <4>4. guests[guestId[d]] = d => guests'[guestId[d]] = d
        BY <4>1, <4>2, <1>1 DEF IInv, TypeOK, Accept
      <4>5. QED
        BY <4>1, <4>3, <4>4 DEF IInv, Indexed, PolledAreIndexed
    <3>3. QED
      BY <3>1, <3>2
  <2>2. QED
    BY <2>1 DEF PolledAreIndexed
<1>7. GuestsSilent'
  BY <1>3 DEF IInv, TypeOK, GuestsSilent, Accept
<1>8. KeptByTimer'
  BY <1>3 DEF IInv, TypeOK, Indexed, KeptByTimer, Accept
<1>9. QED
  BY <1>2, <1>4, <1>5, <1>6, <1>7, <1>8 DEF IInv, Indexed

\* The members of the refused object are no client's, and its id is in refused.
LEMMA RefuseStep ==
    ASSUME IInv, NEW c \in Conns, Refuse(c)
    PROVE  IInv'
<1> USE GateAssumption
<1>1. nextGuest \in GuestIds /\ nextGuest' \in GuestIds
  BY NextIdType DEF IInv, TypeOK, Refuse
<1>2. TypeOK'
  BY <1>1 DEF IInv, TypeOK, Refuse
<1>3. c # NoConn /\ c \notin poller /\ c \notin heartbeat
  BY DEF Refuse, Freed
<1>4. \A d \in Conns \ {c} : /\ permission'[d] = permission[d] /\ guestId'[d] = guestId[d]
                            /\ userId'[d] = userId[d]
  BY DEF IInv, TypeOK, Refuse
<1>5. /\ permission'[c] = 0 /\ guestId'[c] = nextGuest /\ userId'[c] = NoUser
      /\ refused' = refused \cup {nextGuest} /\ heartbeat' = heartbeat \cup {c}
      /\ poller' = poller /\ guests' = guests /\ users' = users
      /\ announced' = announced \ {c} /\ poller \subseteq Conns \ {c}
      /\ heartbeat \subseteq Conns \ {c}
  BY <1>3 DEF IInv, TypeOK, Refuse
<1>6. GuestEntriesRight'
  BY <1>4, <1>5 DEF IInv, Indexed, GuestEntriesRight
<1>7. UserEntriesRight'
  BY <1>4, <1>5 DEF IInv, Indexed, UserEntriesRight
<1>8. PolledAreIndexed'
  BY <1>4, <1>5 DEF IInv, Indexed, PolledAreIndexed
<1>9. KeptByTimer'
  BY <1>4, <1>5 DEF IInv, Indexed, KeptByTimer
<1>10. GuestsSilent'
  BY <1>4, <1>5 DEF IInv, GuestsSilent
<1>11. QED
  BY <1>2, <1>6, <1>7, <1>8, <1>9, <1>10 DEF IInv, Indexed

LEMMA InitAcceptedStep ==
    ASSUME IInv, NEW v \in verifying, NEW p \in Granted, InitAccepted(v, p)
    PROVE  IInv'
<1> USE GateAssumption
<1> DEFINE c == guests[v.id]
           old == users[v.uid]
<1>1. /\ v \in Check /\ v.id \in GuestIds /\ v.uid \in Users
      /\ c \in Conns /\ c # NoConn /\ p # 0 /\ p \in {0} \cup Granted
  BY DEF IInv, TypeOK, InitAccepted, Check
<1>2. c \in poller /\ permission[c] = 0 /\ guestId[c] = v.id
  BY <1>1 DEF IInv, Indexed, GuestEntriesRight
<1>3. \A u \in Users : users[u] # c
  BY <1>1, <1>2 DEF IInv, Indexed, UserEntriesRight
<1>4. old # NoConn => old \in poller /\ permission[old] # 0 /\ userId[old] = v.uid /\ old \in Conns
  BY <1>1 DEF IInv, TypeOK, Indexed, UserEntriesRight
<1>5. /\ permission' = [permission EXCEPT ![c] = p]
      /\ userId' = [userId EXCEPT ![c] = v.uid]
      /\ guestId' = guestId
      /\ announced' = announced
  BY DEF InitAccepted
<1>6. /\ poller' = poller \ {old} /\ heartbeat' = heartbeat \ {old}
      /\ guests' = [guests EXCEPT ![v.id] = NoConn]
      /\ users' = [users EXCEPT ![v.uid] = c]
  <2>1. CASE old = NoConn
    <3>1. NoConn \notin poller /\ NoConn \notin heartbeat
      BY DEF IInv, TypeOK
    <3>2. QED
      BY <2>1, <3>1, <1>2 DEF InitAccepted
  <2>2. CASE old # NoConn
    <3>1. old # c
      BY <1>1, <1>3
    <3>2. GuestsWithout(old) = guests
      BY <1>4, <2>2 DEF GuestsWithout
    <3>3. UsersWithout(old) = [users EXCEPT ![v.uid] = NoConn]
      BY <1>4, <2>2 DEF UsersWithout
    <3>4. [UsersWithout(old) EXCEPT ![v.uid] = c] = [users EXCEPT ![v.uid] = c]
      BY <3>3, <1>1 DEF IInv, TypeOK
    <3>5. QED
      BY <2>2, <3>1, <3>2, <3>4, <1>2 DEF InitAccepted
  <2>3. QED
    BY <2>1, <2>2
<1>7. TypeOK'
  <2>1. toService' \in Seq(Message)
    <3>1. CASE toService' = toService
      BY <3>1 DEF IInv, TypeOK
    <3>2. CASE toService' # toService
      <4>1. old # NoConn /\ Tell(Offline(userId[old]))
        BY <3>2 DEF InitAccepted
      <4>2. Offline(userId[old]) \in Message
        BY <4>1, <1>4, <1>1 DEF Offline, Message
      <4>3. QED
        BY <4>1, <4>2, TellType DEF IInv, TypeOK
    <3>3. QED
      BY <3>1, <3>2
  <2>2. /\ poller' \subseteq Conns /\ heartbeat' \subseteq Conns
        /\ guests' \in [GuestIds -> Conns \cup {NoConn}]
        /\ users' \in [Users -> Conns \cup {NoConn}]
    BY <1>1, <1>6 DEF IInv, TypeOK
  <2>3. /\ permission' \in [Conns -> {0} \cup Granted]
        /\ guestId' \in [Conns -> GuestIds]
        /\ userId' \in [Conns -> Users \cup {NoUser}]
    BY <1>1, <1>5 DEF IInv, TypeOK
  <2>4. /\ nextGuest' \in GuestIds /\ verifying' \subseteq Check
        /\ announced' \subseteq Conns /\ timedOut' \subseteq Users
        /\ refused' \subseteq GuestIds
    BY DEF IInv, TypeOK, InitAccepted, idVars
  <2>5. QED
    BY <2>1, <2>2, <2>3, <2>4 DEF TypeOK
<1>8. GuestEntriesRight'
  BY <1>1, <1>2, <1>4, <1>5, <1>6 DEF IInv, TypeOK, Indexed, GuestEntriesRight
<1>9. UserEntriesRight'
  <2>1. ASSUME NEW u \in Users, users'[u] # NoConn
        PROVE  users'[u] \in poller' /\ permission'[users'[u]] # 0 /\ userId'[users'[u]] = u
    <3>1. CASE u = v.uid
      <4>1. users'[u] = c
        BY <3>1, <1>1, <1>6 DEF IInv, TypeOK
      <4>2. c # old
        BY <1>1, <1>3
      <4>3. QED
        BY <3>1, <4>1, <4>2, <1>1, <1>2, <1>5, <1>6 DEF IInv, TypeOK
    <3>2. CASE u # v.uid
      <4>1. users'[u] = users[u]
        BY <3>2, <1>6 DEF IInv, TypeOK
      <4>2. /\ users[u] \in poller /\ permission[users[u]] # 0 /\ userId[users[u]] = u
            /\ users[u] \in Conns
        BY <4>1, <2>1 DEF IInv, TypeOK, Indexed, UserEntriesRight
      <4>3. users[u] # c /\ users[u] # old
        BY <4>1, <4>2, <2>1, <3>2, <1>3, <1>4
      <4>4. QED
        BY <4>1, <4>2, <4>3, <1>5, <1>6 DEF IInv, TypeOK
    <3>3. QED
      BY <3>1, <3>2
  <2>2. QED
    BY <2>1 DEF UserEntriesRight
<1>10. PolledAreIndexed'
  <2>1. ASSUME NEW d \in poller'
        PROVE  /\ permission'[d] = 0 =>
                     userId'[d] = NoUser /\ (guests'[guestId'[d]] = d \/ guestId'[d] \in refused')
               /\ permission'[d] # 0 => userId'[d] \in Users /\ users'[userId'[d]] = d
    <3>1. d \in poller /\ d # old /\ d \in Conns
      BY <1>6 DEF IInv, TypeOK
    <3>2. CASE d = c
      BY <3>2, <1>1, <1>5, <1>6 DEF IInv, TypeOK
    <3>3. CASE d # c
      <4>1. permission'[d] = permission[d] /\ userId'[d] = userId[d] /\ guestId'[d] = guestId[d]
        BY <3>1, <3>3, <1>1, <1>5 DEF IInv, TypeOK
      <4>2. CASE permission[d] = 0
        <5>1. /\ userId[d] = NoUser /\ guestId[d] \in GuestIds
              /\ guests[guestId[d]] = d \/ guestId[d] \in refused
          BY <3>1, <4>2 DEF IInv, TypeOK, Indexed, PolledAreIndexed
        <5>2. guests[guestId[d]] = d => guests'[guestId[d]] = d
          BY <5>1, <3>3, <1>6 DEF IInv, TypeOK
        <5>3. refused' = refused
          BY DEF InitAccepted, idVars
        <5>4. QED
          BY <5>1, <5>2, <5>3, <4>1, <4>2
      <4>3. CASE permission[d] # 0
        <5>1. userId[d] \in Users /\ users[userId[d]] = d
          BY <3>1, <4>3 DEF IInv, Indexed, PolledAreIndexed
        <5>2. userId[d] # v.uid
          BY <5>1, <3>1
        <5>3. users'[userId[d]] = d
          BY <5>1, <5>2, <1>6 DEF IInv, TypeOK
        <5>4. QED
          BY <5>1, <5>3, <4>1, <4>3
      <4>4. QED
        BY <4>2, <4>3
    <3>4. QED
      BY <3>2, <3>3
  <2>2. QED
    BY <2>1 DEF PolledAreIndexed
<1>11. GuestsSilent'
  BY <1>1, <1>5, <1>6 DEF IInv, TypeOK, GuestsSilent
<1>12. KeptByTimer'
  <2>1. refused' = refused
    BY DEF InitAccepted, idVars
  <2>2. ASSUME NEW d \in heartbeat', d \notin poller'
        PROVE  permission'[d] = 0 /\ userId'[d] = NoUser /\ guestId'[d] \in refused'
    <3>1. d \in heartbeat /\ d \notin poller /\ d # c /\ d \in Conns
      BY <2>2, <1>2, <1>6 DEF IInv, TypeOK
    <3>2. QED
      BY <3>1, <2>1, <1>5 DEF IInv, TypeOK, Indexed, KeptByTimer
  <2>3. QED
    BY <2>2, <1>6 DEF IInv, Indexed, KeptByTimer
<1>13. QED
  BY <1>7, <1>8, <1>9, <1>10, <1>11, <1>12 DEF IInv, Indexed

LEMMA SetPermissionStep ==
    ASSUME IInv, NEW u \in Users, NEW p \in Granted, SetPermission(u, p)
    PROVE  IInv'
<1> USE GateAssumption
<1>1. /\ users[u] \in poller /\ users[u] \in Conns /\ permission[users[u]] # 0
      /\ p # 0 /\ p \in {0} \cup Granted
  BY DEF IInv, TypeOK, Indexed, UserEntriesRight, SetPermission
<1>2. TypeOK'
  BY <1>1 DEF IInv, TypeOK, SetPermission, mapVars, idVars
<1>3. \A d \in Conns : permission'[d] = 0 <=> permission[d] = 0
  BY <1>1 DEF IInv, TypeOK, SetPermission
<1>4. UNCHANGED <<poller, guests, users, heartbeat, refused, guestId, userId, announced>>
  BY DEF SetPermission, mapVars, idVars
<1>5. Indexed'
  BY <1>3, <1>4 DEF IInv, TypeOK, Indexed, GuestEntriesRight, UserEntriesRight,
                    PolledAreIndexed, KeptByTimer
<1>6. GuestsSilent'
  BY <1>3, <1>4 DEF IInv, TypeOK, GuestsSilent
<1>7. QED
  BY <1>2, <1>5, <1>6 DEF IInv

----------------------------------------------------------------------------
(* The invariant *)

LEMMA InitIInv == GateInit => IInv
<1> SUFFICES ASSUME GateInit PROVE IInv
  OBVIOUS
<1>1. 1 \in GuestIds
  BY GateAssumption DEF GuestIds
<1>2. toService \in Seq(Message)
  BY DEF GateInit
<1>4. TypeOK
  BY <1>1, <1>2 DEF GateInit, TypeOK
<1>5. Indexed /\ GuestsSilent
  BY DEF GateInit, Indexed, GuestEntriesRight, UserEntriesRight, PolledAreIndexed,
         KeptByTimer, GuestsSilent
<1>6. QED
  BY <1>4, <1>5 DEF IInv

LEMMA OfflineType ==
    ASSUME TypeOK, NEW c \in Conns
    PROVE  Offline(userId[c]) \in Message
BY DEF TypeOK, Offline, Message

LEMMA UserDisconnectStep ==
    ASSUME IInv, NEW c \in heartbeat, UserDisconnect(c),
           UNCHANGED <<connVars, idVars, verifying, announced, timedOut>>
    PROVE  IInv'
<1>1. c \in Conns
  BY DEF IInv, TypeOK
<1>2. toService' \in Seq(Message)
  BY <1>1, OfflineType, TellType DEF IInv, TypeOK, UserDisconnect
<1>3. QED
  BY <1>2, CleanStep DEF IInv, TypeOK, UserDisconnect, idVars

\* A connection in the poller or in a map has its heartbeat pending.
LEMMA EntriesBeat ==
    ASSUME IInv
    PROVE  /\ poller \subseteq heartbeat
           /\ \A g \in GuestIds : guests[g] # NoConn => guests[g] \in heartbeat
           /\ \A u \in Users : users[u] # NoConn => users[u] \in heartbeat
BY DEF IInv, Indexed, GuestEntriesRight, UserEntriesRight, KeptByTimer

LEMMA StepIInv == IInv /\ [Next]_gateVars => IInv'
<1> SUFFICES ASSUME IInv, [Next]_gateVars PROVE IInv'
  OBVIOUS
<1> USE GateAssumption
<1>1. ASSUME NEW c \in Conns, Accept(c) PROVE IInv'
  BY <1>1, AcceptStep
<1>2. ASSUME NEW c \in Conns, Refuse(c) PROVE IInv'
  BY <1>2, RefuseStep
<1>3. ASSUME NEW c \in Conns, NEW u \in Users, AskVerify(c, u) PROVE IInv'
  <2>1. HeadId(c) \in GuestIds \cup Users
    BY <1>3 DEF IInv, TypeOK, Indexed, PolledAreIndexed, AskVerify, HeadId
  <2>2. verifying' \subseteq Check
    BY <1>3, <2>1 DEF IInv, TypeOK, AskVerify, Check
  <2>3. QED
    BY <1>3, <2>2, MapsUntouched DEF IInv, TypeOK, AskVerify, idVars
<1>4. ASSUME NEW c \in Conns, SendLogin(c) PROVE IInv'
  <2>1. c \in poller /\ permission[c] # 0 /\ HeadId(c) \in Users
    BY <1>4 DEF IInv, TypeOK, Indexed, PolledAreIndexed, SendLogin, HeadId
  <2>2. [type |-> "login", uid |-> HeadId(c)] \in Message
    BY <2>1 DEF Message
  <2>3. toService' \in Seq(Message)
    BY <1>4, <2>2, TellType DEF IInv, TypeOK, SendLogin
  <2>4. QED
    BY <1>4, <2>1, <2>3, MapsUntouched DEF IInv, TypeOK, SendLogin, idVars
<1>5. ASSUME NEW c \in Conns, ConnectionLost(c) PROVE IInv'
  BY <1>5, UserDisconnectStep, EntriesBeat DEF ConnectionLost
<1>6. ASSUME NEW c \in Conns, HeartbeatExpired(c) PROVE IInv'
  BY <1>6, CleanStep DEF IInv, TypeOK, HeartbeatExpired, idVars, DisconnectSilently
<1>7. ASSUME NEW v \in verifying, InitRejected(v) PROVE IInv'
  <2>1. guests[v.id] \in heartbeat
    BY <1>7, EntriesBeat DEF InitRejected
  <2>2. QED
    BY <1>7, <2>1, CleanStep DEF IInv, TypeOK, InitRejected, idVars
<1>8. ASSUME NEW v \in verifying, InitIgnored(v) PROVE IInv'
  BY <1>8, MapsUntouched DEF IInv, TypeOK, InitIgnored, idVars
<1>9. ASSUME NEW v \in verifying, NEW p \in Granted, InitAccepted(v, p) PROVE IInv'
  BY <1>9, InitAcceptedStep
<1>10. ASSUME NEW u \in Users, Kick(u) PROVE IInv'
  <2>1. users[u] \in heartbeat
    BY <1>10, EntriesBeat DEF Kick
  <2>2. Offline(u) \in Message
    BY DEF Offline, Message
  <2>3. toService' \in Seq(Message)
    BY <1>10, <2>2, TellType DEF IInv, TypeOK, Kick
  <2>4. QED
    BY <1>10, <2>1, <2>3, CleanStep DEF IInv, TypeOK, Kick, idVars
<1>11. ASSUME NEW u \in Users, NEW p \in Granted, SetPermission(u, p) PROVE IInv'
  BY <1>11, SetPermissionStep
<1>12. ASSUME NEW u \in Users, TransmitFails(u) PROVE IInv'
  <2>1. users[u] \in heartbeat
    BY <1>12, EntriesBeat DEF TransmitFails
  <2>2. QED
    BY <1>12, <2>1, UserDisconnectStep DEF TransmitFails
<1>13. CASE ServiceTakes
  BY <1>13, MapsUntouched DEF IInv, TypeOK, ServiceTakes, idVars
<1>14. CASE UNCHANGED gateVars
  BY <1>14, MapsUntouched DEF IInv, TypeOK, gateVars, mapVars, connVars
<1>15. QED
  BY <1>1, <1>2, <1>3, <1>4, <1>5, <1>6, <1>7, <1>8, <1>9, <1>10, <1>11, <1>12,
     <1>13, <1>14
     DEF Next, GateStep, ClientStep, CheckStep, BackendStep

\* The types of the gate's variables: every id in a map, a message or a
\* pending check is of the kind its place calls for.
THEOREM TypeCorrect == Spec => []TypeOK
<1>1. IInv => TypeOK
  BY DEF IInv
<1>2. QED
  BY <1>1, InitIInv, StepIInv, PTL DEF Spec

\* CNetWorkManager's two maps and the poller agree in every reachable state,
\* for any number of connections and accounts: a connection in no map is a
\* guest whose id another was refused for after the counter had wrapped.
THEOREM GateIndexed == Spec => []Indexed
<1>1. IInv => Indexed
  BY DEF IInv
<1>2. QED
  BY <1>1, InitIInv, StepIInv, PTL DEF Spec

----------------------------------------------------------------------------
(* Takeover and queue order *)

\* The action of TakeoverClosesOld for one account.
TakeoverStep(u) ==
    users[u] # NoConn /\ users'[u] \notin {NoConn, users[u]} => users[u] \notin poller'

\* A step that only takes entries out of the user map is no takeover.
LEMMA NoNewUser ==
    ASSUME NEW u \in Users, users'[u] \in {NoConn, users[u]}
    PROVE  TakeoverStep(u)
BY DEF TakeoverStep

\* CSummonerEvent::onUserEvent, EventLogin: when an account moves to another
\* connection, the connection that held it is closed in the same step.
THEOREM TakeoverSafe == Spec => TakeoverClosesOld
<1>1. ASSUME IInv, [Next]_gateVars, NEW u \in Users PROVE TakeoverStep(u)
  <2> USE GateAssumption
  <2>1. ASSUME NEW c \in heartbeat, Clean(c) PROVE TakeoverStep(u)
    <3>1. users'[u] = IF users[u] = c THEN NoConn ELSE users[u]
      BY <1>1, <2>1, CleanRemoves DEF IInv, Clean
    <3>2. QED
      BY <3>1, NoNewUser
  <2>2. ASSUME users' = users PROVE TakeoverStep(u)
    BY <2>2, NoNewUser
  <2>3. ASSUME NEW v \in verifying, NEW p \in Granted, InitAccepted(v, p)
        PROVE  TakeoverStep(u)
    <3> DEFINE c == guests[v.id]
               old == users[v.uid]
    <3>1. v.uid \in Users /\ c \in Conns /\ c # NoConn
      BY <1>1, <2>3 DEF IInv, TypeOK, InitAccepted, Check
    <3>2. \A w \in Users : users[w] # c
      BY <1>1, <2>3, <3>1 DEF IInv, Indexed, GuestEntriesRight, UserEntriesRight, InitAccepted
    <3>3. CASE old = NoConn
      <4>1. users' = [users EXCEPT ![v.uid] = c]
        BY <2>3, <3>3 DEF InitAccepted
      <4>2. QED
        BY <1>1, <3>1, <3>3, <4>1 DEF IInv, TypeOK, TakeoverStep
    <3>4. CASE old # NoConn
      <4>1. /\ old # c /\ permission[old] # 0 /\ userId[old] = v.uid
        BY <1>1, <3>1, <3>2, <3>4 DEF IInv, Indexed, UserEntriesRight
      <4>2. poller' = poller \ {old} /\ users' = [UsersWithout(old) EXCEPT ![v.uid] = c]
        BY <2>3, <3>4, <4>1 DEF InitAccepted
      <4>3. UsersWithout(old) = [users EXCEPT ![v.uid] = NoConn]
        BY <4>1 DEF UsersWithout
      <4>4. CASE u = v.uid
        BY <4>2, <4>4 DEF TakeoverStep
      <4>5. CASE u # v.uid
        <5>1. users'[u] = users[u]
          BY <1>1, <3>1, <4>2, <4>3, <4>5 DEF IInv, TypeOK
        <5>2. QED
          BY <5>1, NoNewUser
      <4>6. QED
        BY <4>4, <4>5
    <3>5. QED
      BY <3>3, <3>4
  <2>4. ASSUME ClientStep PROVE TakeoverStep(u)
    BY <1>1, <2>1, <2>2, <2>4, EntriesBeat DEF ClientStep, Accept, Refuse, AskVerify, SendLogin,
       ConnectionLost, HeartbeatExpired, UserDisconnect, DisconnectSilently, mapVars
  <2>5. ASSUME CheckStep PROVE TakeoverStep(u)
    <3>1. ASSUME NEW v \in verifying, InitRejected(v) PROVE TakeoverStep(u)
      <4>1. guests[v.id] \in heartbeat
        BY <1>1, <3>1, EntriesBeat DEF InitRejected
      <4>2. QED
        BY <2>1, <3>1, <4>1 DEF InitRejected
    <3>2. ASSUME NEW v \in verifying, InitIgnored(v) PROVE TakeoverStep(u)
      BY <2>2, <3>2 DEF InitIgnored, mapVars
    <3>3. QED
      BY <2>3, <2>5, <3>1, <3>2 DEF CheckStep
  <2>6. ASSUME BackendStep PROVE TakeoverStep(u)
    <3>1. ASSUME NEW w \in Users, users[w] # NoConn PROVE users[w] \in heartbeat
      BY <1>1, <3>1, EntriesBeat
    <3>2. QED
      BY <2>1, <2>2, <2>6, <3>1 DEF BackendStep, Kick, SetPermission, TransmitFails,
         UserDisconnect, mapVars
  <2>7. ASSUME ServiceTakes \/ UNCHANGED gateVars
        PROVE  TakeoverStep(u)
    BY <2>2, <2>7 DEF ServiceTakes, gateVars, mapVars
  <2>8. QED
    BY <1>1, <2>4, <2>5, <2>6, <2>7 DEF Next, GateStep
<1>2. IInv /\ [Next]_gateVars => [\A u \in Users : users[u] # NoConn
           /\ users'[u] \notin {NoConn, users[u]} => users[u] \notin poller']_gateVars
  BY <1>1 DEF TakeoverStep
<1>3. QED
  BY <1>2, InitIInv, StepIInv, PTL DEF Spec, TakeoverClosesOld

\* The action of LeaversReported for one account.
LeaverStep(u) ==
    users[u] # NoConn /\ users'[u] = NoConn => Reported(u) \/ u \in timedOut'

\* A step that ends no account's connection owes no report.
LEMMA NoLeaver ==
    ASSUME NEW u \in Users, users'[u] = users[u] \/ users'[u] # NoConn
    PROVE  LeaverStep(u)
BY DEF LeaverStep

\* userDisconnect reports the account whose entry it removes: the entry is
\* the connection's own, so its m_UserId names the account that left.
LEMMA DisconnectReports ==
    ASSUME IInv, NEW c \in heartbeat, Clean(c), NEW w \in Users \cup {NoUser},
           Tell(Offline(w)), NEW u \in Users,
           permission[c] # 0 => w = userId[c]
    PROVE  LeaverStep(u)
<1> USE GateAssumption
<1>1. /\ Len(toService') = Len(toService) + 1 /\ Len(toService) \in Nat
      /\ toService'[Len(toService')] = Offline(w)
  BY DEF Tell, IInv, TypeOK
<1>2. users'[u] = IF users[u] = c THEN NoConn ELSE users[u]
  BY CleanRemoves DEF IInv, Clean
<1>3. CASE users[u] = c
  <2>1. w = u
    BY <1>3 DEF IInv, Indexed, UserEntriesRight, TypeOK
  <2>2. QED
    BY <1>1, <2>1 DEF LeaverStep, Reported
<1>4. CASE users[u] # c
  BY <1>2, <1>4, NoLeaver
<1>5. QED
  BY <1>3, <1>4

\* CSessionModule::userDisconnect: an account that is left without a
\* connection is reported in the same step, last in the queue, unless the
\* heartbeat ended it: displacing, rejecting and verifying orphan no account.
THEOREM LeaversHeard == Spec => LeaversReported
<1>1. ASSUME IInv, [Next]_gateVars, NEW u \in Users PROVE LeaverStep(u)
  <2> USE GateAssumption
  <2>1. ASSUME users' = users PROVE LeaverStep(u)
    BY <2>1, NoLeaver
  <2>2. ASSUME NEW c \in heartbeat, UserDisconnect(c) PROVE LeaverStep(u)
    <3>1. userId[c] \in Users \cup {NoUser}
      BY <1>1 DEF IInv, TypeOK
    <3>2. QED
      BY <1>1, <2>2, <3>1, DisconnectReports DEF UserDisconnect
  <2>3. ASSUME NEW w \in Users, users[w] # NoConn
        PROVE  users[w] \in heartbeat /\ userId[users[w]] = w
    BY <1>1, <2>3, EntriesBeat DEF IInv, Indexed, UserEntriesRight
  <2>4. ASSUME ClientStep PROVE LeaverStep(u)
    <3>1. ASSUME NEW c \in Conns, HeartbeatExpired(c) PROVE LeaverStep(u)
      <4>1. c \in heartbeat /\ timedOut' = timedOut \cup ({userId[c]} \cap Users)
        BY <3>1 DEF HeartbeatExpired
      <4>2. users'[u] = IF users[u] = c THEN NoConn ELSE users[u]
        BY <1>1, <3>1, <4>1, CleanRemoves DEF IInv, Clean, HeartbeatExpired, DisconnectSilently
      <4>3. QED
        BY <2>3, <4>1, <4>2 DEF LeaverStep
    <3>2. QED
      BY <1>1, <2>1, <2>2, <2>4, <3>1, EntriesBeat DEF ClientStep, Accept, Refuse, AskVerify, SendLogin,
         ConnectionLost, mapVars
  <2>5. ASSUME CheckStep PROVE LeaverStep(u)
    <3>1. ASSUME NEW v \in verifying, InitRejected(v) PROVE LeaverStep(u)
      <4>1. permission[guests[v.id]] = 0
        BY <1>1, <3>1 DEF IInv, Indexed, GuestEntriesRight, InitRejected
      <4>2. users' = users
        BY <3>1, <4>1 DEF InitRejected, Clean, UsersWithout
      <4>3. QED
        BY <2>1, <4>2
    <3>2. ASSUME NEW v \in verifying, InitIgnored(v) PROVE LeaverStep(u)
      BY <2>1, <3>2 DEF InitIgnored, mapVars
    <3>3. ASSUME NEW v \in verifying, NEW p \in Granted, InitAccepted(v, p)
          PROVE  LeaverStep(u)
      <4> DEFINE c == guests[v.id]
                 old == users[v.uid]
      <4>1. v.uid \in Users /\ c \in Conns /\ c # NoConn
        BY <1>1, <3>3 DEF IInv, TypeOK, InitAccepted, Check
      <4>2. \A w \in Users : users[w] # c
        BY <1>1, <3>3, <4>1 DEF IInv, Indexed, GuestEntriesRight, UserEntriesRight, InitAccepted
      <4>3. CASE old = NoConn
        <5>1. users' = [users EXCEPT ![v.uid] = c]
          BY <3>3, <4>3 DEF InitAccepted
        <5>2. users'[u] = users[u] \/ users'[u] = c
          BY <1>1, <4>1, <5>1 DEF IInv, TypeOK
        <5>3. QED
          BY <4>1, <5>2, NoLeaver
      <4>4. CASE old # NoConn
        <5>1. /\ old # c /\ permission[old] # 0 /\ userId[old] = v.uid
          BY <1>1, <4>1, <4>2, <4>4 DEF IInv, Indexed, UserEntriesRight
        <5>2. users' = [UsersWithout(old) EXCEPT ![v.uid] = c]
          BY <3>3, <4>4, <5>1 DEF InitAccepted
        <5>3. UsersWithout(old) = [users EXCEPT ![v.uid] = NoConn]
          BY <5>1 DEF UsersWithout
        <5>4. users'[u] = users[u] \/ users'[u] = c
          BY <1>1, <4>1, <5>2, <5>3 DEF IInv, TypeOK
        <5>5. QED
          BY <4>1, <5>4, NoLeaver
      <4>5. QED
        BY <4>3, <4>4
    <3>4. QED
      BY <2>5, <3>1, <3>2, <3>3 DEF CheckStep
  <2>6. ASSUME BackendStep PROVE LeaverStep(u)
    <3>1. ASSUME NEW w \in Users, Kick(w) PROVE LeaverStep(u)
      <4>1. users[w] \in heartbeat /\ userId[users[w]] = w
        BY <2>3, <3>1 DEF Kick
      <4>2. QED
        BY <1>1, <3>1, <4>1, DisconnectReports DEF Kick
    <3>2. ASSUME NEW w \in Users, TransmitFails(w) PROVE LeaverStep(u)
      BY <2>2, <2>3, <3>2 DEF TransmitFails
    <3>3. QED
      BY <2>1, <2>6, <3>1, <3>2 DEF BackendStep, SetPermission, mapVars
  <2>7. ASSUME ServiceTakes \/ UNCHANGED gateVars PROVE LeaverStep(u)
    BY <2>1, <2>7 DEF ServiceTakes, gateVars, mapVars
  <2>8. QED
    BY <1>1, <2>4, <2>5, <2>6, <2>7 DEF Next, GateStep
<1>2. IInv /\ [Next]_gateVars => [\A u \in Users : users[u] # NoConn /\ users'[u] = NoConn
           => Reported(u) \/ u \in timedOut']_gateVars
  BY <1>1 DEF LeaverStep
<1>3. QED
  BY <1>2, InitIInv, StepIInv, PTL DEF Spec, LeaversReported

Login(u) == [type |-> "login", uid |-> u]

\* What one queue operation does to LeftBehind.
LEMMA AppendOther ==
    ASSUME toService \in Seq(Message), NEW m \in Message, NEW u \in Users,
           m # Offline(u), Tell(m), LeftBehind(u)'
    PROVE  LeftBehind(u) /\ m # Login(u)
<1>1. /\ Len(toService') = Len(toService) + 1 /\ Len(toService) \in Nat
      /\ \A i \in 1..Len(toService) : toService'[i] = toService[i]
      /\ toService'[Len(toService) + 1] = m
  BY DEF Tell
<1>2. PICK i \in 1..Len(toService') :
         /\ toService'[i] = Offline(u)
         /\ \A j \in i+1..Len(toService') : toService'[j] # Login(u)
  BY DEF LeftBehind, Login, Offline
<1>3. i \in 1..Len(toService)
  BY <1>1, <1>2
<1>4. m # Login(u)
  BY <1>1, <1>2, <1>3
<1>5. toService[i] = Offline(u) /\ \A j \in i+1..Len(toService) : toService[j] # Login(u)
  BY <1>1, <1>2, <1>3
<1>6. QED
  BY <1>3, <1>4, <1>5 DEF LeftBehind, Login, Offline

LEMMA TakeOldest ==
    ASSUME toService \in Seq(Message), NEW u \in Users, toService # <<>>,
           toService' = Tail(toService), LeftBehind(u)'
    PROVE  LeftBehind(u)
<1>1. /\ Len(toService') = Len(toService) - 1 /\ Len(toService) \in Nat
      /\ \A i \in 1..Len(toService') : toService'[i] = toService[i + 1]
  OBVIOUS
<1>2. PICK i \in 1..Len(toService') :
         /\ toService'[i] = Offline(u)
         /\ \A j \in i+1..Len(toService') : toService'[j] # Login(u)
  BY DEF LeftBehind, Login, Offline
<1>3. i + 1 \in 1..Len(toService) /\ toService[i + 1] = Offline(u)
  BY <1>1, <1>2
<1>4. ASSUME NEW j \in (i+1)+1..Len(toService) PROVE toService[j] # Login(u)
  <2>1. j - 1 \in i+1..Len(toService') /\ toService'[j - 1] = toService[j]
    BY <1>1, <1>2
  <2>2. QED
    BY <1>2, <2>1
<1>5. QED
  BY <1>3, <1>4 DEF LeftBehind, Login, Offline

\* A step that gives u no new holder and sends at most one message, which is
\* not OffLine of an account somebody still holds, keeps the order.
LEMMA OrderKept ==
    ASSUME IInv, LoginNotOvertaken, NEW u \in Users,
           users'[u] # NoConn, users'[u] = users[u],
           announced' = announced,
           \/ toService' = toService
           \/ toService # <<>> /\ toService' = Tail(toService)
           \/ \E m \in Message : m # Offline(u) /\ Tell(m)
    PROVE  users'[u] \in announced' => ~LeftBehind(u)'
<1> SUFFICES ASSUME users[u] \in announced, LeftBehind(u)' PROVE FALSE
  OBVIOUS
<1>1. ~LeftBehind(u) /\ toService \in Seq(Message)
  BY DEF LoginNotOvertaken, IInv, TypeOK
<1>2. CASE toService' = toService
  BY <1>1, <1>2 DEF LeftBehind
<1>3. CASE toService # <<>> /\ toService' = Tail(toService)
  BY <1>1, <1>3, TakeOldest
<1>4. CASE \E m \in Message : m # Offline(u) /\ Tell(m)
  BY <1>1, <1>4, AppendOther
<1>5. QED
  BY <1>2, <1>3, <1>4

\* Cleaning c and reporting c's own account keeps the order: nobody holds that
\* account afterwards.
LEMMA OrderAfterClean ==
    ASSUME IInv, LoginNotOvertaken, NEW c \in heartbeat, Clean(c), announced' = announced,
           toService' = toService \/ Tell(Offline(userId[c]))
    PROVE  LoginNotOvertaken'
<1> USE GateAssumption
<1>1. ASSUME NEW u \in Users, users'[u] # NoConn
      PROVE  users'[u] \in announced' => ~LeftBehind(u)'
  <2>1. users'[u] = users[u] /\ users[u] # c
    BY <1>1, CleanRemoves DEF IInv, Clean
  <2>2. userId[c] # u
    BY <2>1 DEF IInv, TypeOK, Indexed, PolledAreIndexed, KeptByTimer
  <2>3. Offline(userId[c]) \in Message /\ Offline(userId[c]) # Offline(u)
    BY <2>2, OfflineType DEF IInv, TypeOK, Offline
  <2>4. QED
    BY <1>1, <2>1, <2>3, OrderKept
<1>2. QED
  BY <1>1 DEF LoginNotOvertaken

\* While a connection that logged in holds an account, no OffLine of that
\* account waits behind its login in the queue to the backends.
THEOREM LoginOrder == Spec => []LoginNotOvertaken
<1>1. GateInit => LoginNotOvertaken
  BY DEF GateInit, LoginNotOvertaken
<1>2. IInv /\ LoginNotOvertaken /\ [Next]_gateVars => LoginNotOvertaken'
  <2> SUFFICES ASSUME IInv, LoginNotOvertaken, [Next]_gateVars PROVE LoginNotOvertaken'
    OBVIOUS
  <2> USE GateAssumption
  <2>1. ASSUME users' = users, announced' = announced,
               toService' = toService \/ (toService # <<>> /\ toService' = Tail(toService))
        PROVE  LoginNotOvertaken'
    BY <2>1, OrderKept DEF LoginNotOvertaken
  <2>2. ASSUME NEW c \in Conns, Accept(c) PROVE LoginNotOvertaken'
    BY <2>2 DEF LoginNotOvertaken, LeftBehind, Accept, Freed
  <2>3. ASSUME NEW c \in Conns, Refuse(c) PROVE LoginNotOvertaken'
    BY <2>3 DEF LoginNotOvertaken, LeftBehind, Refuse, Freed
  <2>4. ASSUME NEW c \in Conns, SendLogin(c) PROVE LoginNotOvertaken'
    <3>1. HeadId(c) = userId[c] /\ userId[c] \in Users /\ users[userId[c]] = c /\ c # NoConn
      BY <2>4 DEF IInv, TypeOK, Indexed, PolledAreIndexed, SendLogin, HeadId
    <3>2. ASSUME NEW u \in Users, users'[u] # NoConn, LeftBehind(u)'
          PROVE  users'[u] \notin announced'
      <4>1. users' = users /\ announced' = announced \cup {c} /\ Tell(Login(userId[c]))
        BY <2>4, <3>1 DEF SendLogin, mapVars, Login
      <4>2. Login(userId[c]) \in Message /\ Login(userId[c]) # Offline(u)
        BY <3>1 DEF Login, Offline, Message
      <4>3. LeftBehind(u) /\ Login(userId[c]) # Login(u)
        BY <3>2, <4>1, <4>2, AppendOther DEF IInv, TypeOK
      <4>4. users[u] # c
        BY <3>2, <4>1, <4>3 DEF IInv, Indexed, UserEntriesRight
      <4>5. QED
        BY <3>2, <4>1, <4>3, <4>4 DEF LoginNotOvertaken
    <3>3. QED
      BY <3>2 DEF LoginNotOvertaken
  <2>5. ASSUME NEW v \in verifying, NEW p \in Granted, InitAccepted(v, p)
        PROVE  LoginNotOvertaken'
    <3> DEFINE c == guests[v.id]
               old == users[v.uid]
    <3>1. /\ v.uid \in Users /\ c \in poller /\ c # NoConn
          /\ permission[c] = 0 /\ c \notin announced /\ announced' = announced
      BY <2>5 DEF IInv, TypeOK, Indexed, GuestEntriesRight, GuestsSilent, InitAccepted, Check
    <3>2. ASSUME NEW u \in Users, users'[u] # NoConn
          PROVE  users'[u] \in announced' => ~LeftBehind(u)'
      <4>1. old # NoConn => permission[old] # 0 /\ userId[old] = v.uid
        BY <3>1 DEF IInv, Indexed, UserEntriesRight
      <4>2. CASE u = v.uid
        <5>1. users'[u] = c
          BY <2>5, <3>1, <4>1, <4>2 DEF IInv, TypeOK, InitAccepted, UsersWithout
        <5>2. QED
          BY <3>1, <5>1
      <4>3. CASE u # v.uid
        <5>1. users'[u] = users[u]
          BY <2>5, <3>1, <4>1, <4>3 DEF IInv, TypeOK, InitAccepted, UsersWithout
        <5>2. toService' = toService \/ Tell(Offline(v.uid))
          BY <2>5, <4>1 DEF InitAccepted
        <5>3. Offline(v.uid) \in Message /\ Offline(v.uid) # Offline(u)
          BY <3>1, <4>3 DEF Offline, Message
        <5>4. QED
          BY <3>1, <3>2, <5>1, <5>2, <5>3, OrderKept
      <4>4. QED
        BY <4>2, <4>3
    <3>3. QED
      BY <3>2 DEF LoginNotOvertaken
  <2>6. ASSUME NEW w \in Users, users[w] # NoConn
        PROVE  users[w] \in heartbeat /\ userId[users[w]] = w
    BY <2>6, EntriesBeat DEF IInv, Indexed, UserEntriesRight
  <2>7. ASSUME ClientStep PROVE LoginNotOvertaken'
    <3>1. ASSUME NEW d \in Conns, ConnectionLost(d) \/ HeartbeatExpired(d)
          PROVE  LoginNotOvertaken'
      BY <3>1, OrderAfterClean, EntriesBeat DEF ConnectionLost, HeartbeatExpired, UserDisconnect,
         DisconnectSilently
    <3>2. ASSUME NEW d \in Conns, NEW u \in Users, AskVerify(d, u)
          PROVE  LoginNotOvertaken'
      BY <2>1, <3>2 DEF AskVerify, mapVars
    <3>3. QED
      BY <2>2, <2>3, <2>4, <2>7, <3>1, <3>2 DEF ClientStep
  <2>8. ASSUME CheckStep PROVE LoginNotOvertaken'
    <3>1. ASSUME NEW v \in verifying, InitRejected(v) PROVE LoginNotOvertaken'
      <4>1. guests[v.id] \in heartbeat
        BY <3>1, EntriesBeat DEF InitRejected
      <4>2. QED
        BY <3>1, <4>1, OrderAfterClean DEF InitRejected
    <3>2. ASSUME NEW v \in verifying, InitIgnored(v) PROVE LoginNotOvertaken'
      BY <2>1, <3>2 DEF InitIgnored, mapVars
    <3>3. QED
      BY <2>5, <2>8, <3>1, <3>2 DEF CheckStep
  <2>9. ASSUME BackendStep PROVE LoginNotOvertaken'
    <3>1. ASSUME NEW w \in Users, Kick(w) \/ TransmitFails(w) PROVE LoginNotOvertaken'
      BY <2>6, <3>1, OrderAfterClean DEF Kick, TransmitFails, UserDisconnect
    <3>2. ASSUME NEW w \in Users, NEW p \in Granted, SetPermission(w, p)
          PROVE  LoginNotOvertaken'
      BY <2>1, <3>2 DEF SetPermission, mapVars
    <3>3. QED
      BY <2>9, <3>1, <3>2 DEF BackendStep
  <2>10. ASSUME ServiceTakes \/ UNCHANGED gateVars
        PROVE  LoginNotOvertaken'
    BY <2>1, <2>10 DEF ServiceTakes, gateVars, mapVars
  <2>11. QED
    BY <2>7, <2>8, <2>9, <2>10 DEF Next, GateStep
<1>3. QED
  BY <1>1, <1>2, InitIInv, StepIInv, PTL DEF Spec

----------------------------------------------------------------------------
(* The removal list of the service *)

\* The entries of the removal list, which has one of the delay for an account
\* that has just gone.
Entry == [uid : Users, left : 0..Delay, mapped : BOOLEAN]

InOrder(list) ==
    \A i, j \in DOMAIN list : i <= j => list[i].left <= list[j].left

Latest(list) ==
    \A i, j \in DOMAIN list :
        list[i].mapped /\ list[i].uid = list[j].uid => j <= i

Listed(list) == list \in Seq(Entry) /\ InOrder(list) /\ Latest(list)

LEMMA EntryFacts ==
    ASSUME NEW list \in Seq(Entry)
    PROVE  /\ Len(list) \in Nat /\ DOMAIN list = 1..Len(list)
           /\ \A i \in 1..Len(list) :
                 /\ list[i] \in Entry /\ list[i].uid \in Users /\ list[i].mapped \in BOOLEAN
                 /\ list[i].left \in Int /\ 0 <= list[i].left /\ list[i].left <= Delay
<1>1. Len(list) \in Nat /\ DOMAIN list = 1..Len(list)
      /\ \A i \in 1..Len(list) : list[i] \in Entry
  BY ElementOfSeq, LenProperties
<1>2. \A e \in Entry : /\ e.uid \in Users /\ e.mapped \in BOOLEAN
                       /\ e.left \in Int /\ 0 <= e.left /\ e.left <= Delay
  BY FlowAssumption DEF Entry
<1>3. QED
  BY <1>1, <1>2

\* A list made of entries of an old one, in the same order, each refered to
\* by the map only if it was before.
LEMMA PartListed ==
    ASSUME NEW list, Listed(list),
           NEW new \in Seq(Entry),
           NEW e \in [DOMAIN new -> DOMAIN list],
           \A i, j \in DOMAIN new : i <= j => e[i] <= e[j],
           \A i, j \in DOMAIN new : e[j] <= e[i] => j <= i,
           \A i, j \in DOMAIN new :
              list[e[i]].left <= list[e[j]].left => new[i].left <= new[j].left,
           \A i \in DOMAIN new :
              new[i].uid = list[e[i]].uid /\ (new[i].mapped => list[e[i]].mapped)
    PROVE  Listed(new)
<1>2. InOrder(new)
  <2>1. ASSUME NEW i \in DOMAIN new, NEW j \in DOMAIN new, i <= j
        PROVE  new[i].left <= new[j].left
    <3>1. e[i] \in DOMAIN list /\ e[j] \in DOMAIN list /\ e[i] <= e[j]
      BY <2>1
    <3>2. list[e[i]].left <= list[e[j]].left
      BY <3>1 DEF Listed, InOrder
    <3>3. QED
      BY <3>1, <3>2
  <2>2. QED
    BY <2>1 DEF InOrder
<1>3. Latest(new)
  <2>1. ASSUME NEW i \in DOMAIN new, NEW j \in DOMAIN new,
               new[i].mapped, new[i].uid = new[j].uid
        PROVE  j <= i
    <3>1. e[i] \in DOMAIN list /\ e[j] \in DOMAIN list
      OBVIOUS
    <3>2. list[e[i]].mapped /\ list[e[i]].uid = list[e[j]].uid
      BY <2>1
    <3>3. e[j] <= e[i]
      BY <3>1, <3>2 DEF Listed, Latest
    <3>4. QED
      BY <3>3
  <2>2. QED
    BY <2>1 DEF Latest
<1>4. QED
  BY <1>2, <1>3 DEF Listed

LEMMA UnmappedListed ==
    ASSUME NEW list, Listed(list), NEW U
    PROVE  /\ Listed(Cache!Unmapped(list, U))
           /\ Len(Cache!Unmapped(list, U)) = Len(list)
           /\ \A i \in 1..Len(list) :
                 /\ Cache!Unmapped(list, U)[i].uid = list[i].uid
                 /\ Cache!Unmapped(list, U)[i].mapped => list[i].uid \notin U
<1> DEFINE n == Len(list)
           new == [i \in DOMAIN list |-> [list[i] EXCEPT !.mapped = @ /\ list[i].uid \notin U]]
<1>1. list \in Seq(Entry) /\ n \in Nat /\ DOMAIN list = 1..n
  BY DEF Listed
<1>2. \A i \in 1..n :
         /\ new[i] \in Entry
         /\ new[i].uid = list[i].uid /\ new[i].left = list[i].left
         /\ new[i].mapped => list[i].mapped /\ list[i].uid \notin U
  <2>1. ASSUME NEW i \in 1..n
        PROVE  /\ new[i] \in Entry
               /\ new[i].uid = list[i].uid /\ new[i].left = list[i].left
               /\ new[i].mapped => list[i].mapped /\ list[i].uid \notin U
    <3>1. list[i] \in Entry /\ new[i] = [list[i] EXCEPT !.mapped = @ /\ list[i].uid \notin U]
      BY <1>1
    <3>2. PICK m \in BOOLEAN : m = (list[i].mapped /\ list[i].uid \notin U)
      OBVIOUS
    <3>3. new[i] = [list[i] EXCEPT !.mapped = m]
      BY <3>1, <3>2
    <3>4. QED
      BY <3>1, <3>2, <3>3, ZenonT(60) DEF Entry
  <2>2. QED
    BY <2>1
<1>3. new \in Seq(Entry) /\ Len(new) = n /\ DOMAIN new = 1..n
  <2>1. new = [i \in 1..n |-> new[i]]
    BY <1>1
  <2> HIDE DEF new
  <2>2. new \in [1..n -> Entry]
    BY <1>2, <2>1
  <2>3. QED
    BY <1>1, <2>2
<1>4. Listed(new)
  <2> DEFINE e == [i \in 1..n |-> i]
  <2>1. /\ e \in [DOMAIN new -> DOMAIN list]
        /\ \A i, j \in DOMAIN new : i <= j => e[i] <= e[j]
        /\ \A i, j \in DOMAIN new : e[j] <= e[i] => j <= i
    BY <1>1, <1>3
  <2>2. /\ \A i, j \in DOMAIN new :
              list[e[i]].left <= list[e[j]].left => new[i].left <= new[j].left
        /\ \A i \in DOMAIN new :
              new[i].uid = list[e[i]].uid /\ (new[i].mapped => list[e[i]].mapped)
    <3>1. \A i \in 1..n : list[i].left \in Int
      BY <1>1, EntryFacts
    <3> HIDE DEF new
    <3>2. QED
      BY <1>2, <1>3, <3>1
  <2> HIDE DEF e, new
  <2>3. QED
    BY <1>3, <2>1, <2>2, PartListed
<1>5. Cache!Unmapped(list, U) = new
  BY DEF Cache!Unmapped
<1> HIDE DEF new
<1>6. QED
  BY <1>2, <1>3, <1>4, <1>5

\* removeGameUser
LEMMA ScheduleListed ==
    ASSUME Listed(delList), NEW u \in Users, Cache!Schedule(u)
    PROVE  Listed(delList')
<1> DEFINE old == Cache!Unmapped(delList, {u})
           n == Len(delList)
<1>1. PICK new : new = Cache!NewEntry(u)
  OBVIOUS
<1>2. /\ new \in Entry /\ new.left = Delay /\ new.uid = u
  BY <1>1, FlowAssumption DEF Cache!NewEntry, Entry
<1>3. Listed(old) /\ Len(old) = n /\ \A i \in 1..n : old[i].mapped => old[i].uid # u
  BY UnmappedListed
<1> HIDE DEF old
<1>4. old \in Seq(Entry) /\ n \in Nat /\ DOMAIN old = 1..n
  BY <1>3 DEF Listed
<1>5. delList' = Append(old, new)
  BY <1>1 DEF Cache!Schedule, old
<1>6. /\ delList' \in Seq(Entry) /\ DOMAIN delList' = 1..(n + 1)
      /\ delList'[n + 1] = new
      /\ \A i \in 1..n : delList'[i] = old[i]
  BY <1>2, <1>4, <1>5, <1>3
<1>7. \A i \in 1..n : old[i].left <= Delay
  BY <1>4, EntryFacts
<1>8. InOrder(delList')
  <2>1. ASSUME NEW i \in 1..(n + 1), NEW j \in 1..(n + 1), i <= j
        PROVE  delList'[i].left <= delList'[j].left
    <3>1. CASE j = n + 1 /\ i # n + 1
      BY <1>2, <1>4, <1>6, <1>7, <3>1
    <3>2. CASE j = n + 1 /\ i = n + 1
      BY <1>2, <1>6, <3>2, FlowAssumption
    <3>3. CASE j # n + 1
      <4>1. i \in 1..n /\ j \in 1..n
        BY <1>4, <2>1, <3>3
      <4>2. QED
        BY <1>3, <1>4, <1>6, <2>1, <4>1 DEF Listed, InOrder
    <3>4. QED
      BY <3>1, <3>2, <3>3
  <2>2. QED
    BY <1>6, <2>1 DEF InOrder
<1>9. Latest(delList')
  <2>1. ASSUME NEW i \in 1..(n + 1), NEW j \in 1..(n + 1),
               delList'[i].mapped, delList'[i].uid = delList'[j].uid
        PROVE  j <= i
    <3>1. CASE i = n + 1
      BY <1>4, <3>1
    <3>2. CASE i # n + 1
      <4>1. i \in 1..n /\ delList'[i] = old[i]
        BY <1>4, <1>6, <3>2
      <4>2. delList'[i].uid # u
        BY <1>3, <2>1, <4>1
      <4>3. j \in 1..n /\ delList'[j] = old[j]
        BY <1>2, <1>4, <1>6, <2>1, <4>2
      <4>4. QED
        BY <1>3, <1>4, <2>1, <4>1, <4>3 DEF Listed, Latest
    <3>3. QED
      BY <3>1, <3>2
  <2>2. QED
    BY <1>6, <2>1 DEF Latest
<1>10. QED
  BY <1>6, <1>8, <1>9 DEF Listed

\* donotDeleteUser
LEMMA DontDeleteListed ==
    ASSUME Listed(delList), NEW u, Cache!DontDelete(u)
    PROVE  Listed(delList')
<1>1. CASE delList' = delList
  BY <1>1
<1>2. ASSUME NEW i \in DOMAIN delList, delList' = Cache!RemoveAt(delList, i)
      PROVE  Listed(delList')
  <2> DEFINE n == Len(delList)
             a == SubSeq(delList, 1, i - 1)
             b == SubSeq(delList, i + 1, n)
             e == [m \in 1..(n - 1) |-> IF m < i THEN m ELSE m + 1]
  <2>1. delList \in Seq(Entry) /\ n \in Nat /\ DOMAIN delList = 1..n /\ i \in 1..n
    BY <1>2 DEF Listed
  <2>2. /\ a \in Seq(Entry) /\ Len(a) = i - 1
        /\ \A m \in 1..(i - 1) : a[m] = delList[m]
    BY <2>1, SubSeqProperties
  <2>3. /\ b \in Seq(Entry) /\ Len(b) = n - i
        /\ \A m \in 1..(n - i) : b[m] = delList[i + m]
    BY <2>1, SubSeqProperties, SMTT(60)
  <2>4. delList' = a \o b
    BY <1>2 DEF Cache!RemoveAt
  <2> HIDE DEF a, b
  <2>5. /\ delList' \in Seq(Entry) /\ Len(delList') = Len(a) + Len(b)
        /\ \A m \in 1..(Len(a) + Len(b)) :
              delList'[m] = IF m <= Len(a) THEN a[m] ELSE b[m - Len(a)]
    BY <2>2, <2>3, <2>4, ConcatProperties
  <2>6. DOMAIN delList' = 1..(n - 1)
    BY <2>1, <2>2, <2>3, <2>5
  <2>7. ASSUME NEW m \in 1..(n - 1) PROVE delList'[m] = delList[e[m]]
    <3>1. m \in 1..(Len(a) + Len(b))
      BY <2>1, <2>2, <2>3
    <3>2. CASE m < i
      BY <2>1, <2>2, <2>5, <3>1, <3>2
    <3>3. CASE ~(m < i)
      <4>1. m - (i - 1) \in 1..(n - i) /\ ~(m <= i - 1)
        BY <2>1, <3>3
      <4>2. b[m - (i - 1)] = delList[i + (m - (i - 1))] /\ i + (m - (i - 1)) = m + 1
        BY <2>1, <2>3, <4>1
      <4>3. QED
        BY <2>2, <2>5, <3>1, <3>3, <4>1, <4>2
    <3>4. QED
      BY <3>2, <3>3
  <2>8. /\ e \in [DOMAIN delList' -> DOMAIN delList]
        /\ \A k, m \in DOMAIN delList' : k <= m => e[k] <= e[m]
        /\ \A k, m \in DOMAIN delList' : e[m] <= e[k] => m <= k
    BY <2>1, <2>6
  <2>9. /\ \A k, m \in DOMAIN delList' :
              delList[e[k]].left <= delList[e[m]].left => delList'[k].left <= delList'[m].left
        /\ \A k \in DOMAIN delList' :
              delList'[k].uid = delList[e[k]].uid /\ (delList'[k].mapped => delList[e[k]].mapped)
    <3>1. \A m \in 1..n : delList[m].left \in Int
      BY <2>1, EntryFacts
    <3>2. QED
      BY <2>1, <2>6, <2>7, <2>8, <3>1
  <2>10. PICK new \in Seq(Entry) : new = delList'
    BY <2>5
  <2> HIDE DEF e
  <2>11. /\ e \in [DOMAIN new -> DOMAIN delList]
         /\ \A k, m \in DOMAIN new : k <= m => e[k] <= e[m]
         /\ \A k, m \in DOMAIN new : e[m] <= e[k] => m <= k
         /\ \A k, m \in DOMAIN new :
               delList[e[k]].left <= delList[e[m]].left => new[k].left <= new[m].left
         /\ \A k \in DOMAIN new :
               new[k].uid = delList[e[k]].uid /\ (new[k].mapped => delList[e[k]].mapped)
    BY <2>8, <2>9, <2>10
  <2>12. Listed(new)
    BY <2>11, PartListed
  <2>13. QED
    BY <2>10, <2>12
<1>3. QED
  BY <1>1, <1>2 DEF Cache!DontDelete

\* onTimer: what it leaves has not been due before.
LEMMA ExpireListed ==
    ASSUME Listed(delList), Cache!Expire
    PROVE  Listed(delList')
<1> DEFINE N == Len(delList)
           aged == [i \in DOMAIN delList |-> [delList[i] EXCEPT !.left = @ - 1]]
<1>1. aged = Cache!Aged
  BY DEF Cache!Aged
<1>2. PICK n \in 0..N :
         /\ n < N => aged[n + 1].left >= 0
         /\ delList' = Cache!Unmapped(SubSeq(aged, n + 1, Len(aged)), {aged[i].uid : i \in 1..n})
  BY <1>1 DEF Cache!Expire
<1> DEFINE rest == SubSeq(aged, n + 1, N)
           e == [m \in 1..(N - n) |-> n + m]
<1>3. delList \in Seq(Entry) /\ N \in Nat /\ DOMAIN delList = 1..N
  BY DEF Listed
<1>4. \A i \in 1..N :
         /\ aged[i].uid = delList[i].uid /\ aged[i].mapped = delList[i].mapped
         /\ aged[i].left = delList[i].left - 1
         /\ aged[i].left >= 0 => aged[i] \in Entry
         /\ aged[i].left \in Int
  <2>1. ASSUME NEW i \in 1..N
        PROVE  /\ aged[i].uid = delList[i].uid /\ aged[i].mapped = delList[i].mapped
               /\ aged[i].left = delList[i].left - 1
               /\ aged[i].left >= 0 => aged[i] \in Entry
               /\ aged[i].left \in Int
    <3>1. delList[i] \in Entry /\ aged[i] = [delList[i] EXCEPT !.left = @ - 1]
      BY <1>3
    <3>2. delList[i].left \in 0..Delay /\ delList[i].uid \in Users /\ delList[i].mapped \in BOOLEAN
      BY <3>1 DEF Entry
    <3>3. aged[i] = [uid |-> delList[i].uid, left |-> delList[i].left - 1,
                     mapped |-> delList[i].mapped]
      BY <3>1 DEF Entry
    <3>4. aged[i].left >= 0 => aged[i].left \in 0..Delay
      BY <3>2, <3>3, FlowAssumption
    <3>5. QED
      BY <3>2, <3>3, <3>4, FlowAssumption DEF Entry
  <2>2. QED
    BY <2>1
<1>5. Len(aged) = N /\ DOMAIN aged = 1..N
  BY <1>3
<1> HIDE DEF aged
<1>6. \A i \in (n + 1)..N : aged[i] \in Entry
  <2>1. ASSUME NEW i \in (n + 1)..N PROVE aged[i] \in Entry
    <3>1. n + 1 \in 1..N /\ i \in 1..N /\ n + 1 <= i
      BY <1>3
    <3>2. delList[n + 1].left <= delList[i].left
      BY <1>3, <3>1 DEF Listed, InOrder
    <3>3. aged[n + 1].left >= 0
      BY <1>2, <1>3, <3>1
    <3>4. aged[n + 1].left \in Int /\ aged[i].left \in Int
          /\ aged[n + 1].left = delList[n + 1].left - 1 /\ aged[i].left = delList[i].left - 1
          /\ delList[n + 1].left \in Int /\ delList[i].left \in Int
      BY <1>3, <1>4, <3>1, EntryFacts
    <3>5. aged[i].left >= 0
      BY <3>2, <3>3, <3>4, SMTT(60)
    <3>6. QED
      BY <1>4, <3>1, <3>5
  <2>2. QED
    BY <2>1
<1>7. /\ rest \in Seq(Entry) /\ Len(rest) = N - n /\ DOMAIN rest = 1..(N - n)
      /\ \A m \in 1..(N - n) : rest[m] = aged[n + m]
  <2>1. n + 1 \in Int /\ N \in Int
    BY <1>3
  <2>2. /\ rest \in Seq(Entry) /\ Len(rest) = IF n + 1 <= N THEN N - (n + 1) + 1 ELSE 0
        /\ \A m \in 1..(N - (n + 1) + 1) : rest[m] = aged[(n + 1) + m - 1]
    BY <1>6, <2>1, SubSeqProperties
  <2>3. Len(rest) = N - n /\ N - (n + 1) + 1 = N - n
    <3>1. n \in Int /\ N \in Int /\ n <= N
      BY <1>3
    <3>2. PICK k : k = Len(rest)
      OBVIOUS
    <3>3. k = IF n + 1 <= N THEN N - (n + 1) + 1 ELSE 0
      BY <2>2, <3>2
    <3>4. k = N - n /\ N - (n + 1) + 1 = N - n
      BY <3>1, <3>3
    <3>5. QED
      BY <3>2, <3>4
  <2>4. ASSUME NEW m \in 1..(N - n) PROVE rest[m] = aged[n + m]
    <3>1. (n + 1) + m - 1 = n + m
      BY <1>3
    <3>2. QED
      BY <2>2, <2>3, <3>1
  <2> HIDE DEF rest
  <2>5. DOMAIN rest = 1..(N - n)
    BY <2>2, <2>3
  <2>6. QED
    BY <2>2, <2>3, <2>4, <2>5
<1>8. Listed(rest)
  <2>1. /\ e \in [DOMAIN rest -> DOMAIN delList]
        /\ \A k, m \in DOMAIN rest : k <= m => e[k] <= e[m]
        /\ \A k, m \in DOMAIN rest : e[m] <= e[k] => m <= k
    <3>1. DOMAIN rest = 1..(N - n) /\ n \in 0..N /\ N \in Nat /\ DOMAIN delList = 1..N
      BY <1>3, <1>7
    <3> HIDE DEF rest
    <3>2. \A m \in 1..(N - n) : n + m \in 1..N /\ e[m] = n + m
      BY <3>1
    <3>3. e \in [1..(N - n) -> 1..N]
      BY <3>2
    <3> HIDE DEF e
    <3>4. QED
      BY <3>1, <3>2, <3>3, SMTT(60)
  <2>2. /\ \A i, j \in DOMAIN rest :
              delList[e[i]].left <= delList[e[j]].left => rest[i].left <= rest[j].left
        /\ \A i \in DOMAIN rest :
              rest[i].uid = delList[e[i]].uid /\ (rest[i].mapped => delList[e[i]].mapped)
    <3>1. \A m \in 1..(N - n) : n + m \in 1..N /\ e[m] = n + m
      BY <1>3
    <3>2. \A i \in 1..N : delList[i].left \in Int
      BY <1>3, EntryFacts
    <3> HIDE DEF rest, e
    <3>3. ASSUME NEW m \in 1..(N - n)
          PROVE  /\ e[m] \in 1..N /\ rest[m] = aged[e[m]]
                 /\ rest[m].left = delList[e[m]].left - 1
      BY <1>4, <1>7, <3>1, <3>2, SMTT(60)
    <3>4. DOMAIN rest = 1..(N - n)
      BY <1>7
    <3>5. ASSUME NEW k \in 1..(N - n), NEW m \in 1..(N - n),
                 delList[e[k]].left <= delList[e[m]].left
          PROVE  rest[k].left <= rest[m].left
      <4>1. delList[e[k]].left \in Int /\ delList[e[m]].left \in Int
        BY <3>2, <3>3
      <4>2. QED
        BY <1>3, <3>3, <3>5, <4>1, SMTT(60)
    <3>6. ASSUME NEW m \in 1..(N - n)
          PROVE  rest[m].uid = delList[e[m]].uid /\ (rest[m].mapped => delList[e[m]].mapped)
      <4>1. e[m] \in 1..N /\ rest[m] = aged[e[m]]
        BY <3>3
      <4>2. /\ aged[e[m]].uid = delList[e[m]].uid
            /\ aged[e[m]].mapped = delList[e[m]].mapped
        BY <1>4, <4>1
      <4>3. QED
        BY <4>1, <4>2
    <3>7. QED
      BY <3>4, <3>5, <3>6
  <2> HIDE DEF rest, e
  <2>3. QED
    BY <1>7, <2>1, <2>2, PartListed
<1>9. delList' = Cache!Unmapped(rest, {aged[i].uid : i \in 1..n})
  BY <1>2, <1>5
<1>10. PICK r : r = rest
  OBVIOUS
<1>11. Listed(Cache!Unmapped(r, {aged[i].uid : i \in 1..n}))
  BY <1>8, <1>10, UnmappedListed
<1>12. QED
  BY <1>9, <1>10, <1>11

\* A step of the two processes does one of the three to the list, or nothing.
LEMMA FlowListed == Listed(delList) /\ [FlowNext]_flowVars => Listed(delList)'
<1> SUFFICES ASSUME Listed(delList), [FlowNext]_flowVars PROVE Listed(delList')
  BY DEF Listed, InOrder, Latest
<1>1. CASE UNCHANGED delList
  BY <1>1
<1>2. ASSUME NEW u, HandlesLogin(u) PROVE Listed(delList')
  <2>1. CASE Cache!Return(u)
    BY <2>1, DontDeleteListed DEF Cache!Return
  <2>2. CASE Cache!Create(u) \/ Cache!ReconnectUnknown(u)
    BY <1>1, <2>2 DEF Cache!Create, Cache!ReconnectUnknown, Cache!userVars
  <2>3. QED
    BY <1>2, <2>1, <2>2 DEF HandlesLogin
<1>3. ASSUME NEW u, HandlesOffLine(u) PROVE Listed(delList')
  <2>1. ASSUME u \in Users, Cache!OffLine(u) PROVE Listed(delList')
    BY <1>1, <2>1, ScheduleListed DEF Cache!OffLine
  <2>2. QED
    BY <1>1, <1>3, <2>1 DEF HandlesOffLine, serviceVars
<1>4. CASE ServiceHandles
  BY <1>2, <1>3, <1>4 DEF ServiceHandles
<1>5. CASE ServiceTimer
  BY <1>5, ExpireListed DEF ServiceTimer
<1>6. CASE \E u \in Users : ServiceServes(u)
  BY <1>1, <1>6 DEF ServiceServes, Cache!Load
<1>7. CASE GateStep /\ UNCHANGED <<serviceVars, present>>
  BY <1>1, <1>7 DEF serviceVars
<1>8. CASE UNCHANGED flowVars
  BY <1>1, <1>8 DEF flowVars, serviceVars
<1>9. QED
  BY <1>4, <1>5, <1>6, <1>7, <1>8 DEF FlowNext

LEMMA FirstListed == FlowInit => Listed(delList)
<1> SUFFICES ASSUME FlowInit PROVE Listed(delList)
  OBVIOUS
<1>1. delList = <<>>
  BY DEF FlowInit, Cache!UsersInit
<1>2. QED
  BY <1>1 DEF Listed, InOrder, Latest

LEMMA AlwaysListed == FlowSpec => []Listed(delList)
BY FirstListed, FlowListed, PTL DEF FlowSpec

\* removeGameUser, donotDeleteUser and onTimer keep the removal list in the
\* order its entries fall due, with none left that is due, so that stopping at
\* the first one that is not misses nobody.
THEOREM RemovalsOrdered == FlowSpec => []RemovalsInOrder
<1>1. Listed(delList) => RemovalsInOrder
  BY EntryFacts DEF Listed, InOrder, RemovalsInOrder, Cache!DueInOrder
<1>2. QED
  BY <1>1, AlwaysListed, PTL

\* m_MapDelUserList refers to an account's last entry, and to that one only.
THEOREM RemovalMapRight == FlowSpec => []RemovalMapLatest
<1>1. Listed(delList) => RemovalMapLatest
  BY DEF Listed, Latest, RemovalMapLatest, Cache!MapHasLatest
<1>2. QED
  BY <1>1, AlwaysListed, PTL
----------------------------------------------------------------------------
(* What the service will have heard *)

Agree(u) ==
    /\ users[u] # NoConn /\ users[u] \in announced => HeardLast(u)
    /\ users[u] = NoConn /\ u \notin timedOut => ~HeardLast(u)

LEMMA HeardAfterTell ==
    ASSUME toService \in Seq(Message), NEW m \in Message, NEW u \in Users,
           Tell(m), present' = present
    PROVE  /\ m = Login(u) => HeardLast(u)'
           /\ m = Offline(u) => ~HeardLast(u)'
           /\ m # Login(u) /\ m # Offline(u) => (HeardLast(u)' <=> HeardLast(u))
<1> DEFINE n == Len(toService)
<1>1. /\ n \in Nat /\ Len(toService') = n + 1
      /\ DOMAIN toService = 1..n /\ DOMAIN toService' = 1..(n + 1)
      /\ \A i \in 1..n : toService'[i] = toService[i]
      /\ toService'[n + 1] = m
  BY DEF Tell
<1>2. Login(u) # Offline(u)
  BY DEF Login, Offline
<1>3. HeardLast(u)' <=>
         \/ \E i \in 1..(n + 1) : /\ toService'[i] = Login(u)
                                 /\ \A j \in i+1..(n + 1) : toService'[j] # Offline(u)
         \/ u \in present /\ \A i \in 1..(n + 1) : toService'[i] # Offline(u)
  BY <1>1 DEF HeardLast, Login, Offline
<1>4. HeardLast(u) <=>
         \/ \E i \in 1..n : /\ toService[i] = Login(u)
                           /\ \A j \in i+1..n : toService[j] # Offline(u)
         \/ u \in present /\ \A i \in 1..n : toService[i] # Offline(u)
  BY <1>1 DEF HeardLast, Login, Offline
<1>5. ASSUME m = Login(u) PROVE HeardLast(u)'
  BY <1>1, <1>3, <1>5
<1>6. ASSUME m = Offline(u) PROVE ~HeardLast(u)'
  BY <1>1, <1>2, <1>3, <1>6
<1>7. ASSUME m # Login(u), m # Offline(u), HeardLast(u) PROVE HeardLast(u)'
  <2>1. ASSUME NEW i \in 1..n, toService[i] = Login(u),
               \A j \in i+1..n : toService[j] # Offline(u)
        PROVE  HeardLast(u)'
    <3>1. i \in 1..(n + 1) /\ toService'[i] = Login(u)
      BY <1>1, <2>1
    <3>2. \A j \in i+1..(n + 1) : toService'[j] # Offline(u)
      BY <1>1, <1>7, <2>1
    <3>3. QED
      BY <1>3, <3>1, <3>2
  <2>2. ASSUME u \in present, \A i \in 1..n : toService[i] # Offline(u)
        PROVE  HeardLast(u)'
    BY <1>1, <1>3, <1>7, <2>2
  <2>3. QED
    BY <1>4, <1>7, <2>1, <2>2
<1>8. ASSUME m # Login(u), m # Offline(u), HeardLast(u)' PROVE HeardLast(u)
  <2>1. ASSUME NEW i \in 1..(n + 1), toService'[i] = Login(u),
               \A j \in i+1..(n + 1) : toService'[j] # Offline(u)
        PROVE  HeardLast(u)
    <3>1. i \in 1..n /\ toService[i] = Login(u)
      BY <1>1, <1>8, <2>1
    <3>2. \A j \in i+1..n : toService[j] # Offline(u)
      BY <1>1, <2>1
    <3>3. QED
      BY <1>4, <3>1, <3>2
  <2>2. ASSUME u \in present, \A i \in 1..(n + 1) : toService'[i] # Offline(u)
        PROVE  HeardLast(u)
    BY <1>1, <1>4, <2>2
  <2>3. QED
    BY <1>3, <1>8, <2>1, <2>2
<1>9. QED
  BY <1>5, <1>6, <1>7, <1>8

\* Reading a message does not change what the service will have heard last.
LEMMA HeardAfterTake ==
    ASSUME toService \in Seq(Message), NEW u \in Users,
           toService # <<>>, toService' = Tail(toService),
           \/ Head(toService).type = "login" /\ present' = present \cup {Head(toService).uid}
           \/ Head(toService).type = "offline" /\ present' = present \ {Head(toService).uid}
    PROVE  HeardLast(u)' <=> HeardLast(u)
<1> DEFINE n == Len(toService)
           m == toService[1]
<1>1. /\ n \in Nat \ {0} /\ Len(toService') = n - 1
      /\ DOMAIN toService = 1..n /\ DOMAIN toService' = 1..(n - 1)
      /\ \A i \in 1..(n - 1) : toService'[i] = toService[i + 1]
      /\ m \in Message /\ m = Head(toService)
  OBVIOUS
<1>2. \A j \in 2..n : j - 1 \in 1..(n - 1) /\ toService'[j - 1] = toService[j]
  <2>1. ASSUME NEW j \in 2..n PROVE j - 1 \in 1..(n - 1) /\ toService'[j - 1] = toService[j]
    <3>1. j - 1 \in 1..(n - 1) /\ (j - 1) + 1 = j
      BY <1>1
    <3>2. QED
      BY <1>1, <3>1
  <2>2. QED
    BY <2>1
<1>3. /\ m = Login(u) => u \in present'
      /\ m = Offline(u) => u \notin present'
      /\ m # Login(u) /\ m # Offline(u) => (u \in present' <=> u \in present)
  BY <1>1 DEF Message, Login, Offline
<1>4. HeardLast(u)' <=>
         \/ \E i \in 1..(n - 1) : /\ toService'[i] = Login(u)
                                 /\ \A j \in i+1..(n - 1) : toService'[j] # Offline(u)
         \/ u \in present' /\ \A i \in 1..(n - 1) : toService'[i] # Offline(u)
  BY <1>1 DEF HeardLast, Login, Offline
<1>5. HeardLast(u) <=>
         \/ \E i \in 1..n : /\ toService[i] = Login(u)
                           /\ \A j \in i+1..n : toService[j] # Offline(u)
         \/ u \in present /\ \A i \in 1..n : toService[i] # Offline(u)
  BY <1>1 DEF HeardLast, Login, Offline
<1>6. Login(u) # Offline(u)
  BY DEF Login, Offline
<1> HIDE DEF m
<1>7. ASSUME HeardLast(u) PROVE HeardLast(u)'
  <2>1. ASSUME NEW i \in 1..n, toService[i] = Login(u),
               \A j \in i+1..n : toService[j] # Offline(u)
        PROVE  HeardLast(u)'
    <3>1. ASSUME NEW k \in 1..(n - 1), k + 1 > i PROVE toService'[k] # Offline(u)
      BY <1>1, <2>1, <3>1
    <3>2. CASE i = 1
      <4>1. m = Login(u)
        BY <2>1, <3>2 DEF m
      <4>2. ASSUME NEW k \in 1..(n - 1) PROVE toService'[k] # Offline(u)
        <5>1. k + 1 > i
          BY <1>1, <3>2
        <5>2. QED
          BY <3>1, <5>1
      <4>3. QED
        BY <1>3, <1>4, <4>1, <4>2
    <3>3. CASE i # 1
      <4>1. i - 1 \in 1..(n - 1) /\ toService'[i - 1] = Login(u)
        BY <1>1, <1>2, <2>1, <3>3
      <4>2. \A k \in (i - 1) + 1..(n - 1) : toService'[k] # Offline(u)
        BY <1>1, <3>1
      <4>3. QED
        BY <1>4, <4>1, <4>2
    <3>4. QED
      BY <3>2, <3>3
  <2>2. ASSUME u \in present, \A i \in 1..n : toService[i] # Offline(u)
        PROVE  HeardLast(u)'
    <3>1. m # Offline(u)
      BY <1>1, <2>2 DEF m
    <3>2. \A k \in 1..(n - 1) : toService'[k] # Offline(u)
      BY <1>1, <2>2
    <3>3. QED
      BY <1>3, <1>4, <2>2, <3>1, <3>2
  <2>3. QED
    BY <1>5, <1>7, <2>1, <2>2
<1>8. ASSUME HeardLast(u)' PROVE HeardLast(u)
  <2>1. ASSUME NEW i \in 1..(n - 1), toService'[i] = Login(u),
               \A j \in i+1..(n - 1) : toService'[j] # Offline(u)
        PROVE  HeardLast(u)
    <3>1. i + 1 \in 1..n /\ toService[i + 1] = Login(u)
      BY <1>1, <2>1
    <3>2. ASSUME NEW j \in (i + 1) + 1..n PROVE toService[j] # Offline(u)
      <4>1. j \in 2..n /\ j - 1 \in i+1..(n - 1)
        BY <1>1
      <4>2. QED
        BY <1>2, <2>1, <4>1
    <3>3. QED
      BY <1>5, <3>1, <3>2
  <2>2. ASSUME u \in present', \A i \in 1..(n - 1) : toService'[i] # Offline(u)
        PROVE  HeardLast(u)
    <3>1. \A j \in 2..n : toService[j] # Offline(u)
      BY <1>2, <2>2
    <3>2. CASE m = Login(u)
      <4>1. toService[1] = Login(u) /\ 1 \in 1..n /\ \A j \in 1+1..n : toService[j] # Offline(u)
        BY <1>1, <3>1, <3>2 DEF m
      <4>2. QED
        BY <1>5, <4>1
    <3>3. CASE m # Login(u)
      <4>1. m # Offline(u) /\ u \in present
        BY <1>3, <2>2, <3>3
      <4>2. \A j \in 1..n : toService[j] # Offline(u)
        <5>1. \A j \in 1..n : j = 1 \/ j \in 2..n
          BY <1>1
        <5>2. QED
          BY <3>1, <4>1, <5>1 DEF m
      <4>3. QED
        BY <1>5, <4>1, <4>2
    <3>4. QED
      BY <3>2, <3>3
  <2>3. QED
    BY <1>4, <1>8, <2>1, <2>2
<1>9. QED
  BY <1>7, <1>8
\* A step that neither gives u a new holder nor says that u came or went.
LEMMA AgreeKept ==
    ASSUME IInv, NEW u \in Users, Agree(u), present' = present,
           users'[u] = users[u], timedOut \cap {u} \subseteq timedOut',
           users[u] # NoConn /\ users[u] \in announced' => users[u] \in announced,
           \/ toService' = toService
           \/ \E m \in Message : m # Login(u) /\ m # Offline(u) /\ Tell(m)
    PROVE  Agree(u)'
<1>1. HeardLast(u)' <=> HeardLast(u)
  <2>1. CASE toService' = toService
    BY <2>1 DEF HeardLast
  <2>2. CASE \E m \in Message : m # Login(u) /\ m # Offline(u) /\ Tell(m)
    BY <2>2, HeardAfterTell DEF IInv, TypeOK
  <2>3. QED
    BY <2>1, <2>2
<1>2. QED
  BY <1>1 DEF Agree

\* Cleaning c: whose account it held, if any, is reported or timed out.
LEMMA AgreeAfterClean ==
    ASSUME IInv, ServiceAgrees, NEW c \in heartbeat, Clean(c), announced' = announced,
           present' = present,
           \/ Tell(Offline(userId[c])) /\ timedOut' = timedOut
           \/ toService' = toService /\ timedOut' = timedOut \cup ({userId[c]} \cap Users)
    PROVE  ServiceAgrees'
<1> USE GateAssumption
<1>1. ASSUME NEW u \in Users PROVE Agree(u)'
  <2>1. /\ users'[u] = IF users[u] = c THEN NoConn ELSE users[u]
        /\ c # NoConn /\ c \in Conns
    BY CleanRemoves DEF IInv, TypeOK, Clean
  <2>2. userId[c] \in Users => users[userId[c]] = c
    BY DEF IInv, TypeOK, Indexed, PolledAreIndexed, KeptByTimer
  <2>3. users[u] = c => userId[c] = u
    BY <2>1 DEF IInv, Indexed, UserEntriesRight
  <2>4. Offline(userId[c]) \in Message /\ Agree(u)
    BY <2>1, OfflineType DEF IInv, ServiceAgrees, Agree
  <2>5. CASE userId[c] = u
    <3>1. users'[u] = NoConn
      BY <2>1, <2>2, <2>5
    <3>2. CASE Tell(Offline(userId[c])) /\ timedOut' = timedOut
      BY <2>4, <2>5, <3>1, <3>2, HeardAfterTell DEF IInv, TypeOK, Agree
    <3>3. CASE timedOut' = timedOut \cup ({userId[c]} \cap Users)
      BY <2>5, <3>1, <3>3 DEF Agree
    <3>4. QED
      BY <3>2, <3>3
  <2>6. CASE userId[c] # u
    <3>1. users'[u] = users[u] /\ timedOut \cap {u} \subseteq timedOut'
      BY <2>1, <2>3, <2>6
    <3>2. Offline(userId[c]) # Login(u) /\ Offline(userId[c]) # Offline(u)
      BY <2>6 DEF Login, Offline
    <3>3. QED
      BY <2>4, <3>1, <3>2, AgreeKept
  <2>7. QED
    BY <2>5, <2>6
<1>2. QED
  BY <1>1 DEF ServiceAgrees, Agree

\* ServerSubInit: the account's new connection has not announced itself.
LEMMA AgreeAfterInit ==
    ASSUME IInv, ServiceAgrees, present' = present,
           NEW v \in verifying, NEW p \in Granted, InitAccepted(v, p)
    PROVE  ServiceAgrees'
<1> USE GateAssumption
<1> DEFINE c == guests[v.id]
           old == users[v.uid]
<1>1. /\ v.uid \in Users /\ c \in poller /\ c # NoConn
      /\ permission[c] = 0 /\ c \notin announced /\ announced' = announced
  BY DEF IInv, TypeOK, Indexed, GuestEntriesRight, GuestsSilent, InitAccepted, Check
<1>2. old # NoConn => permission[old] # 0 /\ userId[old] = v.uid
  BY <1>1 DEF IInv, Indexed, UserEntriesRight
<1>3. ASSUME NEW u \in Users PROVE Agree(u)'
  <2>1. CASE u = v.uid
    <3>1. users'[u] = c
      BY <1>1, <1>2, <2>1 DEF IInv, TypeOK, InitAccepted, UsersWithout
    <3>2. QED
      BY <1>1, <3>1 DEF Agree
  <2>2. CASE u # v.uid
    <3>1. users'[u] = users[u] /\ timedOut \cap {u} \subseteq timedOut'
      BY <1>1, <1>2, <2>2 DEF IInv, TypeOK, InitAccepted, UsersWithout
    <3>2. toService' = toService \/ Tell(Offline(v.uid))
      BY <1>2 DEF InitAccepted
    <3>3. /\ Offline(v.uid) \in Message
          /\ Offline(v.uid) # Offline(u) /\ Offline(v.uid) # Login(u)
      BY <1>1, <2>2 DEF Login, Offline, Message
    <3>4. Agree(u)
      BY DEF ServiceAgrees, Agree
    <3>5. QED
      BY <1>1, <3>1, <3>2, <3>3, <3>4, AgreeKept
  <2>3. QED
    BY <2>1, <2>2
<1>4. QED
  BY <1>3 DEF ServiceAgrees, Agree

\* CMD_LOGIN_CS is under the id of the account the connection holds.
LEMMA AgreeAfterLogin ==
    ASSUME IInv, ServiceAgrees, present' = present, NEW c \in Conns, SendLogin(c)
    PROVE  ServiceAgrees'
<1> USE GateAssumption
<1>1. HeadId(c) = userId[c] /\ userId[c] \in Users /\ users[userId[c]] = c /\ c # NoConn
  BY DEF IInv, TypeOK, Indexed, PolledAreIndexed, SendLogin, HeadId
<1>2. /\ users' = users /\ announced' = announced \cup {c} /\ timedOut' = timedOut
      /\ Tell(Login(userId[c])) /\ Login(userId[c]) \in Message
  BY <1>1 DEF SendLogin, mapVars, Login, Message
<1>3. ASSUME NEW u \in Users PROVE Agree(u)'
  <2>1. CASE u = userId[c]
    <3>1. HeardLast(u)'
      BY <1>2, <2>1, HeardAfterTell DEF IInv, TypeOK
    <3>2. users'[u] # NoConn
      BY <1>1, <1>2, <2>1
    <3>3. QED
      BY <3>1, <3>2 DEF Agree
  <2>2. CASE u # userId[c]
    <3>1. Login(userId[c]) # Login(u) /\ Login(userId[c]) # Offline(u)
      BY <2>2 DEF Login, Offline
    <3>2. users[u] # NoConn => users[u] # c
      BY <2>2 DEF IInv, Indexed, UserEntriesRight
    <3>3. Agree(u) /\ users'[u] = users[u] /\ timedOut \cap {u} \subseteq timedOut'
      BY <1>2 DEF ServiceAgrees, Agree
    <3>4. QED
      BY <1>2, <3>1, <3>2, <3>3, AgreeKept
  <2>3. QED
    BY <2>1, <2>2
<1>4. QED
  BY <1>3 DEF ServiceAgrees, Agree

LEMMA AgreeAfterGate ==
    IInv /\ ServiceAgrees /\ GateStep /\ present' = present => ServiceAgrees'
<1> SUFFICES ASSUME IInv, ServiceAgrees, GateStep, present' = present PROVE ServiceAgrees'
  OBVIOUS
<1> USE GateAssumption
<1>1. ASSUME users' = users, announced' = announced, timedOut' = timedOut,
             toService' = toService
      PROVE  ServiceAgrees'
  BY <1>1 DEF ServiceAgrees, HeardLast
<1>2. ASSUME NEW c \in Conns, Accept(c) \/ Refuse(c) PROVE ServiceAgrees'
  <2>1. \A u \in Users : users[u] # c
    BY <1>2 DEF Accept, Refuse, Freed
  <2>2. QED
    BY <1>2, <2>1 DEF ServiceAgrees, HeardLast, Accept, Refuse
<1>3. ASSUME NEW u \in Users, users[u] # NoConn
      PROVE  users[u] \in heartbeat /\ userId[users[u]] = u
  BY <1>3, EntriesBeat DEF IInv, Indexed, UserEntriesRight
<1>4. ASSUME ClientStep PROVE ServiceAgrees'
  <2>1. ASSUME NEW c \in Conns, ConnectionLost(c) \/ HeartbeatExpired(c)
        PROVE  ServiceAgrees'
    BY <2>1, AgreeAfterClean, EntriesBeat DEF ConnectionLost, HeartbeatExpired, UserDisconnect,
       DisconnectSilently
  <2>2. ASSUME NEW c \in Conns, NEW u \in Users, AskVerify(c, u)
        PROVE  ServiceAgrees'
    BY <1>1, <2>2 DEF AskVerify, mapVars
  <2>3. QED
    BY <1>2, <1>4, <2>1, <2>2, AgreeAfterLogin DEF ClientStep
<1>5. ASSUME CheckStep PROVE ServiceAgrees'
  <2>1. ASSUME NEW v \in verifying, InitRejected(v) PROVE ServiceAgrees'
    <3>1. /\ guests[v.id] \in heartbeat /\ guests[v.id] \in poller
          /\ permission[guests[v.id]] = 0
      BY <2>1, EntriesBeat DEF IInv, Indexed, GuestEntriesRight, InitRejected
    <3>2. userId[guests[v.id]] = NoUser
      BY <3>1 DEF IInv, Indexed, PolledAreIndexed
    <3>3. timedOut = timedOut \cup ({userId[guests[v.id]]} \cap Users)
      BY <3>2
    <3>4. QED
      BY <2>1, <3>1, <3>3, AgreeAfterClean DEF InitRejected
  <2>2. ASSUME NEW v \in verifying, InitIgnored(v) PROVE ServiceAgrees'
    BY <1>1, <2>2 DEF InitIgnored, mapVars
  <2>3. QED
    BY <1>5, <2>1, <2>2, AgreeAfterInit DEF CheckStep
<1>6. ASSUME BackendStep PROVE ServiceAgrees'
  <2>1. ASSUME NEW u \in Users, Kick(u) \/ TransmitFails(u) PROVE ServiceAgrees'
    BY <1>3, <2>1, AgreeAfterClean DEF Kick, TransmitFails, UserDisconnect
  <2>2. ASSUME NEW u \in Users, NEW p \in Granted, SetPermission(u, p)
        PROVE  ServiceAgrees'
    BY <1>1, <2>2 DEF SetPermission, mapVars
  <2>3. QED
    BY <1>6, <2>1, <2>2 DEF BackendStep
<1>7. QED
  BY <1>4, <1>5, <1>6 DEF GateStep

LEMMA AgreeAfterHandling ==
    IInv /\ ServiceAgrees /\ ServiceHandles => ServiceAgrees'
<1> SUFFICES ASSUME IInv, ServiceAgrees, ServiceHandles PROVE ServiceAgrees'
  OBVIOUS
<1>1. /\ toService # <<>> /\ toService' = Tail(toService) /\ toService \in Seq(Message)
      /\ users' = users /\ announced' = announced /\ timedOut' = timedOut
  BY DEF ServiceHandles, ServiceTakes, mapVars, IInv, TypeOK
<1>2. \/ Head(toService).type = "login" /\ present' = present \cup {Head(toService).uid}
      \/ Head(toService).type = "offline" /\ present' = present \ {Head(toService).uid}
  BY DEF ServiceHandles, HandlesLogin, HandlesOffLine
<1>3. \A u \in Users : HeardLast(u)' <=> HeardLast(u)
  BY <1>1, <1>2, HeardAfterTake
<1>4. QED
  BY <1>1, <1>3 DEF ServiceAgrees

\* The gate's invariant holds of the two together.
LEMMA FlowGate == FlowSpec => []IInv
<1>1. FlowInit => IInv
  BY InitIInv DEF FlowInit
<1>2. IInv /\ [FlowNext]_flowVars => IInv'
  <2>1. [FlowNext]_flowVars => [Next]_gateVars
    BY DEF FlowNext, flowVars, Next, ServiceHandles, ServiceServes, ServiceTimer
  <2>2. QED
    BY <2>1, StepIInv
<1>3. QED
  BY <1>1, <1>2, PTL DEF FlowSpec

\* CSessionModule::userDisconnect and CLoginService agree about who is there:
\* when it has read everything, the service takes for present an account whose
\* connection has logged in, and for absent one that has no connection, unless
\* a heartbeat ended it.
THEOREM ServiceHearsRight == FlowSpec => []ServiceAgrees
<1>1. FlowInit => ServiceAgrees
  <2> SUFFICES ASSUME FlowInit PROVE ServiceAgrees
    OBVIOUS
  <2>1. toService = <<>> /\ present = {} /\ users = [u \in Users |-> NoConn]
    BY DEF FlowInit, GateInit
  <2>2. QED
    BY <2>1 DEF ServiceAgrees, HeardLast
<1>2. IInv /\ ServiceAgrees /\ [FlowNext]_flowVars => ServiceAgrees'
  <2> SUFFICES ASSUME IInv, ServiceAgrees, [FlowNext]_flowVars PROVE ServiceAgrees'
    OBVIOUS
  <2>1. CASE GateStep /\ UNCHANGED <<serviceVars, present>>
    BY <2>1, AgreeAfterGate
  <2>2. CASE ServiceHandles
    BY <2>2, AgreeAfterHandling
  <2>3. CASE UNCHANGED <<gateVars, present>>
    BY <2>3 DEF gateVars, ServiceAgrees, HeardLast
  <2>4. QED
    BY <2>1, <2>2, <2>3 DEF FlowNext, ServiceServes, ServiceTimer, flowVars
<1>3. QED
  BY <1>1, <1>2, FlowGate, PTL DEF FlowSpec
=============================================================================
