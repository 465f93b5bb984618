------------------------------ MODULE TcpSend ------------------------------
(***************************************************************************)
(* The sending half of a KxTCPUnit registered with a KxEpoller: sendData   *)
(* writes to the socket or queues, onSend flushes the queue when epoll     *)
(* says the socket is writable, and the interest in EPOLLOUT is kept in    *)
(* two places, m_PollType and the epoll registration.                      *)
(*                                                                         *)
(* epoll is edge triggered (EPOLLET).  It and the kernel's socket buffer   *)
(* are external; they are modelled as far as the code relies on them.      *)
(***************************************************************************)
EXTENDS Naturals, Sequences, SequencesExt

CONSTANTS
    Packets,     \* number of packets the program sends
    MaxLen,      \* longest packet, in bytes
    Room         \* size of the kernel's send buffer, in bytes

ASSUME TcpSendAssumption ==
    /\ Packets \in Nat /\ MaxLen \in Nat \ {0} /\ Room \in Nat \ {0}

VARIABLES
    tx,          \* the unit's queues and the kernel's send buffer, a record
    armed,       \* EPOLLOUT is registered with epoll
    edge,        \* epoll has an event to report for the unit
    link,        \* the socket: open, broken, or removed from the poller
    sent,        \* lengths of the packets given to sendData, oldest first
    got          \* bytes the peer has read

vars == <<tx, armed, edge, link, sent, got>>

\* The first n bytes of the p-th packet
Bytes(p, n) == [i \in 1..n |-> <<p, i>>]

\* Of tx:
\* sendBuf: what m_SendBuffer has left, <<>> when it is NULL
\* list:    m_BufferList, a sequence of sequences of bytes
\* wire:    accepted by the kernel and not read by the peer
\* out:     m_PollType has KXPOLLTYPE_OUT
Init ==
    /\ tx = [sendBuf |-> <<>>, list |-> <<>>, wire |-> <<>>, out |-> FALSE]
    /\ armed = FALSE /\ edge = FALSE
    /\ link = "open"
    /\ sent = <<>>
    /\ got = <<>>

----------------------------------------------------------------------------
(* The unit's operations, as functions of its state *)

Free(u) == Room - Len(u.wire)
Least(m, n) == IF m <= n THEN m ELSE n
From(s, n) == SubSeq(s, n + 1, Len(s))
Pending(u) == u.sendBuf # <<>> \/ u.list # <<>>

\* What sendData tells the kernel to take: nothing when packets are queued.
Taken(u, b) == IF u.list = <<>> THEN Least(Len(b), Free(u)) ELSE 0
FallsShort(u, b) == Taken(u, b) < Len(b)

SendDataWhole(u, b) ==
    LET k == Taken(u, b) IN
        [u EXCEPT !.wire = @ \o SubSeq(b, 1, k),
                  !.list = IF k < Len(b) THEN Append(@, b) ELSE @]

\* KxTCPUnit::sendData with a packet of the program: what the kernel does not
\* take goes to the end of m_BufferList.
SendData(u, b) ==
    LET k == Taken(u, b) IN
        [u EXCEPT !.wire = @ \o SubSeq(b, 1, k),
                  !.list = IF k < Len(b) THEN Append(@, From(b, k)) ELSE @]

\* KxTCPUnit::onSend: the buffers go out one by one until the kernel is full;
\* the first one that does not go out whole is in m_SendBuffer and no longer
\* in m_BufferList.
Buffers(u) == IF u.sendBuf = <<>> THEN u.list ELSE <<u.sendBuf>> \o u.list
OnSendForgetsOut(u) ==
    LET bufs == Buffers(u)
        all == FlattenSeq(bufs)
        k == Least(Len(all), Free(u))
    IN [sendBuf |-> From(all, k), list |-> <<>>, wire |-> u.wire \o SubSeq(all, 1, k),
        out |-> FALSE]
OnSend(u) ==
    LET bufs == Buffers(u)
        all == FlattenSeq(bufs)
        k == Least(Len(all), Free(u))
        size(j) == Len(FlattenSeq(SubSeq(bufs, 1, j)))
        whole == CHOOSE j \in 0..Len(bufs) :
                    size(j) <= k /\ (j < Len(bufs) => k < size(j + 1))
        done == whole = Len(bufs)
    IN [sendBuf |-> IF done THEN <<>> ELSE From(bufs[whole + 1], k - size(whole)),
        list    |-> IF done THEN <<>> ELSE From(bufs, whole + 1),
        wire    |-> u.wire \o SubSeq(all, 1, k),
        out     |-> ~done]

----------------------------------------------------------------------------
(* Actions *)

CanSend == Len(sent) < Packets
NewPacket(n) == Bytes(Len(sent) + 1, n)

\* sendData outside the unit's own callbacks: addPollType goes to
\* KxEpoller::modifyCommObject, which registers EPOLLOUT and leaves m_PollType
\* as it is.  EPOLL_CTL_MOD reports a socket that is writable already.
Send(n) ==
    /\ link = "open" /\ CanSend
    /\ LET b == NewPacket(n) IN
          /\ sent' = Append(sent, n)
          /\ tx' = SendData(tx, b)
          /\ armed' = (armed \/ FallsShort(tx, b))
          /\ edge' = (edge \/ (FallsShort(tx, b) /\ Free(tx') > 0))
    /\ UNCHANGED <<link, got>>

ReRegisterNever(old, new) == armed

\* KxEpoller::poll after the callbacks of the current object: its registration
\* is modified when m_PollType has changed.
ReRegister(old, new) == IF old # new THEN new ELSE armed

\* The unit's turn in KxEpoller::poll.  Incoming data runs onRecv, whose
\* handler may send a reply on the same unit: there addPollType writes
\* m_PollType only.  A socket that was writable runs onSend.
Poll(reply) ==
    /\ link = "open"
    /\ edge \/ reply # <<>>
    /\ reply # <<>> => CanSend
    /\ sent' = IF reply = <<>> THEN sent ELSE Append(sent, Len(reply))
    /\ LET writable == armed /\ Free(tx) > 0
           afterIn == IF reply = <<>> THEN tx
                      ELSE [SendData(tx, reply) EXCEPT !.out = @ \/ FallsShort(tx, reply)]
           afterOut == IF writable THEN OnSend(afterIn) ELSE afterIn
       IN /\ tx' = afterOut
          /\ armed' = ReRegister(tx.out, afterOut.out)
          /\ edge' = (armed' /\ tx.out # afterOut.out /\ Free(afterOut) > 0)
    /\ UNCHANGED <<link, got>>

\* The peer reads.  A socket that was full is reported writable.
PeerReads ==
    /\ link = "open"
    /\ tx.wire # <<>>
    /\ got' = Append(got, Head(tx.wire))
    /\ tx' = [tx EXCEPT !.wire = Tail(@)]
    /\ edge' = (edge \/ (armed /\ Free(tx) = 0))
    /\ UNCHANGED <<armed, link, sent>>

\* The connection breaks; epoll will report EPOLLERR.
Breaks ==
    /\ link = "open"
    /\ link' = "broken"
    /\ UNCHANGED <<tx, armed, edge, sent, got>>

\* sendData on a broken socket: when it gets to write, the unit is removed
\* from the poller and onError runs; otherwise the packet is queued.  In a
\* callback of the unit itself the write fails and nothing happens.
SendFails(n) ==
    /\ link = "broken" /\ CanSend
    /\ sent' = Append(sent, n)
    /\ \/ tx.list = <<>> /\ link' = "removed" /\ UNCHANGED <<tx, armed>>
       \/ /\ tx.list # <<>>
          /\ tx' = [tx EXCEPT !.list = Append(@, NewPacket(n))]
          /\ armed' = TRUE
          /\ UNCHANGED link
       \/ tx.list = <<>> /\ UNCHANGED <<link, tx, armed>>
    /\ UNCHANGED <<edge, got>>

\* EPOLLERR: onRecv returns -1, the poller drops the unit and calls onError.
PollError ==
    /\ link = "broken"
    /\ link' = "removed"
    /\ UNCHANGED <<tx, armed, edge, sent, got>>

Done == link = "removed" /\ UNCHANGED vars

Next ==
    \/ \E n \in 1..MaxLen : Send(n) \/ SendFails(n) \/ Poll(NewPacket(n))
    \/ Poll(<<>>)
    \/ PeerReads
    \/ Breaks
    \/ PollError
    \/ Done

\* The event loop polls, and the peer goes on reading.
Spec == Init /\ [][Next]_vars /\ WF_vars(Poll(<<>>)) /\ WF_vars(PeerReads)

----------------------------------------------------------------------------
(* Properties *)

\* All bytes given to sendData, in the order they are, or will be, on the
\* connection if nothing more is sent.
Stream == got \o tx.wire \o tx.sendBuf \o FlattenSeq(tx.list)

\* "the data is sent completely" (KxTCPUnit.h): while the connection is open,
\* each packet's bytes are on their way or arrived, all of them, none of them
\* twice, and in their order.
Conserved ==
    LET all == Stream IN
    link = "open" =>
        /\ \A p \in DOMAIN sent : \A k \in 1..sent[p] :
              \E i \in DOMAIN all : all[i] = <<p, k>>
        /\ \A i \in DOMAIN all :
              \E p \in DOMAIN sent : \E k \in 1..sent[p] : all[i] = <<p, k>>
        /\ \A i, j \in DOMAIN all :
              i < j /\ all[i][1] = all[j][1] => all[i][2] < all[j][2]

\* addPollType in two places: data waiting on an open connection always has
\* EPOLLOUT registered, whichever of m_PollType and epoll was written last.
PendingArmed == link = "open" /\ Pending(tx) => armed

\* Edge triggering loses no wake-up: what is sent arrives, as long as the
\* connection stays open and the peer reads.
EverythingArrives ==
    \A p \in 1..Packets :
        Len(sent) >= p ~>
            \/ link # "open"
            \/ p \in DOMAIN sent /\ <<p, sent[p]>> \in Range(got)

\* KxTCPUnit.cpp:57: when the list is empty no data is waiting, so a packet
\* written at once goes out behind the packets before it, not inside one.
SentInOrder ==
    link = "open" =>
        Stream = FlattenSeq([p \in DOMAIN sent |-> Bytes(p, sent[p])])
============================================================================
