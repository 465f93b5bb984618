------------------------------ MODULE TcpRecv ------------------------------
(***************************************************************************)
(* The receiving half of a KxTCPUnit: onRecv takes what the kernel has, up *)
(* to the size of the shared buffer, puts it behind the packet it has the  *)
(* beginning of, and hands every packet that is complete to the module.    *)
(*                                                                         *)
(* One onRecv is the step Recv followed by a step Process for each packet; *)
(* in between only the peer moves.  epoll is edge triggered: the poller    *)
(* calls onRecv again as long as it returns 1, and else waits for an event.*)
(***************************************************************************)
EXTENDS Naturals, Sequences, SequencesExt

CONSTANTS
    HeadSize,    \* sizeof(ServerProtocol::Head)
    BuffSize,    \* BUFF_SIZE
    MaxPkgLen,   \* MAX_TCP_PKG_LEN
    MaxLen,      \* longest packet the peer writes
    Packets      \* number of packets the peer writes

ASSUME TcpRecvAssumption ==
    /\ HeadSize \in Nat \ {0} /\ BuffSize \in Nat \ {0}
    /\ MaxLen \in Nat /\ MaxLen >= HeadSize
    /\ MaxPkgLen \in Nat /\ MaxLen <= MaxPkgLen
    /\ Packets \in Nat

VARIABLES
    lens,       \* head->length of each packet
    out,        \* what the peer has still to write
    wire,       \* what the kernel holds
    fin,        \* the peer has closed its side
    edge,       \* epoll has an event to report
    pc,         \* the unit is "idle", in "recv", or in the loop, "process"
    half,       \* m_RecvBuffer up to m_RecvBufferOffset
    halfLen,    \* m_RecvBufferLen, 0 when m_RecvBuffer is NULL
    rest,       \* what follows stickBuf, or processBuf without m_RecvBuffer
    ret,        \* how many bytes onRecv believes it has to process
    again,      \* state, what onRecv will return
    got,        \* what processLogic has been called with
    link        \* "open", "ended" by the peer, "broken", or "error" of a length

peer == <<lens, out, wire, fin, edge>>
bufs == <<half, halfLen, rest, ret>>
vars == <<peer, pc, bufs, again, got, link>>

\* A packet's bytes are pairs of its number and their place in it.
Packet(p) == [i \in 1..lens[p] |-> <<p, i>>]

Init ==
    /\ lens \in [1..Packets -> HeadSize..MaxLen]
    /\ out = FlattenSeq([p \in 1..Packets |-> Packet(p)])
    /\ wire = <<>> /\ fin = FALSE /\ edge = FALSE
    /\ pc = "idle" /\ again = FALSE
    /\ half = <<>> /\ halfLen = 0 /\ rest = <<>> /\ ret = 0
    /\ got = <<>>
    /\ link = "open"

Take(s, n) == SubSeq(s, 1, n)
Drop(s, n) == SubSeq(s, n + 1, Len(s))

----------------------------------------------------------------------------
(* The peer and the kernel *)

PeerWrites ==
    /\ ~fin /\ link = "open"
    /\ \E n \in 1..Len(out) :
          /\ wire' = wire \o Take(out, n)
          /\ out' = Drop(out, n)
    /\ edge' = TRUE
    /\ UNCHANGED <<lens, fin, pc, bufs, again, got, link>>

PeerCloses ==
    /\ ~fin /\ link = "open"
    /\ fin' = TRUE /\ edge' = TRUE
    /\ UNCHANGED <<lens, out, wire, pc, bufs, again, got, link>>

\* The connection breaks, or another call on the unit fails and removes it.
Breaks ==
    /\ link = "open" /\ pc = "idle"
    /\ link' = "broken"
    /\ UNCHANGED <<peer, pc, bufs, again, got>>

----------------------------------------------------------------------------
(* onRecv *)

\* CBaseModule::processLength of the n bytes at b: the length in the head, or
\* the size of a head as long as it is not complete.  What is no head gives no
\* length.
IsHead(b) == Len(b) >= HeadSize /\ \A i \in 1..HeadSize : b[i] = <<b[1][1], i>>
ProcessLength(b, n) ==
    IF n < HeadSize THEN HeadSize ELSE IF IsHead(b) THEN lens[b[1][1]] ELSE 0

\* A length onRecv takes for an error of the connection
WrongLength(n) == n = 0 \/ n > MaxPkgLen

\* The poller's turn for the unit
Poll ==
    /\ pc = "idle" /\ edge /\ link = "open"
    /\ edge' = FALSE
    /\ pc' = "recv"
    /\ UNCHANGED <<lens, out, wire, fin, bufs, again, got, link>>

\* recv has nothing: it would block, or it is the end of the stream.
RecvNothing ==
    /\ pc = "recv" /\ wire = <<>>
    /\ pc' = "idle"
    /\ link' = IF fin THEN "ended" ELSE link
    /\ UNCHANGED <<peer, bufs, again, got>>

Chunk == Take(wire, IF Len(wire) < BuffSize THEN Len(wire) ELSE BuffSize)

\* The chunk behind the half packet: newsize and stickBuf
Space == halfLen - Len(half)
Into(chunk) == IF Space < Len(chunk) THEN Take(chunk, Space) ELSE chunk
Stick(chunk) == IF Space < Len(chunk) THEN Drop(chunk, Space) ELSE <<>>

\* After recv of a chunk: m_RecvBuffer, its length, what follows it, and how
\* much there is to process, 0 when onRecv returns without a packet.
Buffers(h, l, r, n) == half' = h /\ halfLen' = l /\ rest' = r /\ ret' = n
\* Altered: a packet that is just complete is taken for a half one.
FreshAtMost(chunk) ==
    LET want == ProcessLength(chunk, Len(chunk)) IN
    IF Len(chunk) <= want THEN Buffers(chunk, want, <<>>, 0)
    ELSE Buffers(<<>>, 0, chunk, Len(chunk))

Fresh(chunk) ==
    LET n == Len(chunk)
        want == ProcessLength(chunk, n)
    IN  IF n < want THEN Buffers(chunk, want, <<>>, 0)
        ELSE Buffers(<<>>, 0, chunk, n)
\* Altered: stickBuf does not advance over what was appended.
ContinuedStays(chunk) ==
    LET n == Len(half) + Len(chunk)
        h == half \o Into(chunk)
        stick == Stick(chunk)
        want == ProcessLength(h, n)
    IN  IF stick = <<>> THEN Buffers(h, halfLen, <<>>, IF n < want THEN 0 ELSE n)
        ELSE IF n < want THEN Buffers(h \o Take(stick, n - halfLen), want, <<>>, 0)
        ELSE Buffers(h \o Take(stick, want - halfLen), want, stick, n)

Continued(chunk) ==
    LET n == Len(half) + Len(chunk)
        h == half \o Into(chunk)
        stick == Stick(chunk)
        want == ProcessLength(h, n)
    IN  IF stick = <<>> THEN Buffers(h, halfLen, <<>>, IF n < want THEN 0 ELSE n)
        ELSE IF n < want THEN Buffers(h \o Take(stick, n - halfLen), want, <<>>, 0)
        ELSE Buffers(h \o Take(stick, want - halfLen), want, Drop(stick, want - halfLen), n)

\* Altered: the poller is not told to come again.
FullNever(chunk) == FALSE
\* The chunk filled the buffer, so there may be more.
Full(chunk) == Len(chunk) = BuffSize

Recv ==
    LET chunk == Chunk
        front == IF halfLen = 0 THEN chunk ELSE half \o Into(chunk)
    IN  /\ pc = "recv" /\ wire # <<>>
        /\ wire' = Drop(wire, Len(chunk))
        /\ again' = Full(chunk)
        /\ IF WrongLength(ProcessLength(front, Len(half) + Len(chunk)))
           THEN link' = "error" /\ pc' = "idle" /\ UNCHANGED bufs
           ELSE /\ IF halfLen = 0 THEN Fresh(chunk) ELSE Continued(chunk)
                /\ pc' = IF ret' > 0 THEN "process" ELSE IF again' THEN "recv" ELSE "idle"
                /\ UNCHANGED link
        /\ UNCHANGED <<lens, out, fin, edge, got>>

\* One turn of the loop over the packets
Process ==
    LET front == IF halfLen # 0 THEN half ELSE rest
        n == ProcessLength(front, ret)
        next == IF halfLen # 0 THEN rest ELSE Drop(rest, n)
        left == ret - n
        want == ProcessLength(next, left)
    IN  /\ pc = "process"
        /\ got' = Append(got, Take(front, n))
        /\ IF left = 0 THEN Buffers(<<>>, 0, <<>>, 0)
           ELSE IF left < want THEN Buffers(Take(next, left), want, <<>>, 0)
           ELSE Buffers(<<>>, 0, next, left)
        /\ link' = IF left > 0 /\ WrongLength(want) THEN "error" ELSE link
        /\ pc' = IF link' = "error" THEN "idle" ELSE IF ret' > 0 THEN "process"
                 ELSE IF again THEN "recv" ELSE "idle"
        /\ UNCHANGED <<peer, again>>

Next == PeerWrites \/ PeerCloses \/ Breaks \/ Poll \/ RecvNothing \/ Recv \/ Process

\* The event loop goes on.  Nothing is assumed of the peer.
Fairness == WF_vars(Poll) /\ WF_vars(RecvNothing) /\ WF_vars(Recv) /\ WF_vars(Process)

Spec == Init /\ [][Next]_vars /\ Fairness

----------------------------------------------------------------------------
(* Properties *)

\* m_RecvBuffer, what is being processed and what the kernel holds are, in this
\* order, what the peer has written after the packets delivered: no byte of a
\* half packet is lost, doubled or moved when it is reassembled.
Contiguous ==
    link \in {"open", "ended", "broken"} =>
        FlattenSeq(got) \o half \o rest \o wire \o out
            = FlattenSeq([p \in 1..Packets |-> Packet(p)])

\* Between two calls a buffered packet lacks something, or nobody would ever look
\* at it again, and the buffer is not longer than it, so that no copy of what is to
\* come takes bytes of the next one.
HalfLacks ==
    halfLen # 0 /\ pc # "process" /\ link # "error" =>
        Len(half) < lens[half[1][1]] /\ halfLen <= lens[half[1][1]]

\* Which packet it is, 0 for what is none
Number(b) ==
    IF \E p \in 1..Packets : b = Packet(p) THEN CHOOSE p \in 1..Packets : b = Packet(p) ELSE 0

\* The promise of the connection: packets as the peer wrote them, once, in
\* order, none left behind, also at an orderly end.
Stream == INSTANCE PacketStream WITH
    written <- Cardinality({p \in 1..Packets : \A i \in 1..Len(out) : out[i][1] # p}),
    got <- [k \in 1..Len(got) |-> Number(got[k])],
    link <- link

DeliversStream == Stream!Spec
============================================================================
