---------------------------- MODULE PacketStream ----------------------------
(***************************************************************************)
(* What a connection promises the IKxModule behind it: processLogic is     *)
(* called once for each packet the peer has written, whole and in order.   *)
(* Packets are numbered as they were written.                              *)
(***************************************************************************)
EXTENDS Naturals, Sequences

VARIABLES
    written,   \* packets that have been written to their last byte
    got,       \* packets processLogic has been called with
    link       \* "open", "ended" by the peer, or "broken"

vars == <<written, got, link>>

Init == written = 0 /\ got = <<>> /\ link = "open"

\* The peer writes; several packets may get complete at once.
Write ==
    /\ written' \in Nat /\ written' > written
    /\ UNCHANGED <<got, link>>

Deliver ==
    /\ link = "open" /\ Len(got) < written
    /\ got' = Append(got, Len(got) + 1)
    /\ UNCHANGED <<written, link>>

\* An orderly end loses no packet that was written before it.
End ==
    /\ link = "open" /\ Len(got) = written
    /\ link' = "ended"
    /\ UNCHANGED <<written, got>>

Break ==
    /\ link = "open"
    /\ link' = "broken"
    /\ UNCHANGED <<written, got>>

Next == Write \/ Deliver \/ End \/ Break

Spec == Init /\ [][Next]_vars /\ WF_vars(Deliver)
============================================================================
