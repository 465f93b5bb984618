--------------------------- MODULE SessionGateMC ---------------------------
(* SessionGate on a small instance for TLC. *)
EXTENDS SessionGate, TLC

\* Connection objects are interchangeable, and so are accounts.
Symm == Permutations(Conns) \cup Permutations(Users)

\* The members of a deleted object are written by Accept before anything
\* reads them, so states that differ only there are the same state.
Members(c) ==
    IF Freed(c) THEN <<>>
    ELSE <<permission[c], guestId[c], userId[c], c \in announced>>
View == <<mapVars, [c \in Conns |-> Members(c)], nextGuest, verifying, toService,
          refused, timedOut>>
============================================================================
