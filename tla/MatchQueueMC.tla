---------------------------- MODULE MatchQueueMC ----------------------------
(* MatchQueue on a small instance for TLC. *)
EXTENDS MatchQueue

\* Points 1 put a player in the middle list, points 2 in the highest.
TwoDans == [p \in Integrals |-> IF p = 1 THEN 2 ELSE 3]

\* Rounds of one length; more load, more patience, as in the configuration.
RoundTimes == [load \in Loads |-> [l \in Levels |-> 2]]
WaitTimes == [load \in Loads |-> [l \in Levels |-> IF load = "high" THEN 3 ELSE 2]]
============================================================================
