------------------------------- MODULE RoomMC -------------------------------
(* Two battles with one player in common, for TLC. *)
EXTENDS Room

CONSTANTS u1, u2, u3, b1, b2

CommonPlayer == [b \in Battles |-> IF b = b1 THEN {u1, u2} ELSE {u1, u3}]
============================================================================
