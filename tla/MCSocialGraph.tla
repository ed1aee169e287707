--------------------------- MODULE MCSocialGraph ---------------------------
(* Two users, since no operation touches more than one pair, and two       *)
(* requests in flight.                                                     *)
EXTENDS SocialGraph, TLC

CONSTANTS a, b, s1, s2

Users == {a, b}
Slots == {s1, s2}

Symmetry == Permutations(Slots)
=============================================================================
