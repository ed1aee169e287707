------------------------------ MODULE MCRides ------------------------------
(* Rides on a small instance: one ride, two drivers and two requests in    *)
(* flight, so that two accepts can race each other and a cancellation.     *)
(* Rows do not influence each other, so one ride shows every interleaving. *)
EXTENDS Rides

CONSTANTS r1, d1, d2, s1, s2

RideIds == {r1}
DriverIds == {d1, d2}
Slots == {s1, s2}
=============================================================================
