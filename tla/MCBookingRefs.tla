---------------------------- MODULE MCBookingRefs ----------------------------
(* Instances of BookingRefs for TLC. *)
EXTENDS BookingRefs

CONSTANTS old, w1, w2, a1, a2

TwoAndOne == {w1, w2, a1}
TwoAndTwo == {w1, w2, a1, a2}
OneApi == {a1}
TwoApi == {a1, a2}

\* A database whose bookings are older than the counter table, with a hole.
OneLegacyRow == {[year |-> 1, n |-> 2, owner |-> old]}
NoLegacyRows == {}

=============================================================================
