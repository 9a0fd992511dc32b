---------------------------- MODULE MCApiBooking ----------------------------
(* Instances of ApiBooking for TLC. *)
EXTENDS ApiBooking

CONSTANTS d1, d2, ph1, ph2

FirstPhone == [d \in Device |-> ph1]

=============================================================================
