--------------------------- MODULE MCCustomerData ---------------------------
(* Bounded instance of CustomerData: two processes, two tokens, three      *)
(* bookings with two creation times (so that two share one), pages of one, *)
(* and two erasures.                                                       *)
EXTENDS CustomerData, TLC

CONSTANTS p1, p2, t1, t2
MCProcs == {p1, p2}
MCTokens == {t1, t2}
MCSymmetry == Permutations(MCProcs) \cup Permutations(MCTokens)
=============================================================================
