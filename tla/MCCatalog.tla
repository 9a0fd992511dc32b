----------------------------- MODULE MCCatalog -----------------------------
(* Bounded instance of Catalog: a code of the static catalogue, which the  *)
(* PWA asks for, and one that staff may create; two prices.  The processes *)
(* are alike.                                                              *)
EXTENDS Catalog, TLC

CONSTANTS partner, summer
MCCodes == {partner, summer}
MCStaticDiscount == [c \in {partner} |-> 1]
Symmetry == Permutations(Procs)
=============================================================================
