---------------------------- MODULE MCCashLedger ----------------------------
(* Bounded instance of CashLedger: three notes, texts for each way to read *)
(* one (a movement with two word lists, one without a keyword, one without *)
(* an amount, an ordinary message).                                        *)
EXTENDS CashLedger, TLC

CONSTANTS m1, m2, m3
MCMessages == {m1, m2, m3}
MCTexts ==
  {[words |-> {"bank_withdrawal", "cash_payment"}, amount |-> 5, keyword |-> NoKeyword],
   [words |-> {"cash_payment"}, amount |-> 2, keyword |-> NoKeyword],
   [words |-> {"cash_payment"}, amount |-> 1, keyword |-> "fuel"],
   [words |-> {"cash_received"}, amount |-> NoAmount, keyword |-> "fuel"],
   [words |-> {}, amount |-> 3, keyword |-> NoKeyword]}
MCSymmetry == Permutations(MCMessages)
=============================================================================
