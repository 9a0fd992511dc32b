--------------------------- MODULE ReminderContract ---------------------------
(***************************************************************************)
(* What the reminder subsystem promises a customer, with no clock, no      *)
(* lease and no dispatcher: a reminder is opened once, a bounded number of *)
(* attempts is made while it is open, every message the customer receives  *)
(* is paid for by one of those attempts, and a reminder that is closed     *)
(* stays closed and is never attempted again.                              *)
(***************************************************************************)
EXTENDS Integers

CONSTANTS
  Booking,    \* one reminder per booking
  MaxSends    \* reminder_rules.max_sends

VARIABLES
  phase,      \* "none", "open" (pending or failed) or "closed"
  tries,      \* attempts started
  delivered   \* messages the customer has received

contractVars == <<phase, tries, delivered>>

Init ==
  /\ phase = [b \in Booking |-> "none"]
  /\ tries = [b \in Booking |-> 0]
  /\ delivered = [b \in Booking |-> 0]

Open(b) ==
  /\ phase[b] = "none"
  /\ phase' = [phase EXCEPT ![b] = "open"]
  /\ UNCHANGED <<tries, delivered>>

Try(b) ==
  /\ phase[b] = "open"
  /\ tries[b] < MaxSends
  /\ tries' = [tries EXCEPT ![b] = @ + 1]
  /\ UNCHANGED <<phase, delivered>>

\* An attempt under way when the reminder is closed may still get through.
Deliver(b) ==
  /\ delivered[b] < tries[b]
  /\ delivered' = [delivered EXCEPT ![b] = @ + 1]
  /\ UNCHANGED <<phase, tries>>

Close(b) ==
  /\ phase[b] = "open"
  /\ phase' = [phase EXCEPT ![b] = "closed"]
  /\ UNCHANGED <<tries, delivered>>

Next == \E b \in Booking : Open(b) \/ Try(b) \/ Deliver(b) \/ Close(b)

Spec == Init /\ [][Next]_contractVars

=============================================================================
