----------------------------- MODULE MCReminders -----------------------------
(* Instance of Reminders for TLC. *)
EXTENDS Reminders

TwoBookings == {1, 2}
SecondBooking == {2}

\* The second reminder falls due a tick after the first.
LeadTwo == [b \in {1, 2} |-> b]

\* Enough of the lifecycle for the first booking to leave the sendable status
\* for good, with and without a cancellation, or to leave it and come back.
FirstMoves ==
  [b \in {1, 2} |->
     IF b = 1 THEN {"customer_cancelled", "no_show", "rescheduled", "confirmed"}
     ELSE {}]

FirstBooking == {1}
LeadOne == [b \in {1} |-> 1]
NoMoves == [b \in {1} |-> {}]

=============================================================================
