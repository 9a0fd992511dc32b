---------------------------- MODULE BookingStatus ----------------------------
(***************************************************************************)
(* The booking lifecycle of app/models.py: the statuses a bookings row can *)
(* have, the ones that end it, and the guarded transitions.  Constant      *)
(* operators only; the modules that move bookings around extend it.        *)
(***************************************************************************)

BookingStatuses ==
  {"draft", "awaiting_confirmation", "pending_ewash_confirmation",
   "confirmed", "rescheduled", "customer_cancelled", "admin_cancelled",
   "expired", "no_show", "technician_en_route", "arrived", "in_progress",
   "completed", "completed_with_issue", "refunded"}

FinalStatuses ==
  {"customer_cancelled", "admin_cancelled", "expired", "no_show",
   "completed", "completed_with_issue", "refunded"}

CancelledStatuses == {"customer_cancelled", "admin_cancelled"}

AllowedTransitions ==
  [s \in BookingStatuses |->
    CASE s = "draft" ->
           {"awaiting_confirmation", "pending_ewash_confirmation", "expired"}
             \cup CancelledStatuses
      [] s = "awaiting_confirmation" ->
           {"pending_ewash_confirmation", "expired"} \cup CancelledStatuses
      [] s = "pending_ewash_confirmation" ->
           {"confirmed", "expired"} \cup CancelledStatuses
      [] s = "confirmed" ->
           {"rescheduled", "no_show", "technician_en_route", "arrived",
            "in_progress", "completed", "completed_with_issue"}
             \cup CancelledStatuses
      [] s = "rescheduled" ->
           {"confirmed", "expired"} \cup CancelledStatuses
      [] s = "technician_en_route" ->
           {"arrived", "in_progress", "completed", "no_show",
            "admin_cancelled"}
      [] s = "arrived" ->
           {"in_progress", "completed", "completed_with_issue", "no_show"}
      [] s = "in_progress" -> {"completed", "completed_with_issue"}
      [] s = "completed" -> {"completed_with_issue", "refunded"}
      [] s = "completed_with_issue" -> {"refunded"}
      [] OTHER -> {}]

\* transition_booking_status raises for the current status and for any status
\* outside the table.
CanTransition(s, t) == t \in AllowedTransitions[s]

=============================================================================
