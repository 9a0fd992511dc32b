--------------------------- MODULE MCAppointments ---------------------------
(* Bounded instance of Appointments: three days, one of them in the static *)
(* list; a static slot, two hours after opening, so that four hours of     *)
(* service before it begin on the day before; and one whose id names no    *)
(* hour.                                                                   *)
EXTENDS Appointments

CONSTANTS morning, odd
MCSlots == {morning, odd}
MCStartHour == [s \in MCSlots |-> IF s = morning THEN 11 ELSE NoHour]
MCDays == 0..2
MCStaticClosed == {1}
MCStaticSlots == {morning}
=============================================================================
