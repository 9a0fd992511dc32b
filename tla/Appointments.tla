---------------------------- MODULE Appointments ----------------------------
(***************************************************************************)
(* Dates and slots (app/api_validation.py, the slot list of app/api.py,    *)
(* the date and slot steps of app/handlers.py, closed dates and time slots *)
(* of app/catalog.py).  Staff close days and switch slots on and off while *)
(* customers choose: the PWA filters on its own clock and is checked again *)
(* when it submits; the WhatsApp dialogue offers open days, lists every    *)
(* active slot and is not checked again.  Each reading of the catalogue    *)
(* may fail, and is then the static one.                                   *)
(*                                                                         *)
(* Time is counted in half hours from the first midnight, on Casablanca's  *)
(* wall clock.                                                             *)
(***************************************************************************)
EXTENDS Integers, FiniteSets

CONSTANTS
  Slots,      \* slot ids
  StartHour,  \* per slot id: the hour it names, NoHour if it names none
  NoHour,     \* a slot id that is not slot_<from>_<to>
  Days,       \* days 0, 1, ...: those that can be chosen or closed
  StaticClosed, \* CLOSED_DATES of the static catalogue
  StaticSlots,  \* SLOTS of the static catalogue
  MaxTime,    \* bound: the clock
  MaxEdits,   \* bound: edits by staff
  Nothing     \* no draft, no booking

Hour == 2
Day == 24 * Hour
WorkingDayStart == 9 * Hour
WorkingDayEnd == 22 * Hour
MinLead == 2 * Hour
HomeMinLead == 4 * Hour

ASSUME SlotsAssumption == StartHour \in [Slots -> (0..23) \cup {NoHour}] /\ NoHour \notin 0..23
ASSUME DaysAssumption ==
  /\ Days \subseteq Nat /\ IsFiniteSet(Days)
  /\ StaticClosed \subseteq Days /\ StaticSlots \subseteq Slots
  /\ MaxTime \in Nat /\ MaxEdits \in Nat

Locations == {"home", "center"}
Draft == [channel: {"pwa", "whatsapp"}, date: Days, slot: Slots \cup {Nothing}, location: Locations]
Errors == {"closed_date", "unknown_slot", "slot_too_soon"}
ASSUME NothingIsNoError == Nothing \notin Errors
(* The walk of _business_lead_cutoff gives up after 370 days; it passes    *)
(* each closed day at most once and one open day.                          *)
ASSUME WalkEnds == Cardinality(Days) <= 369

VARIABLES
  now,      \* the clock
  closed,   \* the days that are closed: the database's rows over the static list
  active,   \* the slots that are switched on, likewise
  edits,    \* edits so far
  offered,  \* WhatsApp: the days of the list the customer has on the screen
  draft,    \* what the customer has chosen so far
  booked,   \* the booking that was taken from it
  refusal   \* what the API answered instead

vars == <<now, closed, active, edits, offered, draft, booked, refusal>>

TypeOK ==
  /\ now \in 0..MaxTime
  /\ closed \subseteq Days /\ active \subseteq Slots
  /\ edits \in 0..MaxEdits
  /\ offered \subseteq Days
  /\ draft \in Draft \cup {Nothing}
  /\ booked \in Draft \cup {Nothing}
  /\ refusal \in Errors \cup {Nothing}

(* Whatever rows the database has by now.                                  *)
Init ==
  /\ now = 0
  /\ closed \in SUBSET Days
  /\ active \in SUBSET Slots
  /\ edits = 0
  /\ offered = {}
  /\ draft = Nothing /\ booked = Nothing /\ refusal = Nothing

-----------------------------------------------------------------------------
(* What a reading of the closed days and of the active slots can return: a *)
(* failing query is logged and leaves the static lists.                    *)
ListClosedDates == {closed, StaticClosed}
ListTimeSlots == {active, StaticSlots}

DayOf(t) == t \div Day
DayStart(d) == d * Day + WorkingDayStart
DayEnd(d) == d * Day + WorkingDayEnd
Start(date, slot) == date * Day + StartHour[slot] * Hour

(* The cursor walk of _business_lead_cutoff: closed days and the hours     *)
(* after closing are skipped, the rest of each day is used up.  cl is what *)
(* was read of the closed days.                                            *)
SkipsDay(c, cl) == DayOf(c) \in cl \/ c >= DayEnd(DayOf(c))
WallClockLead(from, cl) == from + HomeMinLead
BusinessLeadCutoff(from, cl) ==
  LET walk[p \in Nat \X (0..HomeMinLead)] ==
        LET c == p[1]
            remaining == p[2]
            d == DayOf(c)
            s == IF c < DayStart(d) THEN DayStart(d) ELSE c
            available == DayEnd(d) - s
        IN IF SkipsDay(c, cl) THEN walk[<<DayStart(d + 1), remaining>>]
           ELSE IF available >= remaining THEN s + remaining
           ELSE walk[<<DayStart(d + 1), remaining - available>>]
  IN walk[<<from, HomeMinLead>>]

MinLeadForAll(location, cl) == now + MinLead
MinimumSlotStart(location, cl) ==
  IF location = "home" THEN BusinessLeadCutoff(now, cl) ELSE now + MinLead

(* The server's list for a date: active slots that start late enough.  It  *)
(* does not look at closed days.                                           *)
SlotsForCenter(date, location, slots, cl) ==
  {s \in slots : StartHour[s] # NoHour /\ Start(date, s) >= now + MinLead}
SlotsWithLeadFilter(date, location, slots, cl) ==
  {s \in slots : StartHour[s] # NoHour /\ Start(date, s) >= MinimumSlotStart(location, cl)}

(* The server's answer to a submission: the first reason to refuse it, or  *)
(* Nothing.  It reads the closed days for the date and again for the       *)
(* notice, and the slots between the two; each reading may fail.           *)
ValidateSlotAndDate(date, slot, location, days, slots, cl) ==
  IF date \in days THEN "closed_date"
  ELSE IF slot \notin slots \/ StartHour[slot] = NoHour THEN "unknown_slot"
  ELSE IF Start(date, slot) < MinimumSlotStart(location, cl) THEN "slot_too_soon"
  ELSE Nothing

-----------------------------------------------------------------------------
Tick ==
  /\ now < MaxTime
  /\ now' = now + 1
  /\ UNCHANGED <<closed, active, edits, offered, draft, booked, refusal>>

(* Staff close or reopen a day; a row overrides the static list.           *)
UpsertClosedDate(d) ==
  /\ edits < MaxEdits /\ edits' = edits + 1
  /\ closed' \in {closed \cup {d}, closed \ {d}}
  /\ UNCHANGED <<now, active, offered, draft, booked, refusal>>

UpsertTimeSlot(s) ==
  /\ edits < MaxEdits /\ edits' = edits + 1
  /\ active' \in {active \cup {s}, active \ {s}}
  /\ UNCHANGED <<now, closed, offered, draft, booked, refusal>>

(* A customer starts, or starts over.                                      *)
Begins(channel, date, slot, location) ==
  /\ draft' = [channel |-> channel, date |-> date, slot |-> slot, location |-> location]
  /\ booked' = Nothing /\ refusal' = Nothing

(* PWA: a day that is not closed, from today on, and a slot that passes    *)
(* the device's own filter, which takes an id without an hour for midnight.*)
DeviceStart(date, slot) == IF StartHour[slot] = NoHour THEN date * Day ELSE Start(date, slot)
PickInApp(date, slot, location) ==
  /\ \E cl \in ListClosedDates :
       /\ date \notin cl /\ date >= DayOf(now)
       /\ DeviceStart(date, slot) >= MinimumSlotStart(location, cl)
  /\ slot \in UNION ListTimeSlots
  /\ Begins("pwa", date, slot, location)
  /\ UNCHANGED <<now, closed, active, edits, offered>>

(* ... submitted later, when the server looks at the clock and the         *)
(* catalogue again.  An edit that another process commits between two of   *)
(* its readings lets nothing pass that would not have passed before the    *)
(* edit or after it: a closing day only moves the notice away.             *)
Submit(days, slots, cl) ==
  /\ draft # Nothing /\ draft.channel = "pwa"
  /\ refusal' = ValidateSlotAndDate(draft.date, draft.slot, draft.location, days, slots, cl)
  /\ booked' = IF refusal' = Nothing THEN draft ELSE Nothing
  /\ draft' = Nothing
  /\ UNCHANGED <<now, closed, active, edits, offered>>

(* WhatsApp: the open days from today on are listed; one of the listed     *)
(* days is picked, later an active slot of it.                             *)
AskWhen ==
  /\ \E cl \in ListClosedDates : offered' = {d \in Days : d >= DayOf(now) /\ d \notin cl}
  /\ draft' = Nothing /\ booked' = Nothing /\ refusal' = Nothing
  /\ UNCHANGED <<now, closed, active, edits>>

PickDate(date, location) ==
  /\ date \in offered
  /\ Begins("whatsapp", date, Nothing, location)
  /\ UNCHANGED <<now, closed, active, edits, offered>>

PickSlot(slot) ==
  /\ draft # Nothing /\ draft.channel = "whatsapp"
  /\ slot \in UNION ListTimeSlots
  /\ draft' = [draft EXCEPT !.slot = slot]
  /\ UNCHANGED <<now, closed, active, edits, offered, booked, refusal>>

(* The confirmation stores what was picked.                                *)
ConfirmInChat ==
  /\ draft # Nothing /\ draft.channel = "whatsapp" /\ draft.slot # Nothing
  /\ booked' = draft
  /\ draft' = Nothing /\ offered' = {}
  /\ UNCHANGED <<now, closed, active, edits, refusal>>

Next ==
  \/ Tick
  \/ \E d \in Days : UpsertClosedDate(d)
  \/ \E s \in Slots : UpsertTimeSlot(s) \/ PickSlot(s)
  \/ \E d \in Days, s \in Slots, l \in Locations : PickInApp(d, s, l)
  \/ \E d \in Days, l \in Locations : PickDate(d, l)
  \/ \E days, cl \in ListClosedDates, slots \in ListTimeSlots : Submit(days, slots, cl)
  \/ AskWhen \/ ConfirmInChat

Spec == Init /\ [][Next]_vars

-----------------------------------------------------------------------------
(* The half hours of service between two moments.                          *)
ServiceTime(from, to, cl) ==
  {t \in from..(to - 1) : /\ DayOf(t) \notin cl
                          /\ t >= DayStart(DayOf(t)) /\ t < DayEnd(DayOf(t))}

(* The cutoff of a home visit leaves exactly four hours of service, and it *)
(* comes as soon as they are over: "four *working* hours of notice"        *)
(* (api_validation.py:166-168), whatever days are closed in between and    *)
(* whichever list of them was read.                                        *)
HomeLeadIsFourOpenHours ==
  \A cl \in ListClosedDates :
    LET cutoff == BusinessLeadCutoff(now, cl)
    IN /\ Cardinality(ServiceTime(now, cutoff, cl)) = HomeMinLead
       /\ (cutoff - 1) \in ServiceTime(now, cutoff, cl)

(* A booking of the PWA is taken only for an active slot of an open day,   *)
(* two hours ahead or, at home, after four hours of service, by the clock  *)
(* at its submission and by the catalogue as each of its three readings    *)
(* found it (api_validation.py:241-322): the database's, where the reading *)
(* succeeded, whatever was edited since the device chose.                  *)
InTime(b, days, slots, cl) ==
  /\ b.date \notin days /\ b.slot \in slots
  /\ IF b.location = "home"
     THEN Cardinality(ServiceTime(now, Start(b.date, b.slot), cl)) >= HomeMinLead
     ELSE Start(b.date, b.slot) >= now + MinLead
AppBookingsAreInTime ==
  [][\A days, cl \in ListClosedDates, slots \in ListTimeSlots :
       Submit(days, slots, cl) /\ booked' # Nothing => InTime(booked', days, slots, cl)]_vars

(* What the server lists for an open day it also accepts at that moment,   *)
(* when both read the same of the catalogue: the list of api.py:812-865    *)
(* and the check of api_validation.py:241-322 are two pieces of code.      *)
ListedSlotsAreAccepted ==
  \A days, cl \in ListClosedDates, slots \in ListTimeSlots :
    \A d \in Days \ days, l \in Locations : \A s \in SlotsWithLeadFilter(d, l, slots, cl) :
      ValidateSlotAndDate(d, s, l, days, slots, cl) = Nothing
=============================================================================
