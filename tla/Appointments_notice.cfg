\* Three days, two days of clock in half hours, two edits by staff between a
\* customer's choice and its submission.
SPECIFICATION Spec
CONSTANTS
  morning = morning
  odd = odd
  NoHour = NoHour
  Nothing = Nothing
  Slots <- MCSlots
  StartHour <- MCStartHour
  Days <- MCDays
  StaticClosed <- MCStaticClosed
  StaticSlots <- MCStaticSlots
  MaxTime = 96
  MaxEdits = 2
INVARIANTS
  HomeLeadIsFourOpenHours
  ListedSlotsAreAccepted
PROPERTIES
  AppBookingsAreInTime
CHECK_DEADLOCK FALSE
