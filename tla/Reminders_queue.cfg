\* Two bookings due one after the other, two dispatchers, a Meta call shorter
\* than the lease and a cooldown longer than it, fairness; the second booking
\* has no phone.
SPECIFICATION FairSpec
CONSTANTS
  Booking <- TwoBookings
  Dispatcher = {d1, d2}
  Lead <- LeadTwo
  NoPhone <- SecondBooking
  MaxSends = 2
  Cooldown = 3
  Lease = 2
  SendTimeout = 1
  BatchSize = 2
  StaffStatuses <- FirstMoves
  Clerk = {c1}
  ClaimRuns = TRUE
INVARIANTS
  DeliveriesPaidFor
  SingleSender
  AtMostOneLateMessage
  SentWasDelivered
PROPERTIES
  NoDeliveryOnSettledRow
  ImplementsContract
  DueReminderSettles
