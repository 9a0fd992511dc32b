\* One booking and one dispatcher on PostgreSQL, whose planner refuses the
\* claim's statement; nothing else goes wrong.
SPECIFICATION FairSpec
CONSTANTS
  Booking <- FirstBooking
  Dispatcher = {d1}
  Clerk = {}
  Lead <- LeadOne
  NoPhone = {}
  MaxSends = 2
  Cooldown = 3
  Lease = 2
  SendTimeout = 1
  BatchSize = 2
  StaffStatuses <- NoMoves
  ClaimRuns = FALSE
PROPERTIES
  DueReminderSettles
