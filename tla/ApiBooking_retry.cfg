\* One device, a second submission while the first is still served by another
\* process, two phones, two bookings.
SPECIFICATION FairSpec
CONSTANTS
  d1 = d1
  d2 = d2
  ph1 = ph1
  ph2 = ph2
  Device = {d1}
  Slots = 2
  Phone = {ph1, ph2}
  OwnPhone <- FirstPhone
  Servers = 2
  MaxAttempts = 2
  MaxFaults = 2
INVARIANTS
  OneRowPerAttempt
  ConfirmedIsStored
  TokensStayFew
PROPERTIES
  AlertedOnce
  RetryConfirms
