\* One device and one process: the key of a confirmed booking is kept.
SPECIFICATION Spec
CONSTANTS
  d1 = d1
  d2 = d2
  ph1 = ph1
  ph2 = ph2
  Device = {d1}
  Slots = 1
  Phone = {ph1, ph2}
  OwnPhone <- FirstPhone
  Servers = 1
  MaxAttempts = 2
  MaxFaults = 1
INVARIANTS
  ConfirmedIsOfThisAttempt
CHECK_DEADLOCK FALSE
