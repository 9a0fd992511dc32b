\* Two processes, two erasures of one phone, three bookings listed one by one.
SPECIFICATION Spec
CONSTANTS
  NoToken = NoToken
  p1 = p1
  p2 = p2
  t1 = t1
  t2 = t2
  Procs <- MCProcs
  Tokens <- MCTokens
  MaxEra = 4
  MaxBookings = 3
  MaxTime = 2
  PageSize = 1
SYMMETRY MCSymmetry
INVARIANTS
  TypeOK
  ErasureIsComplete
  DetailsAreCleared
  PagesShowAll
CHECK_DEADLOCK FALSE
