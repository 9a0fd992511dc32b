\* The database fails one reservation.
SPECIFICATION Spec
CONSTANTS
  Process = {p1}
  Request <- TwoAndOne
  ApiRequest <- OneApi
  LegacyRows <- NoLegacyRows
  Legacy = old
  NoProcess = NoProcess
  old = old
  w1 = w1
  w2 = w2
  a1 = a1
  a2 = a2
  UniqueRef = TRUE
  LastYear = 1
  MaxDbFailures = 1
INVARIANTS
  GivenRefIsOwn
