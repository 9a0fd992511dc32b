\* One process that may restart; the database fails a reservation, and the year
\* turns at any moment.
SPECIFICATION Spec
CONSTANTS
  Process = {p1}
  NoProcess = NoProcess
  Request <- TwoAndTwo
  ApiRequest <- TwoApi
  LegacyRows <- NoLegacyRows
  Legacy = old
  old = old
  w1 = w1
  w2 = w2
  a1 = a1
  a2 = a2
  UniqueRef = TRUE
  LastYear = 2
  MaxDbFailures = 2
INVARIANTS
  TypeOK
  ApiRefIsOwn
PROPERTIES
  CounterNeverFalls
