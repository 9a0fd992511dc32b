\* Two processes overlap on a database with older bookings; two WhatsApp
\* requests and an API request; crashes at any point, no uniqueness constraint.
SPECIFICATION Spec
CONSTANTS
  Process = {p1, p2}
  Request <- TwoAndOne
  ApiRequest <- OneApi
  LegacyRows <- OneLegacyRow
  Legacy = old
  NoProcess = NoProcess
  old = old
  w1 = w1
  w2 = w2
  a1 = a1
  a2 = a2
  UniqueRef = FALSE
  LastYear = 1
  MaxDbFailures = 0
INVARIANTS
  GivenRefIsOwn
  RefsAreUnique
  ApiLosesNoNumber
PROPERTIES
  ReservedAboveStored
