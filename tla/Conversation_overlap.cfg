\* Two requests in progress: while a call is out, another message of the
\* phone may be handled.
SPECIFICATION Spec
CONSTANTS
  t1 = t1
  t2 = t2
  Task <- TwoTasks
  MaxOvertakes = 1
  MaxRefs = 1
INVARIANTS
  TypeOK
  RowsAreComplete
  PricesMatchPromo
  ToldIsStored
  StageIsCurrent
SYMMETRY TaskSymmetry
