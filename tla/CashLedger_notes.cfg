\* Three messages, each delivered up to twice, one review per entry.
SPECIFICATION Spec
CONSTANTS
  NoEntry = NoEntry
  m1 = m1
  m2 = m2
  m3 = m3
  Messages <- MCMessages
  Texts <- MCTexts
  Keywords = {"fuel"}
  MaxAudit = 2
  MaxDeliveries = 2
SYMMETRY MCSymmetry
INVARIANTS
  KeptEntriesWereTold
  AuditRebuildsLedger
  LastBalanceToldIsCurrent
CHECK_DEADLOCK FALSE
