\* Two processes, two codes, edits while the PWA asks and time passes.
SPECIFICATION Spec
CONSTANTS
  partner = partner
  summer = summer
  None = None
  Procs = {p1, p2}
  Codes <- MCCodes
  StaticDiscount <- MCStaticDiscount
  Asked = partner
  Prices = {1, 2}
  StaticPrice = 2
  Ttl = 1
  Flight = 1
  MaxEdits = 2
SYMMETRY Symmetry
PROPERTIES
  SettlesWithinADay
CHECK_DEADLOCK FALSE
