SPECIFICATION Spec

CONSTANTS
  Payers = {p1, p2, p3}
  Urls = {info, invoice}
  Invoices = {invoice}
  MaxAges <- MCMaxAges
  Second = 4
  HalfRange <- MCHalfRange
  DefaultTtl = 5
  MaxClock = 6
  NoAge = NoAge
  None = None
  Error = Error
SYMMETRY Symmetry
CHECK_DEADLOCK FALSE

INVARIANTS
  TypeOK
  OwnInvoice
  LatestCached
PROPERTIES
  FreshHit
