SPECIFICATION LiveSpec

CONSTANTS
  Requests = {r1, r2}
  Posts = {p1, p2}
  Ids = {i1, i2}
  Responses = {b1, b2}
  RacyDraws = TRUE
  None = None
  Zero = Zero
  Error = Error
CHECK_DEADLOCK FALSE

INVARIANTS
  NoPanic
  NoLeak
  HolderCanSend
PROPERTIES
  WaitEnds
  PosterAnswered
