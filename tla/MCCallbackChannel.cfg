SPECIFICATION Spec

CONSTANTS
  Requests = {r1, r2, r3}
  Posts = {p1, p2}
  Ids = {i1, i2, i3}
  Responses = {b1, b2}
  RacyDraws = FALSE
  None = None
  Zero = Zero
  Error = Error
SYMMETRY Symmetry
CHECK_DEADLOCK FALSE

INVARIANTS
  TypeOK
  MatchedResponse
  OneAnswerPerRequest
  AcceptedIsKept
PROPERTIES
  LiveNotRefused
  ImplementsRequestReply
