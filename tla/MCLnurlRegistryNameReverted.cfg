SPECIFICATION Spec

CONSTANTS
  Pubkeys = {p1, p2}
  Urls = {u1}
  Names <- MCNames
  Lower <- MCLower
  Offers = {o1, o2}
  Workers = {w1}
  Ops <- LnurlOps
  OnePerPubkey = TRUE
  DnsFaults = {}
  Crashes = FALSE
  StoreFaults = FALSE
  Expiry = FALSE
  None = None
SYMMETRY Symmetry

INVARIANTS
  RegisteredNameHeld
