SPECIFICATION HSpec

CONSTANTS
  Pubkeys = {p1, p2}
  Urls = {u1, u2}
  Names <- MCNames
  Lower <- MCLower
  Offers = {o1, o2}
  Workers = {w1}
  Ops <- Operations
  OnePerPubkey = TRUE
  DnsFaults <- OfferOps
  Crashes = FALSE
  StoreFaults = FALSE
  Expiry = TRUE
  None = None
SYMMETRY Symmetry

INVARIANTS
  OfferPublished
  ClearUnlessLittered
