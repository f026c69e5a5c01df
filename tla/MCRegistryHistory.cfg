SPECIFICATION HSpec

CONSTANTS
  Pubkeys = {p1, p2}
  Urls = {u1}
  Names <- MCNames
  Lower <- MCLower
  Offers = {o1}
  Workers = {w1, w2}
  Ops <- Operations
  OnePerPubkey = TRUE
  DnsFaults <- Operations
  Crashes = TRUE
  StoreFaults = TRUE
  Expiry = FALSE
  None = None
SYMMETRY Symmetry

INVARIANTS
  TypeOK
  PublishedUnlessSpoiled
  ClearUnlessLittered
  ConfirmedNameHeld
PROPERTIES
  OnlyHolderPublishes
  ImplementsAddressBook
