SPECIFICATION Spec

CONSTANTS
  a1 = a1
  a2 = a2
  a3 = a3
  w1 = w1
  w2 = w2
  r1 = r1
  r2 = r2
  r3 = r3
  Apps <- MCApps
  Wallets = {w1, w2}
  WalletOf <- MCWalletOf
  Relays = {r1, r2, r3}
  Lists <- MCLists
  MaxRelays = 3
  Handlers = {h1, h2}
  Overlap = FALSE
  None = None
SYMMETRY Symmetry

INVARIANTS
  TypeOK
  RelaysKept
  Listening
