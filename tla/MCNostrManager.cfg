SPECIFICATION Spec

CONSTANTS
  w1 = w1
  a1 = a1
  a2 = a2
  e1 = e1
  Wallets <- MCWallets
  Apps <- MCApps
  Events <- OneEvent
  Author <- OneAuthor
  Target <- OneTarget
  Handlers = {h1, h2}
  MaxOpens = 3
  Crashes = TRUE
  StoreFaults = TRUE
  WebhookFaults = TRUE
  Cleanup = TRUE
  None = None
SYMMETRY Symmetry
CHECK_DEADLOCK FALSE

INVARIANTS
  TypeOK
  OneSubscription
  NoEmptySubscription
PROPERTIES
  SettledStays
  SentToSubscriber
  KeepsOtherApps
