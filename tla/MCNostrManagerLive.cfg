SPECIFICATION LiveSpec

CONSTANTS
  w1 = w1
  a1 = a1
  a2 = a2
  e1 = e1
  Wallets <- MCWallets
  Apps <- MCApps
  Events <- OneEvent
  Author <- OneAuthor
  Target <- OneTarget
  Handlers = {h1}
  MaxOpens = 3
  Crashes = TRUE
  StoreFaults = FALSE
  WebhookFaults = FALSE
  Cleanup = FALSE
  None = None
CHECK_DEADLOCK FALSE

PROPERTIES
  EventForwarded

INVARIANTS
  NothingDropped
