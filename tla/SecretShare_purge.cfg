\* What the sweepers list and delete, on two links with a crash; fair tickers.
SPECIFICATION FairSpec
CONSTANTS
  Ids = {i1, i2, noid}
  Mistyped = noid
  Clients = {c1}
  AuthEnabled = TRUE
  GateAll = FALSE
  MaxViews = 2
  MaxTTL = 1
  Horizon = 2
  MaxCrashes = 1
  MaxErrors = 0
INVARIANTS
  MarkedWhileStored
PROPERTIES
  EventuallyPurged
