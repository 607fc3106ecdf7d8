\* Two requests racing on two files, with a crash and a failing transaction; fair tickers.
SPECIFICATION FairSpec
CONSTANTS
  Ids = {f1, f2, noid}
  Mistyped = noid
  Clients = {c1, c2}
  AuthEnabled = TRUE
  GateAll = FALSE
  MaxTTL = 1
  Horizon = 3
  MaxCrashes = 1
  MaxErrors = 1
INVARIANTS
  TypeOK
PROPERTIES
  GuardedUnlessSwept
  LiveFileLeavesOnlyByReveal
  ImplementsViewBudget
  EventuallyPurged
