\* Two requests racing on one link, with a crash and a failing transaction.
SPECIFICATION Spec
CONSTANTS
  Ids = {i1, noid}
  Mistyped = noid
  Clients = {c1, c2}
  AuthEnabled = TRUE
  GateAll = FALSE
  MaxViews = 3
  MaxTTL = 1
  Horizon = 2
  MaxCrashes = 1
  MaxErrors = 1
SYMMETRY Symmetric
INVARIANTS
  TypeOK
  WithinBudget
  NoViewsCutShort
  PrivateOnceHandedOut
PROPERTIES
  LateRevealNeverBurns
  ImplementsViewBudget
  PrivateNeedsSession
  LiveSecretLeavesOnlyByReveal
