\* A private view served without a session.
SPECIFICATION Spec
CONSTANTS
  Ids = {i1, noid}
  Mistyped = noid
  Clients = {c1, c2}
  AuthEnabled = TRUE
  GateAll = FALSE
  MaxViews = 2
  MaxTTL = 1
  Horizon = 2
  MaxCrashes = 0
  MaxErrors = 0
SYMMETRY Symmetric
PROPERTIES
  PrivateNeverAnonymous
