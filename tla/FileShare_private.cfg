\* A private file loses its mark at the first visibility sweep.
SPECIFICATION Spec
CONSTANTS
  Ids = {f1, noid}
  Mistyped = noid
  Clients = {c1, c2}
  AuthEnabled = TRUE
  GateAll = FALSE
  MaxTTL = 1
  Horizon = 2
  MaxCrashes = 0
  MaxErrors = 0
SYMMETRY Symmetric
PROPERTIES
  PrivateFileNeedsSession
