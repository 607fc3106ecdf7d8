\* Two requests at a time on one account: its owner, its admins, OIDC, failures, the operator.
SPECIFICATION Spec
CONSTANTS
  Emails = {boot}
  Passwords = {p}
  Codes = {k1, k2}
  NoPassword = NoPassword
  NoCode = NoCode
  Clients = {c1, c2}
  Ops = {"update", "delete", "password", "setup", "confirm", "disable", "codes", "login", "oidc", "operator"}
  Bootstrap = boot
  SeedAdmin = FALSE
  SeedPassword = p
  HasOIDC = TRUE
  StoreFails = TRUE
SYMMETRY Symmetric
INVARIANTS
  TypeOK
  AdminsWereGranted
  CodesNeedFactor
