\* One request at a time, with failures and restarts, on three addresses.
SPECIFICATION Spec
CONSTANTS
  Emails = {boot, bob, eve}
  Passwords = {p}
  Codes = {}
  NoPassword = NoPassword
  NoCode = NoCode
  Clients = {c1}
  Ops = {"create", "update", "delete", "email", "password", "login"}
  Bootstrap = boot
  SeedAdmin = TRUE
  SeedPassword = p
  HasOIDC = FALSE
  StoreFails = TRUE
SYMMETRY Symmetric
PROPERTIES
  EnabledAdminRemains
  NoAccountLost
  ImplementsDirectory
