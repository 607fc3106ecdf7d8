\* Two admins demote each other at the same time.
SPECIFICATION Spec
CONSTANTS
  Emails = {boot, bob}
  Passwords = {p}
  Codes = {}
  NoPassword = NoPassword
  NoCode = NoCode
  Clients = {c1, c2}
  Ops = {"update", "operator"}
  Bootstrap = boot
  SeedAdmin = TRUE
  SeedPassword = p
  HasOIDC = FALSE
  StoreFails = FALSE
SYMMETRY Symmetric
PROPERTIES
  EnabledAdminRemains
