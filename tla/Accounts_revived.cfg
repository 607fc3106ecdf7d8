\* An account disabled during its owner's sign-in.
SPECIFICATION Spec
CONSTANTS
  Emails = {boot, bob}
  Passwords = {p}
  Codes = {}
  NoPassword = NoPassword
  NoCode = NoCode
  Clients = {c1, c2}
  Ops = {"delete", "login", "operator"}
  Bootstrap = boot
  SeedAdmin = TRUE
  SeedPassword = p
  HasOIDC = FALSE
  StoreFails = FALSE
SYMMETRY Symmetric
PROPERTIES
  WriteBackRevivesNobody
