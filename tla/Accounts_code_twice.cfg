\* Two sign-ins with the same recovery code.
SPECIFICATION Spec
CONSTANTS
  Emails = {boot}
  Passwords = {p}
  Codes = {k1}
  NoPassword = NoPassword
  NoCode = NoCode
  Clients = {c1, c2}
  Ops = {"setup", "confirm", "login"}
  Bootstrap = boot
  SeedAdmin = TRUE
  SeedPassword = p
  HasOIDC = FALSE
  StoreFails = FALSE
SYMMETRY Symmetric
INVARIANTS
  CodeSpentOnce
