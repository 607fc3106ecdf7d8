\* Start-up with every configuration of the families; then passkeys on a server with local
\* sign-in, and OIDC on one with a provider.
SPECIFICATION Spec
CONSTANTS
  Names <- MCNames
  DomainOf <- MCDomainOf
  Infix <- MCInfix
  RawConfigs <- MCRawConfigs
  Served <- MCServed
  Tokens <- MCTokens
  Claims <- MCClaims
  NoConfig = NoConfig
  Owners = {o1, o2}
  Handles = {h1, h2}
  NoHandle = NoHandle
  Nobody = Nobody
  Keys = {k1}
  Counting = {k1}
  MaxCount = 1
  Challenges = {c1, c2, c3}
  Slots = {s1, s2}
  Idle = Idle
  Browsers = {b1, b2}
  Flows = {f1, f2}
  Logins = {l1, l2}
SYMMETRY Symmetric
CHECK_DEADLOCK FALSE
INVARIANTS
  TypeOK
  EveryPresetWorks
  FilesFitTheBody
  CallbacksReachTheirProvider
  RulesAsWritten
  SignInIsOwners
  KeysUnderHandle
  AssertionOnce
  ClearEndsRegistrations
  SessionForOwnFlow
  MisdirectedCallbackKeepsCode
  FlowSignsInOnce
