---------------------------- MODULE SignInProofs ----------------------------
(***************************************************************************)
(* Theorems about a server as it is configured, started and used to sign   *)
(* in: what ConfigProofs, OIDCFlowProofs and PasskeysProofs prove of its    *)
(* parts holds of the whole, whichever configuration it reads.              *)
(***************************************************************************)
EXTENDS SignIn, PasskeysProofs, OIDCFlowProofs, ConfigProofs

-----------------------------------------------------------------------------
(* Passkeys.                                                                *)

\* Of a server, a step is one of its passkeys, or leaves them alone.
LEMMA StepsOfPasskeys == [Next]_vars => [PasskeysNext]_passkeyVars
BY DEF Next, vars, ReadConfig, StartFails, Serve, PasskeyStep, OIDCStep

\* A server with any configuration, its other sign-in method included, implements Passkeys.
THEOREM ImplementsPasskeys == Spec => PasskeysSpec
<1>1. Init => PasskeysInit
  BY DEF Init
<1> QED BY <1>1, StepsOfPasskeys, PTL DEF Spec, PasskeysSpec

\* So, whatever the configuration, a passkey opens its owner's account, is stored under the
\* handle it was made for, signs in once with each assertion of a counting authenticator,
\* and is gone for good when an admin clears the account.
THEOREM PasskeysOfAServer ==
  Spec => [](SignInIsOwners /\ KeysUnderHandle /\ AssertionOnce /\ ClearEndsRegistrations)
<1> QED BY ImplementsPasskeys, SignInIsOwnersHolds, KeysUnderHandleHolds, AssertionOnceHolds,
  ClearEndsRegistrationsHolds, PTL

-----------------------------------------------------------------------------
(* Start-up.                                                                *)

\* Nobody signs in before the server serves.
NothingBegun ==
  /\ begun = {} /\ cookies = {} /\ expired = {} /\ urls = {} /\ spent = {}
  /\ callbacks = {} /\ sessions = {} /\ tried = {} /\ crossed = {}

\* The phases of a start: only a valid configuration is served.
Started ==
  /\ phase \in {"boot", "valid", "refused", "serving"}
  /\ local \in BOOLEAN
  /\ raw = NoConfig <=> phase = "serving"
  /\ phase # "serving" => raw \in RawConfigs /\ NothingBegun
  /\ phase = "valid" => Validate(Loaded)

ServerInv ==
  /\ Started
  /\ OIDCTypeOK
  /\ FlowInv

\* What is served has the types that the operators of Config expect.
LEMMA LoadedType ==
  ASSUME raw \in RawConfigs
  PROVE  Loaded \in Configs
  BY SignInAssumption, LoadType DEF Loaded

LEMMA ServerInit == Init => ServerInv
  <1> SUFFICES ASSUME Init PROVE ServerInv
    OBVIOUS
  <1>1. OIDCTypeOK /\ FlowInv
    BY OIDCTypeInit, FlowInit DEF Init
  <1>2. NothingBegun
    BY DEF Init, OIDCInit, NothingBegun
  <1>3. Started
    BY <1>2, SignInAssumption DEF Init, Started
  <1> QED BY <1>1, <1>3 DEF ServerInv

LEMMA ServerNext == ServerInv /\ [Next]_vars => ServerInv'
  <1> SUFFICES ASSUME ServerInv, [Next]_vars PROVE ServerInv'
    OBVIOUS
  <1> USE DEF flowVars, idp
  <1>1. CASE ReadConfig
    <2>1. /\ (phase' = "valid" /\ Validate(Loaded)) \/ phase' = "refused"
          /\ phase = "boot" /\ UNCHANGED <<raw, local, flowVars>>
      BY <1>1 DEF ReadConfig
    <2>2. Loaded' = Loaded
      BY <2>1 DEF Loaded
    <2>3. Started'
      BY <2>1, <2>2 DEF ServerInv, Started, NothingBegun
    <2>4. OIDCTypeOK' /\ FlowInv'
      BY <2>1, FlowQuiet DEF ServerInv, OIDCTypeOK, flowState
    <2> QED BY <2>3, <2>4 DEF ServerInv
  <1>2. CASE StartFails
    <2>1. Started'
      BY <1>2 DEF StartFails, ServerInv, Started, NothingBegun
    <2>2. OIDCTypeOK' /\ FlowInv'
      BY <1>2, FlowQuiet DEF StartFails, ServerInv, OIDCTypeOK, flowState
    <2> QED BY <2>1, <2>2 DEF ServerInv
  <1>3. CASE Serve
    <2>1. /\ phase' = "serving" /\ raw' = NoConfig /\ local' \in BOOLEAN
          /\ UNCHANGED <<begun, cookies, expired, urls, spent, callbacks, sessions, tried,
                         crossed>>
      <3>1. phase = "valid"
        BY <1>3 DEF Serve
      <3>2. Current.auth.enabled \in BOOLEAN /\ Current.auth.localLogin \in BOOLEAN
        <4>1. Loaded \in Configs
          BY <3>1, LoadedType DEF ServerInv, Started
        <4>2. /\ Loaded.auth \in AuthConfig
              /\ Current.auth = IF Loaded.auth.enabled THEN NormalAuth(Loaded.auth)
                                ELSE Loaded.auth
          BY <4>1, NormalLimits DEF Current, Configs
        <4> QED BY <4>2 DEF NormalAuth, AuthConfig
      <3> QED BY <1>3, <3>2 DEF Serve
    <2>2. NothingBegun
      BY <1>3 DEF Serve, ServerInv, Started
    <2>3. Started'
      BY <2>1 DEF Started
    <2>4. OIDCTypeOK'
      BY <2>1, <2>2 DEF NothingBegun, OIDCTypeOK
    <2>5. FlowInv'
      BY <2>1, FlowQuiet DEF ServerInv, flowState
    <2> QED BY <2>3, <2>4, <2>5 DEF ServerInv
  <1>4. CASE PasskeyStep
    <2>1. Started'
      BY <1>4 DEF PasskeyStep, ServerInv, Started
    <2>2. OIDCTypeOK' /\ FlowInv'
      BY <1>4, FlowQuiet DEF PasskeyStep, ServerInv, OIDCTypeOK, flowState
    <2> QED BY <2>1, <2>2 DEF ServerInv
  <1>5. CASE OIDCStep
    <2>1. Started'
      BY <1>5 DEF OIDCStep, ServerInv, Started
    <2>2. OIDCTypeOK' /\ FlowInv'
      BY <1>5, OIDCTypeNext, FlowNext DEF OIDCStep, ServerInv
    <2> QED BY <2>1, <2>2 DEF ServerInv
  <1>6. CASE UNCHANGED vars
    <2>1. UNCHANGED <<phase, raw, local, flowVars>>
      BY <1>6 DEF vars
    <2>2. Started'
      BY <2>1 DEF ServerInv, Started, NothingBegun, Loaded
    <2>3. OIDCTypeOK' /\ FlowInv'
      BY <2>1, FlowQuiet DEF ServerInv, OIDCTypeOK, flowState
    <2> QED BY <2>2, <2>3 DEF ServerInv
  <1> QED BY <1>1, <1>2, <1>3, <1>4, <1>5, <1>6 DEF Next

\* The inductive invariant holds in every reachable state.
THEOREM ServerInvariant == Spec => []ServerInv
  BY ServerInit, ServerNext, PTL DEF Spec

\* A valid configuration is one that was read, with every check passed.
LEMMA ValidConfig ==
  ASSUME ServerInv, Valid
  PROVE  /\ Loaded \in Configs /\ Validate(Loaded)
         /\ Current = Normal(Loaded)
  BY LoadedType DEF ServerInv, Started, Valid, Current

-----------------------------------------------------------------------------
(* The types, and what the other modules take for granted of a configuration. *)

\* Every variable keeps its type, and an accepted configuration has positive limits and
\* one of the two gates: what SecretShare, FileShare and Accounts assume of their constants.
THEOREM ServerTypes == Spec => []TypeOK
  <1>1. ServerInv /\ PasskeysTypeOK => TypeOK
    <2> SUFFICES ASSUME ServerInv, Valid
                 PROVE  /\ Current.secrets.maxSize > 0 /\ Current.secrets.maxViews > 0
                        /\ Current.files.maxSize > 0
                        /\ Current.auth.enabled =>
                             Current.auth.gate \in {Text("create"), Text("all")}
      BY DEF TypeOK, ServerInv, Started
    <2>1. Loaded \in Configs /\ Current = Normal(Loaded)
      BY ValidConfig
    <2>2. /\ Loaded.secrets.maxSize \in Int /\ Loaded.secrets.maxViews \in Int
          /\ Loaded.files.maxSize \in Int /\ Loaded.auth \in AuthConfig
      BY <2>1 DEF Configs, SecretsConfig
    <2>3. /\ Current.secrets.maxSize > 0 /\ Current.secrets.maxViews > 0
          /\ Current.files.maxSize > 0
      BY <2>1, <2>2, NormalLimits
    <2>4. ASSUME Current.auth.enabled
          PROVE  Current.auth.gate \in {Text("create"), Text("all")}
      <3>1. Current.auth = IF Loaded.auth.enabled THEN NormalAuth(Loaded.auth) ELSE Loaded.auth
        BY <2>1, NormalLimits
      <3>2. Loaded.auth.enabled
        BY <2>4, <3>1
      <3> QED BY <2>2, <3>1, <3>2, NormalAuthFields
    <2> QED BY <2>3, <2>4
  <1>2. Spec => []PasskeysTypeOK
    <2>1. Typed => PasskeysTypeOK
      BY DEF Typed
    <2> QED BY <2>1, ImplementsPasskeys, TypedHolds, PTL
  <1> QED BY <1>1, <1>2, ServerInvariant, PTL

-----------------------------------------------------------------------------
(* Limits and providers.                                                    *)

\* Every lifetime the interface offers is accepted by resolveTTL, in whatever way the
\* configuration was written and loaded.
THEOREM EveryPreset == Spec => []EveryPresetWorks
  <1>1. ServerInv => EveryPresetWorks
    <2> SUFFICES ASSUME ServerInv, Valid,
                        NEW t \in Current.secrets.allowedTTLs
                                    \cup {Current.secrets.defaultTTL, Blank}
                 PROVE  resolveTTL(Current, t) # Refused
      BY DEF EveryPresetWorks
    <2>1. Loaded \in Configs /\ Validate(Loaded) /\ Current = Normal(Loaded)
      BY ValidConfig
    <2>2. ValidateTTLs(Loaded.secrets)
      BY <2>1 DEF Validate
    <2> QED BY <2>1, <2>2, PresetsResolve
  <1> QED BY <1>1, ServerInvariant, PTL

\* A file of the largest size that is accepted passes the body limit of the server,
\* whatever the limits are.
THEOREM FilesFitHolds == Spec => []FilesFitTheBody
  <1>1. ServerInv => FilesFitTheBody
    <2> SUFFICES ASSUME ServerInv, Valid,
                        NEW size \in {Current.files.maxSize, Current.files.maxSize - 1},
                        Current.files.enabled, AcceptsFile(Current, size)
                 PROVE  size <= BodyLimit(Current)
      BY DEF FilesFitTheBody
    <2>1. Loaded \in Configs /\ Current = Normal(Loaded)
      BY ValidConfig
    <2>2. Current.files.maxSize \in Int
      BY <2>1, NormalLimits DEF Configs
    <2> QED BY <2>1, <2>2, FilesFit
  <1> QED BY <1>1, ServerInvariant, PTL

\* Each configured provider is the one its callback URL leads to.
THEOREM CallbacksReach == Spec => []CallbacksReachTheirProvider
  <1>1. ServerInv => CallbacksReachTheirProvider
    <2> SUFFICES ASSUME ServerInv, Valid, Current.auth.enabled,
                        NEW p \in ToSet(Current.auth.oidc)
                 PROVE  Registry(Current)[p.redirect] = p
      BY DEF CallbacksReachTheirProvider
    <2>1. /\ Loaded \in Configs /\ Validate(Loaded) /\ Current = Normal(Loaded)
          /\ Loaded.auth \in AuthConfig
      BY ValidConfig DEF Configs
    <2>2. Current.auth = IF Loaded.auth.enabled THEN NormalAuth(Loaded.auth) ELSE Loaded.auth
      BY <2>1, NormalLimits
    <2>3. Loaded.auth.enabled
      BY <2>2
    <2>4. DOMAIN Current.auth.oidc = DOMAIN Loaded.auth.oidc
      BY <2>1, <2>2, <2>3, NormalAuthFields
    <2>5. PICK i \in DOMAIN Loaded.auth.oidc : p = Current.auth.oidc[i]
      BY <2>4 DEF ToSet
    <2>6. validateAuth(Loaded.auth)
      BY <2>1, <2>3 DEF Validate
    <2> QED BY <2>1, <2>3, <2>5, <2>6, RegistryFinds
  <1> QED BY <1>1, ServerInvariant, PTL

-----------------------------------------------------------------------------
(* Admission.                                                               *)

\* What a normalised provider makes of a person is what its lists say as they were written.
LEMMA RulesMeant ==
  ASSUME NEW p \in OIDCProviderConfig, validateOIDCProvider(p), NEW c \in Tokens
  PROVE  Outcome(NormalProvider(p), c) = AsWritten(p, c)
  <1> DEFINE n == NormalProvider(p)
             groups == extractGroups(c, Trim(p.groupsClaim))
             domain == DomainOf[c.email.name]
             Listed(list, name) == \E u \in list : u.name = name /\ ~IsBlank(u)
             Of(list) == anyGroupMatch(groups, lowerTrimAll(list))
  <1>1. /\ p.allowedEmails \in SUBSET Texts /\ p.adminEmails \in SUBSET Texts
        /\ p.allowedDomains \in SUBSET Texts
        /\ p.adminGroups \in SUBSET Texts /\ p.userGroups \in SUBSET Texts
        /\ p.defaultRole \in Texts
    BY DEF OIDCProviderConfig
  <1>2. c.email \in Texts /\ groups \in SUBSET Texts
    BY SignInAssumption DEF extractGroups
  <1>3. Email(c).name = c.email.name
    BY <1>1, <1>2, EmailListed DEF Text
  <1>4. /\ Email(c) \in n.allowedEmails <=> Named(p.allowedEmails, c.email)
        /\ Email(c) \in n.adminEmails <=> Named(p.adminEmails, c.email)
    BY <1>1, <1>2, EmailListed, NormalProviderFields DEF Named
  <1>5. Text(DomainOf[Email(c).name]) \in n.allowedDomains
          <=> Named(p.allowedDomains, Text(domain))
    <2>1. Text(domain) \in lowerTrimAll(p.allowedDomains) <=> Listed(p.allowedDomains, domain)
      BY <1>1, NormalList
    <2>2. Text(domain).name = domain
      BY DEF Text
    <2> QED BY <1>3, <2>1, <2>2, NormalProviderFields DEF Named
  <1>6. /\ Of(p.adminGroups) <=> InGroups(p, c, p.adminGroups)
        /\ Of(p.userGroups) <=> InGroups(p, c, p.userGroups)
    BY <1>1, <1>2, GroupListed DEF InGroups, Named
  <1>7. /\ n.adminGroups = lowerTrimAll(p.adminGroups)
        /\ n.userGroups = lowerTrimAll(p.userGroups)
        /\ extractGroups(c, n.groupsClaim) = groups
        /\ n.verified = p.verified
    BY NormalProviderFields
  <1>8. n.allowedEmails \cup n.adminEmails \cup n.allowedDomains \cup n.adminGroups
          \cup n.userGroups = {} <=> Entries(p) = {}
    <2>1. /\ n.allowedEmails = {} <=> \A u \in p.allowedEmails : IsBlank(u)
          /\ n.adminEmails = {} <=> \A u \in p.adminEmails : IsBlank(u)
          /\ n.allowedDomains = {} <=> \A u \in p.allowedDomains : IsBlank(u)
          /\ n.adminGroups = {} <=> \A u \in p.adminGroups : IsBlank(u)
          /\ n.userGroups = {} <=> \A u \in p.userGroups : IsBlank(u)
      BY <1>1, EmptyList, NormalProviderFields
    <2> HIDE DEF n
    <2> QED BY <2>1 DEF Entries
  <1>9. n.defaultRole.name = p.defaultRole.name
    <2>1. Lower(Trim(p.defaultRole)) = Text(p.defaultRole.name)
      BY <1>1, NormalText
    <2> QED BY <2>1, NormalProviderFields DEF Text
  <1>10. p.defaultRole.name \in {"", "none", "admin", "user"}
    <2>1. Lower(Trim(p.defaultRole)).name = p.defaultRole.name
      BY <1>9, NormalProviderFields
    <2> QED BY <2>1 DEF validateOIDCProvider
  <1> DEFINE verified == p.verified # "false" => c.verified
             pinned == Named(p.adminEmails, c.email)
             admins == InGroups(p, c, p.adminGroups)
             users == InGroups(p, c, p.userGroups)
             others == \/ Named(p.allowedEmails, c.email) \/ Entries(p) = {}
                       \/ Named(p.allowedDomains, Text(domain))
             default == p.defaultRole.name
  <1>11. Admit(n, c) <=> verified /\ (pinned \/ admins \/ users \/ others)
    <2>1. anyGroupMatch(groups, n.adminGroups \cup n.userGroups) <=> admins \/ users
      BY <1>6, <1>7, GroupInEither
    <2> HIDE DEF n
    <2> QED BY <1>4, <1>5, <1>7, <1>8, <2>1 DEF Admit
  <1>12. RoleFor(n, c) = IF pinned THEN "pin" ELSE IF admins THEN "admin"
                         ELSE IF users THEN "user"
                         ELSE IF default \in {"admin", "user"} THEN default ELSE "none"
    <2> HIDE DEF n
    <2> QED BY <1>4, <1>6, <1>7, <1>9 DEF RoleFor
  <1>13. AsWritten(p, c) = IF ~verified THEN "none" ELSE IF pinned THEN "pin"
                           ELSE IF admins THEN "admin" ELSE IF users THEN "user"
                           ELSE IF others /\ default # "" THEN default ELSE "none"
    BY DEF AsWritten, IsBlank
  <1> HIDE DEF n, verified, pinned, admins, users, others, default
  <1>14. default \in {"", "none", "admin", "user"}
    BY <1>10 DEF default
  <1> QED BY <1>11, <1>12, <1>13, <1>14 DEF Outcome, n

\* People get exactly the role the file's lists give them, whichever capitals, spaces and
\* blank entries it is written with.
THEOREM RulesHold == Spec => []RulesAsWritten
  <1>1. ServerInv => RulesAsWritten
    <2> SUFFICES ASSUME ServerInv, Valid, Current.auth.enabled,
                        NEW i \in DOMAIN Loaded.auth.oidc, NEW c \in Tokens
                 PROVE  Outcome(Current.auth.oidc[i], c) = AsWritten(Loaded.auth.oidc[i], c)
      BY DEF RulesAsWritten
    <2>1. /\ Loaded \in Configs /\ Validate(Loaded) /\ Current = Normal(Loaded)
          /\ Loaded.auth \in AuthConfig
      BY ValidConfig DEF Configs
    <2>2. Current.auth = IF Loaded.auth.enabled THEN NormalAuth(Loaded.auth) ELSE Loaded.auth
      BY <2>1, NormalLimits
    <2>3. Loaded.auth.enabled
      BY <2>2
    <2>4. /\ Current.auth.oidc[i] = NormalProvider(Loaded.auth.oidc[i])
          /\ Loaded.auth.oidc[i] \in OIDCProviderConfig
      <3>1. NormalAuth(Loaded.auth).oidc
              = [j \in DOMAIN Loaded.auth.oidc |-> NormalProvider(Loaded.auth.oidc[j])]
        BY <2>1, NormalAuthFields
      <3>2. Loaded.auth.oidc[i] \in OIDCProviderConfig
        BY <2>1, NormalAuthFields
      <3> QED BY <2>2, <2>3, <3>1, <3>2
    <2>5. validateOIDCProvider(Loaded.auth.oidc[i])
      BY <2>1, <2>3 DEF Validate, validateAuth
    <2> QED BY <2>4, <2>5, RulesMeant
  <1> QED BY <1>1, ServerInvariant, PTL

-----------------------------------------------------------------------------
(* OIDC flows.                                                              *)

\* Nobody is signed in by a flow that another browser started, wherever, whenever and
\* however often callbacks are delivered.
THEOREM OwnFlow == Spec => []SessionForOwnFlow
  BY ServerInvariant, PTL DEF ServerInv, FlowInv

\* A callback at the wrong browser is refused before its code is exchanged.
THEOREM CodeKept == Spec => []MisdirectedCallbackKeepsCode
  BY ServerInvariant, PTL DEF ServerInv, FlowInv

\* A flow signs in with one code only, unless two of its callbacks are handled at once.
THEOREM FlowOnce == Spec => []FlowSignsInOnce
  BY ServerInvariant, PTL DEF ServerInv, FlowInv

=============================================================================
