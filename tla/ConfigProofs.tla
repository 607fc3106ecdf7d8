---------------------------- MODULE ConfigProofs ----------------------------
(***************************************************************************)
(* What Config computes, for every configuration an operator can write:    *)
(* what start-up accepts, what the handlers later make of it and what its  *)
(* author meant agree. SignInProofs puts these facts on the way a server   *)
(* starts.                                                                  *)
(***************************************************************************)
EXTENDS Config, TLAPS

-----------------------------------------------------------------------------
(* Texts and lists of texts.                                                *)

\* Validation leaves of a text what it names.
LEMMA NormalText ==
  ASSUME NEW t \in Texts
  PROVE  /\ Trim(t) \in Texts /\ Trim(t).name = t.name
         /\ Lower(t) \in Texts /\ Lower(t).name = t.name
         /\ Lower(Trim(t)) = Text(t.name)
         /\ Lower(t) = Text(t.name) <=> t.form # "padded"
  BY DEF Texts, Trim, Lower, Text

\* A normalised list has the names of the entries that are not blank.
LEMMA NormalList ==
  ASSUME NEW list \in SUBSET Texts
  PROVE  /\ lowerTrimAll(list) = {Text(t.name) : t \in {u \in list : ~IsBlank(u)}}
         /\ lowerTrimAll(list) \in SUBSET Texts
         /\ \A name : Text(name) \in lowerTrimAll(list)
                        <=> \E u \in list : u.name = name /\ ~IsBlank(u)
  <1>1. \A t \in {u \in list : ~IsBlank(u)} : Lower(Trim(t)) = Text(t.name)
    BY NormalText
  <1>2. lowerTrimAll(list) = {Text(t.name) : t \in {u \in list : ~IsBlank(u)}}
    BY <1>1 DEF lowerTrimAll
  <1>3. \A a, b : Text(a) = Text(b) => a = b
    BY DEF Text
  <1>4. \A t \in list : Text(t.name) \in Texts
    BY DEF Text, Texts
  <1> QED BY <1>2, <1>3, <1>4

-----------------------------------------------------------------------------
(* Loading and normalising keep the types.                                  *)

LEMMA NoProviderType ==
  ASSUME NEW id \in Texts
  PROVE  NoProvider(id) \in OIDCProviderConfig
  BY NamesAssumption DEF NoProvider, OIDCProviderConfig, Texts, NoText, Text

LEMMA OverrideType ==
  ASSUME NEW p \in OIDCProviderConfig, NEW env, Environment(env)
  PROVE  applyOIDCEnvOverrides(p, env.vars) \in OIDCProviderConfig
  <1> DEFINE v == Infix[p.id.name]
             vars == env.vars
             set == vars[v]
             q == [f \in DOMAIN NoProvider(NoText) |->
                     IF f \in DOMAIN set THEN set[f] ELSE NoProvider(NoText)[f]]
  <1>1. CASE v \notin DOMAIN vars
    BY <1>1 DEF applyOIDCEnvOverrides
  <1>2. CASE v \in DOMAIN vars
    <2>1. q \in OIDCProviderConfig
      BY <1>2 DEF Environment
    <2>2. applyOIDCEnvOverrides(p, vars)
            = [f \in DOMAIN p |-> IF f \notin DOMAIN set THEN p[f]
                                  ELSE IF f = "given" THEN p.given \cup set.given
                                  ELSE set[f]]
      BY <1>2 DEF applyOIDCEnvOverrides
    <2>3. \A f \in DOMAIN NoProvider(NoText) : f \in DOMAIN set => q[f] = set[f]
      OBVIOUS
    <2>4. /\ DOMAIN NoProvider(NoText) = DOMAIN p
          /\ DOMAIN p = {"id", "given", "redirect", "groupsClaim", "defaultRole", "verified",
                         "allowedDomains", "allowedEmails", "adminEmails", "adminGroups",
                         "userGroups"}
      BY DEF OIDCProviderConfig, NoProvider
    <2> HIDE DEF set, q
    <2>5. \A f \in DOMAIN p : f \in DOMAIN set => set[f] = q[f]
      BY <2>3, <2>4
    <2>6. "given" \in DOMAIN set => p.given \cup set.given \in SUBSET {"issuer", "client_id", "client_secret"}
      BY <2>1, <2>4, <2>5 DEF OIDCProviderConfig
    <2>7. applyOIDCEnvOverrides(p, vars)
            = [f \in DOMAIN p |-> IF f \notin DOMAIN set THEN p[f]
                                  ELSE IF f = "given" THEN p.given \cup set.given
                                  ELSE q[f]]
      BY <2>2, <2>5
    <2> QED BY <2>1, <2>4, <2>6, <2>7 DEF OIDCProviderConfig
  <1> QED BY <1>1, <1>2

\* The file and the environment together make a configuration.
LEMMA LoadType ==
  ASSUME NEW file \in Configs, NEW env, Environment(env)
  PROVE  Load(file, env) \in Configs
  <1> DEFINE listed == IF env.providers # <<>>
                         THEN [i \in DOMAIN env.providers |-> NoProvider(env.providers[i])]
                         ELSE file.auth.oidc
             oidc == [i \in DOMAIN listed |-> applyOIDCEnvOverrides(listed[i], env.vars)]
  <1>1. /\ env.providers \in Seq(Texts) /\ file.auth \in AuthConfig
        /\ file.auth.oidc \in Seq(OIDCProviderConfig)
    BY DEF Environment, Configs, AuthConfig
  <1>2. listed \in Seq(OIDCProviderConfig)
    BY <1>1, NoProviderType
  <1> HIDE DEF listed
  <1>3. oidc \in Seq(OIDCProviderConfig)
    BY <1>2, OverrideType
  <1>4. Load(file, env) = [file EXCEPT !.auth.oidc = oidc]
    BY DEF Load, listed
  <1> HIDE DEF oidc
  <1>5. [file.auth EXCEPT !.oidc = oidc] \in AuthConfig
    BY <1>1, <1>3 DEF AuthConfig
  <1>6. [file EXCEPT !.auth.oidc = oidc] = [file EXCEPT !.auth = [file.auth EXCEPT !.oidc = oidc]]
    BY DEF Configs
  <1> QED BY <1>4, <1>5, <1>6 DEF Configs

-----------------------------------------------------------------------------
(* What Validate writes.                                                    *)

\* The limits of an accepted configuration. Lifetimes stay as they are.
LEMMA NormalLimits ==
  ASSUME NEW c \in Configs
  PROVE  /\ Normal(c).secrets.maxSize = IF c.secrets.maxSize <= 0 THEN 64 ELSE c.secrets.maxSize
         /\ Normal(c).secrets.maxViews = IF c.secrets.maxViews < 1 THEN 1 ELSE c.secrets.maxViews
         /\ Normal(c).files.maxSize = IF c.files.maxSize <= 0 THEN 5120 ELSE c.files.maxSize
         /\ Normal(c).files.enabled = c.files.enabled
         /\ Normal(c).secrets.maxTTL = c.secrets.maxTTL
         /\ Normal(c).secrets.defaultTTL = c.secrets.defaultTTL
         /\ Normal(c).secrets.allowedTTLs = c.secrets.allowedTTLs
         /\ Normal(c).auth = IF c.auth.enabled THEN NormalAuth(c.auth) ELSE c.auth
  BY DEF Normal, Configs, SecretsConfig

LEMMA NormalAuthFields ==
  ASSUME NEW a \in AuthConfig
  PROVE  /\ NormalAuth(a).enabled = a.enabled
         /\ NormalAuth(a).gate \in {Text("create"), Text("all")}
         /\ NormalAuth(a).oidc = [i \in DOMAIN a.oidc |-> NormalProvider(a.oidc[i])]
         /\ \A i \in DOMAIN a.oidc : a.oidc[i] \in OIDCProviderConfig
  BY DEF NormalAuth, AuthConfig

LEMMA NormalProviderFields ==
  ASSUME NEW p \in OIDCProviderConfig
  PROVE  /\ NormalProvider(p).id = Trim(p.id)
         /\ NormalProvider(p).redirect = p.redirect
         /\ NormalProvider(p).verified = p.verified
         /\ NormalProvider(p).groupsClaim = Trim(p.groupsClaim)
         /\ NormalProvider(p).defaultRole = Lower(Trim(p.defaultRole))
         /\ NormalProvider(p).allowedDomains = lowerTrimAll(p.allowedDomains)
         /\ NormalProvider(p).allowedEmails = lowerTrimAll(p.allowedEmails)
         /\ NormalProvider(p).adminEmails = lowerTrimAll(p.adminEmails)
         /\ NormalProvider(p).adminGroups = lowerTrimAll(p.adminGroups)
         /\ NormalProvider(p).userGroups = lowerTrimAll(p.userGroups)
  BY DEF NormalProvider, OIDCProviderConfig

-----------------------------------------------------------------------------
(* Limits.                                                                  *)

\* Start-up's checks of the lifetimes are the ones resolveTTL repeats.
LEMMA PresetsResolve ==
  ASSUME NEW c \in Configs, ValidateTTLs(c.secrets),
         NEW t \in Normal(c).secrets.allowedTTLs \cup {Normal(c).secrets.defaultTTL, Blank}
  PROVE  resolveTTL(Normal(c), t) # Refused
  <1>1. /\ c.secrets.maxTTL \in Int /\ c.secrets.defaultTTL \in Int
        /\ \A u \in c.secrets.allowedTTLs : u \in Int
    BY DEF Configs, SecretsConfig
  <1>2. /\ Normal(c).secrets.maxTTL = c.secrets.maxTTL
        /\ Normal(c).secrets.defaultTTL = c.secrets.defaultTTL
        /\ Normal(c).secrets.allowedTTLs = c.secrets.allowedTTLs
    BY NormalLimits
  <1>3. /\ MaxTTLDuration(Normal(c)) = c.secrets.maxTTL
        /\ DefaultTTLDuration(Normal(c)) = c.secrets.defaultTTL
    BY <1>1, <1>2 DEF ValidateTTLs, MaxTTLDuration, DefaultTTLDuration, mustDur
  <1>4. t = Blank \/ (t \in Int /\ t > 0 /\ t <= c.secrets.maxTTL)
    BY <1>1, <1>2 DEF ValidateTTLs
  <1> QED BY <1>1, <1>3, <1>4 DEF resolveTTL, ValidateTTLs, Refused

\* Whatever its size, a file that Create accepts is within the server's body limit.
LEMMA FilesFit ==
  ASSUME NEW c \in Configs, NEW size \in Int,
         Normal(c).files.enabled, AcceptsFile(Normal(c), size)
  PROVE  size <= BodyLimit(Normal(c))
  <1>1. Normal(c).files.maxSize \in Int
    BY NormalLimits DEF Configs
  <1> HIDE DEF Normal
  <1> QED BY <1>1 DEF AcceptsFile, BodyLimit

-----------------------------------------------------------------------------
(* The registry of providers.                                               *)

\* Ids that validation told apart name one provider each.
LEMMA IdsApart ==
  ASSUME NEW providers \in Seq(OIDCProviderConfig), DistinctIds(providers),
         \A i \in DOMAIN providers : validateOIDCProvider(providers[i]),
         NEW i \in DOMAIN providers, NEW j \in DOMAIN providers,
         Trim(providers[i].id).name = Trim(providers[j].id).name
  PROVE  i = j
  <1>0. \A k \in DOMAIN providers : providers[k] \in OIDCProviderConfig
    OBVIOUS
  <1>1. \A k \in DOMAIN providers :
          /\ providers[k].id \in Texts /\ providers[k].id.form # "shouted"
    <2>1. \A k \in DOMAIN providers : providers[k].id \in Texts
      BY <1>0 DEF OIDCProviderConfig
    <2>2. \A k \in DOMAIN providers : providers[k].id.form # "shouted"
      BY DEF validateOIDCProvider
    <2> QED BY <2>1, <2>2
  <1>2. \A k \in DOMAIN providers : Trim(providers[k].id) = Text(providers[k].id.name)
    BY <1>1 DEF Trim, Text, Texts
  <1>3. Trim(providers[i].id) = Trim(providers[j].id)
    <2>1. /\ Trim(providers[i].id).name = providers[i].id.name
          /\ Trim(providers[j].id).name = providers[j].id.name
      BY <1>1, NormalText
    <2> QED BY <1>2, <2>1
  <1> QED BY <1>3 DEF DistinctIds

\* Each provider is registered under the name its redirect URL leads to.
LEMMA RegistryFinds ==
  ASSUME NEW c \in Configs, c.auth.enabled, validateAuth(c.auth),
         NEW i \in DOMAIN c.auth.oidc
  PROVE  LET p == Normal(c).auth.oidc[i] IN Registry(Normal(c))[p.redirect] = p
  <1> DEFINE raw == c.auth.oidc
             oidc == Normal(c).auth.oidc
             p == oidc[i]
  <1>1. c.auth \in AuthConfig /\ raw \in Seq(OIDCProviderConfig)
    BY DEF Configs, AuthConfig
  <1>2. oidc = [k \in DOMAIN raw |-> NormalProvider(raw[k])]
    BY <1>1, NormalLimits, NormalAuthFields
  <1>3. \A k \in DOMAIN raw : raw[k] \in OIDCProviderConfig
    BY <1>1
  <1>4. \A k \in DOMAIN raw : oidc[k].id = Trim(raw[k].id) /\ oidc[k].redirect = raw[k].redirect
    BY <1>2, <1>3, NormalProviderFields
  <1>5. /\ DistinctIds(raw)
        /\ \A k \in DOMAIN raw : validateOIDCProvider(raw[k])
    BY DEF validateAuth
  <1>6. p.redirect = p.id.name
    <2>1. raw[i].redirect = raw[i].id.name
      BY <1>5 DEF validateOIDCProvider
    <2>2. raw[i].id \in Texts
      BY <1>3 DEF OIDCProviderConfig
    <2> QED BY <1>4, <2>1, <2>2, NormalText
  <1>7. DOMAIN oidc = DOMAIN raw
    BY <1>2
  <1>8. \A k \in DOMAIN oidc : oidc[k].id.name = p.id.name => k = i
    BY <1>1, <1>4, <1>5, <1>7, IdsApart
  <1>9. p.id.name \in {q.id.name : q \in ToSet(oidc)}
    BY <1>7 DEF ToSet
  <1> HIDE DEF oidc, raw
  <1> DEFINE IsLast(k) == /\ oidc[k].id.name = p.id.name
                        /\ \A j \in DOMAIN oidc : oidc[j].id.name = p.id.name => j <= k
  <1>10. (CHOOSE k \in DOMAIN oidc : IsLast(k)) = i
    <2>1. i \in DOMAIN oidc /\ i \in Nat
      BY <1>1, <1>7 DEF raw
    <2>2. IsLast(i)
      BY <1>8, <2>1
    <2>3. \A k \in DOMAIN oidc : IsLast(k) => k = i
      BY <1>8
    <2> HIDE DEF IsLast
    <2> QED BY <2>1, <2>2, <2>3
  <1>11. Registry(Normal(c)) =
           [id \in {q.id.name : q \in ToSet(oidc)} |->
              oidc[CHOOSE k \in DOMAIN oidc :
                     /\ oidc[k].id.name = id
                     /\ \A j \in DOMAIN oidc : oidc[j].id.name = id => j <= k]]
    BY DEF Registry, oidc
  <1>12. Registry(Normal(c))[p.id.name] = oidc[CHOOSE k \in DOMAIN oidc : IsLast(k)]
    BY <1>9, <1>11
  <1> QED BY <1>6, <1>10, <1>12 DEF oidc

-----------------------------------------------------------------------------
(* Admission: the lists that validation normalised against what was claimed. *)

\* An address is looked up by its name alone.
LEMMA EmailListed ==
  ASSUME NEW list \in SUBSET Texts, NEW claims, claims.email \in Texts
  PROVE  /\ Email(claims) = Text(claims.email.name)
         /\ Email(claims) \in lowerTrimAll(list)
              <=> \E u \in list : u.name = claims.email.name /\ ~IsBlank(u)
  <1>1. Email(claims) = Text(claims.email.name)
    BY NormalText DEF Email
  <1> QED BY <1>1, NormalList

\* A group is, too, except that spaces around it in the token count.
LEMMA GroupListed ==
  ASSUME NEW list \in SUBSET Texts, NEW groups \in SUBSET Texts
  PROVE  anyGroupMatch(groups, lowerTrimAll(list))
           <=> \E g \in groups : /\ g.form # "padded"
                                 /\ \E u \in list : u.name = g.name /\ ~IsBlank(u)
  <1>1. ASSUME NEW g \in groups
        PROVE  Lower(g) \in lowerTrimAll(list)
                 <=> g.form # "padded" /\ \E u \in list : u.name = g.name /\ ~IsBlank(u)
    <2>1. Lower(g) = Text(g.name) <=> g.form # "padded"
      BY NormalText
    <2>2. Lower(g).name = g.name
      BY NormalText
    <2>3. ASSUME Lower(g) \in lowerTrimAll(list)
          PROVE  Lower(g) = Text(g.name)
      <3>1. PICK u \in list : Lower(g) = Text(u.name)
        BY <2>3, NormalList
      <3> QED BY <2>2, <3>1 DEF Text
    <2> QED BY <2>1, <2>3, NormalList
  <1> QED BY <1>1 DEF anyGroupMatch

\* A union of two lists is matched by one of them.
LEMMA GroupInEither ==
  ASSUME NEW groups, NEW one, NEW other
  PROVE  anyGroupMatch(groups, one \cup other)
           <=> anyGroupMatch(groups, one) \/ anyGroupMatch(groups, other)
  BY DEF anyGroupMatch

\* A list is empty after normalisation if all its entries were blank.
LEMMA EmptyList ==
  ASSUME NEW list \in SUBSET Texts
  PROVE  lowerTrimAll(list) = {} <=> \A u \in list : IsBlank(u)
  BY NormalList

=============================================================================
