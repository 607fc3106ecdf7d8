------------------------------- MODULE Config -------------------------------
(***************************************************************************)
(* The configuration: how the file and the environment are put together,   *)
(* what start-up accepts, and what the request handlers later compute from *)
(* it. There are no variables here; SignIn reads a configuration with these *)
(* operators.                                                              *)
(*                                                                         *)
(* Texts keep what the code looks at. A duration is its number of minutes, *)
(* 0 for any text that is not a positive duration and Blank for none at    *)
(* all; a size is in KiB; a name of something is [name, form], where form  *)
(* says whether it is written in capitals or with spaces around it.        *)
(* Addresses, labels, scopes, log settings and proxies are left out.       *)
(***************************************************************************)
EXTENDS Integers, SequencesExt

CONSTANTS
  Names,     \* of people, groups, domains, providers, settings; "" for none
  DomainOf,  \* of an address: what follows its last "@"
  Infix      \* of a provider id: it in capitals, '-' replaced by '_'

ASSUME NamesAssumption == "" \in Names

Blank == -1
Refused == 0

Text(name) == [name |-> name, form |-> "plain"]
NoText == Text("")

\* strings.TrimSpace and strings.ToLower.
Trim(t)  == IF t.form = "padded" THEN Text(t.name) ELSE t
Lower(t) == IF t.form = "shouted" THEN Text(t.name) ELSE t
IsBlank(t) == t.name = ""

\* Wrong variant of lowerTrimAll: capitals stay.
TrimAll(list) == {Trim(t) : t \in {u \in list : ~IsBlank(u)}}

lowerTrimAll(list) == {Lower(Trim(t)) : t \in {u \in list : ~IsBlank(u)}}

-----------------------------------------------------------------------------
(* The structs of core/env/config.go: any values of these types are read.   *)

Texts == [name : Names, form : {"plain", "shouted", "padded"}]

OIDCProviderConfig ==
  [id : Texts, given : SUBSET {"issuer", "client_id", "client_secret"},
   redirect : Names, groupsClaim : Texts,
   defaultRole : Texts, verified : {"unset", "true", "false"},
   allowedDomains : SUBSET Texts, allowedEmails : SUBSET Texts,
   adminEmails : SUBSET Texts, adminGroups : SUBSET Texts, userGroups : SUBSET Texts]

AuthConfig ==
  [enabled : BOOLEAN, gate : Texts, secretLength : Nat, sessionTTL : Int,
   boot : [email : BOOLEAN, password : Nat], localLogin : BOOLEAN,
   oidc : Seq(OIDCProviderConfig)]

SecretsConfig ==
  [maxSize : Int, maxViews : Int, maxTTL : Int, defaultTTL : Int, allowedTTLs : SUBSET Int]

Configs ==
  [tls : [mode : Names, given : SUBSET {"cert", "key", "fqdn", "hosts"}, alg : Texts],
   sweepInterval : Int,
   secrets : SecretsConfig, auth : AuthConfig,
   metrics : [enabled : BOOLEAN, addr : BOOLEAN],
   files : [enabled : BOOLEAN, maxSize : Int]]

-----------------------------------------------------------------------------
(* Loading (core/env/config.go).                                            *)

\* A provider of which the environment gives only the id.
NoProvider(id) ==
  [id |-> id, given |-> {}, redirect |-> "", groupsClaim |-> NoText, defaultRole |-> NoText,
   verified |-> "unset", allowedDomains |-> {}, allowedEmails |-> {},
   adminEmails |-> {}, adminGroups |-> {}, userGroups |-> {}]

\* What the environment sets of a provider are fields of one, of their types.
Environment(env) ==
  /\ env.providers \in Seq(Texts)
  /\ \A v \in DOMAIN env.vars :
       [f \in DOMAIN NoProvider(NoText) |->
          IF f \in DOMAIN env.vars[v] THEN env.vars[v][f] ELSE NoProvider(NoText)[f]]
         \in OIDCProviderConfig

\* The variables SHARE_AUTH_OIDC_<infix>_* that are set replace what the file says;
\* vars maps an infix to them. "given" has the fields that only have to be there.
applyOIDCEnvOverrides(p, vars) ==
  LET id == Infix[p.id.name] IN
  IF id \notin DOMAIN vars THEN p
  ELSE [f \in DOMAIN p |-> IF f \notin DOMAIN vars[id] THEN p[f]
                           ELSE IF f = "given" THEN p.given \cup vars[id].given
                           ELSE vars[id][f]]

\* The environment lists the providers, or else the file does.
Load(file, env) ==
  LET listed == IF env.providers # <<>>
                  THEN [i \in DOMAIN env.providers |-> NoProvider(env.providers[i])]
                  ELSE file.auth.oidc
  IN [file EXCEPT !.auth.oidc =
        [i \in DOMAIN listed |-> applyOIDCEnvOverrides(listed[i], env.vars)]]

-----------------------------------------------------------------------------
(* Validation. Each check of the code is a conjunct: which of them speaks    *)
(* first only decides the message.                                          *)

\* tlsutils.ValidateConfig; Build makes the same checks again.
ValidateTLS(tls) ==
  \/ tls.mode \in {"", "none"}
  \/ tls.mode = "manual" /\ {"cert", "key"} \subseteq tls.given
  \/ tls.mode = "self" /\ "fqdn" \in tls.given
       /\ Lower(Trim(tls.alg)).name \in {"", "rsa", "ed25519"}
  \/ tls.mode = "acme" /\ "hosts" \in tls.given

\* An absolute https URL that ends with the callback of provider p: redirect names it.
validateOIDCProvider(p) ==
  /\ ~IsBlank(p.id) /\ p.id.form # "shouted"
  /\ {"issuer", "client_id", "client_secret"} \subseteq p.given
  /\ p.redirect = p.id.name
  /\ p.adminGroups \cup p.userGroups # {} => ~IsBlank(p.groupsClaim)
  /\ Lower(Trim(p.defaultRole)).name \in {"", "none", "admin", "user"}

\* Wrong variant of DistinctIds: the ids are compared as they were written.
DistinctRawIds(providers) ==
  \A i, j \in DOMAIN providers : providers[i].id = providers[j].id => i = j

\* seen: no id twice, spaces aside.
DistinctIds(providers) ==
  \A i, j \in DOMAIN providers : Trim(providers[i].id) = Trim(providers[j].id) => i = j

validateAuth(a) ==
  /\ Lower(Trim(a.gate)).name \in {"", "create", "all"}
  /\ a.secretLength >= 32
  /\ a.sessionTTL # Blank => a.sessionTTL > 0
  /\ a.boot.password # 0 => a.boot.password \in 8..72 /\ a.boot.email
  /\ \A i \in DOMAIN a.oidc : validateOIDCProvider(a.oidc[i])
  /\ DistinctIds(a.oidc)
  /\ a.oidc # <<>> \/ a.localLogin

\* Wrong variant of ValidateTTLs: presets are not held against the ceiling.
ValidateTTLsLoosely(s) ==
  /\ s.maxTTL > 0 /\ s.defaultTTL > 0 /\ s.defaultTTL <= s.maxTTL
  /\ \A t \in s.allowedTTLs : t > 0

ValidateTTLs(s) ==
  /\ s.maxTTL > 0 /\ s.defaultTTL > 0 /\ s.defaultTTL <= s.maxTTL
  /\ \A t \in s.allowedTTLs : t > 0 /\ t <= s.maxTTL

Validate(c) ==
  /\ ValidateTLS(c.tls)
  /\ c.sweepInterval # Blank => c.sweepInterval > 0
  /\ ValidateTTLs(c.secrets)
  /\ c.auth.enabled => validateAuth(c.auth)
  /\ c.metrics.enabled => c.metrics.addr

\* What Validate writes into a provider.
NormalProvider(p) ==
  [p EXCEPT !.id = Trim(@), !.groupsClaim = Trim(@), !.defaultRole = Lower(Trim(@)),
            !.allowedDomains = lowerTrimAll(@), !.allowedEmails = lowerTrimAll(@),
            !.adminEmails = lowerTrimAll(@), !.adminGroups = lowerTrimAll(@),
            !.userGroups = lowerTrimAll(@)]

NormalAuth(a) ==
  [a EXCEPT !.gate = IF Lower(Trim(@)).name = "all" THEN Text("all") ELSE Text("create"),
            !.oidc = [i \in DOMAIN @ |-> NormalProvider(@[i])]]

\* Wrong variant of Normal: max_views is taken as it is.
NormalAnyViews(c) ==
  [c EXCEPT !.secrets.maxSize = IF @ <= 0 THEN 64 ELSE @,
            !.files.maxSize   = IF @ <= 0 THEN 5120 ELSE @,
            !.auth            = IF @.enabled THEN NormalAuth(@) ELSE @]

\* What Validate writes into a configuration it accepts.
Normal(c) ==
  [c EXCEPT !.secrets.maxSize  = IF @ <= 0 THEN 64 ELSE @,
            !.secrets.maxViews = IF @ < 1 THEN 1 ELSE @,
            !.files.maxSize    = IF @ <= 0 THEN 5120 ELSE @,
            !.auth             = IF @.enabled THEN NormalAuth(@) ELSE @]

-----------------------------------------------------------------------------
(* What the running server makes of it.                                     *)

mustDur(text, default) == IF text > 0 THEN text ELSE default
MaxTTLDuration(c)     == mustDur(c.secrets.maxTTL, 168 * 60)
DefaultTTLDuration(c) == mustDur(c.secrets.defaultTTL, 24 * 60)

\* resolveTTL of the secrets handler; Create of the files handler repeats it.
resolveTTL(c, raw) ==
  IF raw = Blank THEN DefaultTTLDuration(c)
  ELSE IF raw > 0 /\ raw <= MaxTTLDuration(c) THEN raw
  ELSE Refused

\* Wrong variant of BodyLimit: files do not lift it.
BodyLimitFixed(c) == 2048

\* server.New: 2 MiB, lifted to the largest file and 1 MiB.
BodyLimit(c) ==
  IF c.files.enabled /\ c.files.maxSize + 1024 > 2048 THEN c.files.maxSize + 1024 ELSE 2048

\* secrets Create, of a ciphertext of this size in the request body.
AcceptsSecret(c, size) == size > 0 /\ size <= 2 * c.secrets.maxSize + 1

\* files Create.
AcceptsFile(c, size) == size > 0 /\ size <= c.files.maxSize

\* buildOIDCRegistry and NewRegistry: by id, a later one replaces an earlier one.
Registry(c) ==
  LET ids == {p.id.name : p \in ToSet(c.auth.oidc)} IN
  [id \in ids |-> c.auth.oidc[CHOOSE i \in DOMAIN c.auth.oidc :
                    /\ c.auth.oidc[i].id.name = id
                    /\ \A j \in DOMAIN c.auth.oidc : c.auth.oidc[j].id.name = id => j <= i]]

-----------------------------------------------------------------------------
(* Admission and role of a person with verified claims (core/oidc/allow.go). *)

\* The groups of the configured claim; it may be missing.
extractGroups(claims, claim) ==
  IF claim.name \in DOMAIN claims.groups THEN claims.groups[claim.name] ELSE {}

anyGroupMatch(groups, want) == \E g \in groups : Lower(g) \in want

Email(claims) == Lower(Trim(claims.email))

\* Any list that names the person admits; so does having no list.
Admit(p, claims) ==
  LET groups == extractGroups(claims, p.groupsClaim) IN
  /\ p.verified # "false" => claims.verified
  /\ \/ Email(claims) \in p.allowedEmails \cup p.adminEmails
     \/ Text(DomainOf[Email(claims).name]) \in p.allowedDomains
     \/ anyGroupMatch(groups, p.adminGroups \cup p.userGroups)
     \/ p.allowedEmails \cup p.adminEmails \cup p.allowedDomains
          \cup p.adminGroups \cup p.userGroups = {}

\* The role: "pin" is admin by admin_emails, "none" denies (Rules of Accounts).
RoleFor(p, claims) ==
  LET groups == extractGroups(claims, p.groupsClaim) IN
  IF Email(claims) \in p.adminEmails THEN "pin"
  ELSE IF anyGroupMatch(groups, p.adminGroups) THEN "admin"
  ELSE IF anyGroupMatch(groups, p.userGroups) THEN "user"
  ELSE IF p.defaultRole.name \in {"admin", "user"} THEN p.defaultRole.name
  ELSE "none"

\* What the callback makes of somebody the records do not know yet.
Outcome(p, claims) == IF Admit(p, claims) THEN RoleFor(p, claims) ELSE "none"

=============================================================================
