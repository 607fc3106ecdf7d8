------------------------------- MODULE SignIn -------------------------------
(***************************************************************************)
(* The sign-in methods of a server that was started with a configuration:  *)
(* Config reads it, and then Passkeys and OIDCFlow run as far as their     *)
(* routes are mounted. Password sign-in is in Accounts.                    *)
(***************************************************************************)
EXTENDS Passkeys, OIDCFlow

CONSTANTS
  RawConfigs,  \* files with their environments, as operators write them
  Served,      \* bound: those whose server this instance also runs
  Tokens,      \* contents of ID tokens; Claims are those used to sign in
  NoConfig     \* the file, once it does not matter any more

ASSUME SignInAssumption ==
  /\ NoConfig \notin RawConfigs
  /\ \A r \in RawConfigs : r.file \in Configs /\ Environment(r.env)
  /\ \A c \in Tokens : /\ c.email \in Texts /\ c.verified \in BOOLEAN
                       /\ \A claim \in DOMAIN c.groups : c.groups[claim] \subseteq Texts

VARIABLES
  phase,  \* "boot", "valid", "refused" or "serving"
  raw,    \* the file and the environment
  local   \* whether the routes of local sign-in are mounted

vars == <<phase, raw, local, passkeyVars, flowVars>>

Init ==
  /\ phase = "boot" /\ raw \in RawConfigs /\ local = FALSE
  /\ PasskeysInit /\ OIDCInit

Loaded == Load(raw.file, raw.env)
Current == Normal(Loaded)

\* Load and Validate.
ReadConfig ==
  /\ phase = "boot"
  /\ phase' = IF Validate(Loaded) THEN "valid" ELSE "refused"
  /\ UNCHANGED <<raw, local, passkeyVars, flowVars>>

\* The rest of start-up: an issuer cannot be reached, a certificate not be read, the
\* database is locked, or there is no admin (Start of Accounts).
StartFails ==
  /\ phase = "valid"
  /\ phase' = "refused"
  /\ UNCHANGED <<raw, local, passkeyVars, flowVars>>

\* registerRoutes.
Serve ==
  /\ phase = "valid" /\ raw \in Served
  /\ phase' = "serving"
  /\ raw' = NoConfig
  /\ local' = (Current.auth.enabled /\ Current.auth.localLogin)
  /\ providers' = IF Current.auth.enabled THEN Registry(Current) ELSE providers
  /\ UNCHANGED <<passkeyVars, begun, cookies, expired, idp, callbacks, sessions, tried, crossed>>

\* Registering a passkey needs a password, which is taken to exist only where it can
\* be used to sign in.
PasskeyStep == /\ phase = "serving" /\ local /\ PasskeysNext
               /\ UNCHANGED <<phase, raw, local, flowVars>>

OIDCStep == /\ phase = "serving" /\ OIDCNext
            /\ UNCHANGED <<phase, raw, local, passkeyVars>>

Next == ReadConfig \/ StartFails \/ Serve \/ PasskeyStep \/ OIDCStep

Spec == Init /\ [][Next]_vars

-----------------------------------------------------------------------------
Valid == phase = "valid"

\* The last part: what the other modules take for granted of the values they are given.
TypeOK ==
  /\ phase \in {"boot", "valid", "refused", "serving"}
  /\ raw = NoConfig <=> phase = "serving"
  /\ local \in BOOLEAN
  /\ PasskeysTypeOK /\ OIDCTypeOK
  /\ Valid => /\ Current.secrets.maxSize > 0 /\ Current.secrets.maxViews > 0
              /\ Current.files.maxSize > 0
              /\ Current.auth.enabled => Current.auth.gate \in {Text("create"), Text("all")}

\* Every lifetime the interface offers is accepted when a secret or a file is created with
\* it: start-up's checks and resolveTTL agree on the ceiling and on what a duration is.
EveryPresetWorks ==
  Valid => \A t \in Current.secrets.allowedTTLs \cup {Current.secrets.defaultTTL, Blank} :
             resolveTTL(Current, t) # Refused

\* A file of any size that is accepted gets through the body limit of the whole server,
\* whatever the two limits are set to (server.New, files Create).
FilesFitTheBody ==
  Valid => \A size \in {Current.files.maxSize, Current.files.maxSize - 1} :
             Current.files.enabled /\ AcceptsFile(Current, size) => size <= BodyLimit(Current)

\* server/server.go:39-41: the body limit is "generous headroom above" the secrets' own
\* limit. The code does not lift it for secrets, so a secret that Create would accept is
\* refused by the server when max_size_bytes is about 1 MiB or more.
SecretsFitTheBody ==
  Valid => \A size \in {2 * Current.secrets.maxSize, 2 * Current.secrets.maxSize + 1} :
             AcceptsSecret(Current, size) => size <= BodyLimit(Current)

\* A callback URL leads back to the provider it was configured for, with its rules:
\* "IDs are assumed validated unique by config validation" (core/oidc/registry.go).
CallbacksReachTheirProvider ==
  Valid /\ Current.auth.enabled =>
    \A p \in ToSet(Current.auth.oidc) : Registry(Current)[p.redirect] = p

\* What a provider's lists say of a person, blank entries, and spaces and capitals in the
\* file and in the claims aside. (A group with spaces around it in the token is another
\* group.)
Named(list, t)    == \E u \in list : u.name = t.name /\ ~IsBlank(u)
InGroups(p, c, list) ==
  \E g \in extractGroups(c, Trim(p.groupsClaim)) : g.form # "padded" /\ Named(list, g)
Entries(p) == {t \in p.allowedEmails \cup p.adminEmails \cup p.allowedDomains
                       \cup p.adminGroups \cup p.userGroups : ~IsBlank(t)}

AsWritten(p, c) ==
  IF p.verified # "false" /\ ~c.verified THEN "none"
  ELSE IF Named(p.adminEmails, c.email) THEN "pin"
  ELSE IF InGroups(p, c, p.adminGroups) THEN "admin"
  ELSE IF InGroups(p, c, p.userGroups) THEN "user"
  ELSE IF /\ \/ Named(p.allowedEmails, c.email) \/ Entries(p) = {}
             \/ Named(p.allowedDomains, Text(DomainOf[c.email.name]))
          /\ ~IsBlank(p.defaultRole)
    THEN p.defaultRole.name
  ELSE "none"

\* People are admitted, and get the role, that the lists of the configuration give them,
\* however they are written: validation's normalisation, Admit and RoleFor fit together.
RulesAsWritten ==
  Valid /\ Current.auth.enabled =>
    \A i \in DOMAIN Loaded.auth.oidc, c \in Tokens :
      Outcome(Current.auth.oidc[i], c) = AsWritten(Loaded.auth.oidc[i], c)

=============================================================================
