------------------------------ MODULE Accounts ------------------------------
(***************************************************************************)
(* The user records, and everyone who changes them.                        *)
(*                                                                         *)
(* One bucket maps an e-mail address to a record. A handler reads a whole  *)
(* record in one transaction, changes its copy in memory, and writes the   *)
(* whole copy back in a later transaction; nothing checks that the record  *)
(* is still the one it read. Session checks, lockout guards and look-ups   *)
(* of a free address are further transactions in between. The handlers     *)
(* interleave; the operator's commands need the database lock and run      *)
(* while the server is stopped. One action is one transaction with the     *)
(* in-memory work up to the next.                                          *)
(*                                                                         *)
(* Names, sources, time stamps and passkeys are left out of the records.   *)
(***************************************************************************)
EXTENDS Naturals

CONSTANTS
  Emails,        \* normalised addresses: the keys of the bucket
  Passwords,     \* passwords people choose
  Codes,         \* recovery codes the server will generate
  NoPassword,    \* the empty password hash
  NoCode,        \* no recovery code
  Clients,       \* request slots
  Ops,           \* bound: the operations this instance performs
  Bootstrap,     \* an address: auth.bootstrap_admin.email, if it is set
  SeedAdmin,     \* whether it is set
  SeedPassword,  \* auth.bootstrap_admin.password, or NoPassword
  HasOIDC,       \* whether an OIDC provider is configured
  StoreFails     \* whether transactions may fail

AdminOps == {"create", "update", "delete"}
SelfOps  == {"email", "password", "setup", "confirm", "disable", "codes"}
SignIns  == {"login", "oidc"}

ASSUME AccountsAssumption ==
  /\ Bootstrap \in Emails
  /\ NoPassword \notin Passwords /\ NoCode \notin Codes
  /\ SeedPassword \in Passwords \cup {NoPassword}
  /\ Ops \subseteq AdminOps \cup SelfOps \cup SignIns \cup {"operator"}
  /\ SeedAdmin \in BOOLEAN /\ HasOIDC \in BOOLEAN /\ StoreFails \in BOOLEAN

VARIABLES
  users,     \* the bucket: a function from the addresses that have a record
  up,        \* whether the server is running
  req,       \* the request each slot is running
  granted,   \* history: people whom an admin, a rule or the operator made admin
  issued,    \* history: recovery codes shown to somebody
  accepted,  \* history: recovery codes that signed somebody in
  reused     \* history: recovery codes that signed somebody in twice

codeHistory == <<issued, accepted, reused>>
history == <<granted, codeHistory>>
vars == <<users, up, req, granted, issued, accepted, reused>>

Roles == {"admin", "user"}

\* totp: pending while TOTPSecretEnc is set and TOTPEnabled is not.
\* who (not in the code): the address the account was created under, which
\* stays with it when the address changes.
User == [role : Roles, enabled : BOOLEAN, pinned : BOOLEAN,
         pw : Passwords \cup {NoPassword}, totp : {"off", "pending", "on"},
         codes : SUBSET Codes, who : Emails]

NewUser(e, role, enabled, pinned, pw) ==
  [role |-> role, enabled |-> enabled, pinned |-> pinned, pw |-> pw,
   totp |-> "off", codes |-> {}, who |-> e]

EnabledAdmin(u) == u.role = "admin" /\ u.enabled
Usable(e) == e \in DOMAIN users /\ users[e].enabled
AnyEnabledAdmin == \E e \in DOMAIN users : EnabledAdmin(users[e])

\* Store.Upsert and Store.Delete: the bucket afterwards.
With(e, u) == [x \in DOMAIN users \cup {e} |-> IF x = e THEN u ELSE users[x]]
Without(e) == [x \in DOMAIN users \ {e} |-> users[x]]

\* email: the key the next transaction is about. old: the key to delete last.
\* copy: the record as this handler is going to write it. code: the recovery
\* code given. byAdmin: requireRole found an admin.
Steps    == {"idle", "read", "lookup", "guard", "spend", "write", "remove", "panicked"}
Requests == [at : Steps, op : AdminOps \cup SelfOps \cup SignIns,
             email : Emails, old : Emails, copy : User,
             code : Codes \cup {NoCode}, byAdmin : BOOLEAN]

Idle == [at |-> "idle", op |-> "login", email |-> Bootstrap, old |-> Bootstrap,
         copy |-> NewUser(Bootstrap, "user", FALSE, FALSE, NoPassword),
         code |-> NoCode, byAdmin |-> FALSE]

Finish(c) == req' = [req EXCEPT ![c] = Idle]
GoTo(c, step) == req' = [req EXCEPT ![c].at = step]

\* The handler holds a changed copy of a record.
Hold(c, step, copy) == req' = [req EXCEPT ![c] = [@ EXCEPT !.at = step, !.copy = copy]]

\* The same for a request that had no step before.
StartWith(c, op, e, step, copy, code) ==
  req' = [req EXCEPT ![c] = [Idle EXCEPT !.at = step, !.op = op, !.email = e, !.old = e,
                                         !.copy = copy, !.code = code]]

Init ==
  /\ users = [e \in {} |-> NewUser(e, "user", FALSE, FALSE, NoPassword)]
  /\ up = FALSE
  /\ req = [c \in Clients |-> Idle]
  /\ granted = {} /\ issued = {} /\ accepted = {} /\ reused = {}

-----------------------------------------------------------------------------
(* The session check in front of the handlers. Every account is taken to    *)
(* hold a session cookie from an earlier sign-in.                           *)

\* Wrong variant of AdminArrive: requireRole is not mounted.
AdminArriveAnyRole(c, actor, op, e) ==
  /\ up /\ req[c] = Idle /\ op \in Ops \cap AdminOps
  /\ Usable(actor)
  /\ req' = [req EXCEPT ![c] = [Idle EXCEPT !.at = "read", !.op = op, !.email = e, !.old = e,
                                            !.byAdmin = users[actor].role = "admin"]]
  /\ UNCHANGED <<users, up, history>>

\* requireAuth and requireRole(admin), in front of the user management.
AdminArrive(c, actor, op, e) ==
  /\ up /\ req[c] = Idle /\ op \in Ops \cap AdminOps
  /\ Usable(actor) /\ users[actor].role = "admin"
  /\ req' = [req EXCEPT ![c] = [Idle EXCEPT !.at = "read", !.op = op, !.email = e, !.old = e,
                                            !.byAdmin = users[actor].role = "admin"]]
  /\ UNCHANGED <<users, up, history>>

\* requireAuth, in front of the account pages.
SelfArrive(c, actor, op) ==
  /\ up /\ req[c] = Idle /\ op \in Ops \cap SelfOps
  /\ Usable(actor)
  /\ req' = [req EXCEPT ![c] = [Idle EXCEPT !.at = "read", !.op = op, !.email = actor, !.old = actor]]
  /\ UNCHANGED <<users, up, history>>

\* Bad requests, wrong passwords and codes, 404 and 409: nothing is changed.
Refuse(c) ==
  /\ req[c].at = "read"
  /\ req[c].op \in SelfOps => Usable(req[c].email)
  /\ req[c].op = "delete" => req[c].email \notin DOMAIN users
  /\ Finish(c)
  /\ UNCHANGED <<users, up, history>>

-----------------------------------------------------------------------------
(* User management (domain/users/handler.go).                               *)

\* The people an authorised request makes admin.
GrantedBy(c, u) == IF u.role = "admin" /\ req[c].byAdmin THEN {u.who} ELSE {}

\* Handler.Create: the address is free; the new record is built in memory.
CreateRead(c) ==
  LET e == req[c].email IN
  /\ req[c].at = "read" /\ req[c].op = "create"
  /\ e \notin DOMAIN users
  /\ \E role \in Roles, enabled \in BOOLEAN, pw \in Passwords \cup {NoPassword} :
       LET u == NewUser(e, role, enabled, FALSE, pw) IN
       /\ Hold(c, "write", u)
       /\ granted' = granted \cup GrantedBy(c, u)
  /\ UNCHANGED <<users, up, codeHistory>>

\* Wrong variant of UpdateRead: only a change of role is guarded, disabling is not.
UpdateReadByRole(c) ==
  LET e == req[c].email IN
  /\ req[c].at = "read" /\ req[c].op = "update"
  /\ e \in DOMAIN users
  /\ \E role \in Roles, enabled \in BOOLEAN, pw \in Passwords \cup {NoPassword}, clear \in BOOLEAN :
       LET next == [users[e] EXCEPT !.role = role, !.enabled = enabled, !.pw = pw,
                                    !.totp  = IF clear THEN "off" ELSE @,
                                    !.codes = IF clear THEN {} ELSE @]
           step == IF EnabledAdmin(users[e]) /\ next.role # "admin" THEN "guard" ELSE "write"
       IN /\ Hold(c, step, next)
          /\ granted' = granted \cup GrantedBy(c, next)
  /\ UNCHANGED <<users, up, codeHistory>>

\* Handler.Update: the changes are applied to a copy. Losing an enabled admin
\* takes the lockout guard first. Any field may also be left as it is.
UpdateRead(c) ==
  LET e == req[c].email IN
  /\ req[c].at = "read" /\ req[c].op = "update"
  /\ e \in DOMAIN users
  /\ \E role \in Roles, enabled \in BOOLEAN, pw \in Passwords \cup {NoPassword}, clear \in BOOLEAN :
       LET next == [users[e] EXCEPT !.role = role, !.enabled = enabled, !.pw = pw,
                                    !.totp  = IF clear THEN "off" ELSE @,
                                    !.codes = IF clear THEN {} ELSE @]
           step == IF EnabledAdmin(users[e]) /\ ~EnabledAdmin(next) THEN "guard" ELSE "write"
       IN /\ Hold(c, step, next)
          /\ granted' = granted \cup GrantedBy(c, next)
  /\ UNCHANGED <<users, up, codeHistory>>

\* Handler.Delete: the record is there. Only an enabled admin is guarded.
DeleteRead(c) ==
  LET e == req[c].email IN
  /\ req[c].at = "read" /\ req[c].op = "delete"
  /\ e \in DOMAIN users
  /\ Hold(c, IF EnabledAdmin(users[e]) THEN "guard" ELSE "remove", users[e])
  /\ UNCHANGED <<users, up, history>>

\* Wrong variant of Guard: the admin in question is counted too.
GuardCountsSelf(c) ==
  /\ req[c].at = "guard"
  /\ IF AnyEnabledAdmin
       THEN GoTo(c, IF req[c].op = "delete" THEN "remove" ELSE "write")
       ELSE Finish(c)
  /\ UNCHANGED <<users, up, history>>

\* otherEnabledAdmins, and 400 if there is none.
Guard(c) ==
  LET others == {e \in DOMAIN users \ {req[c].email} : EnabledAdmin(users[e])} IN
  /\ req[c].at = "guard"
  /\ IF others # {}
       THEN GoTo(c, IF req[c].op = "delete" THEN "remove" ELSE "write")
       ELSE Finish(c)
  /\ UNCHANGED <<users, up, history>>

-----------------------------------------------------------------------------
(* The account pages (domain/auth/account.go, 2fa.go).                      *)

\* localSelfUser finds the record, enabled.
SelfRead(c, op) == req[c].at = "read" /\ req[c].op = op /\ Usable(req[c].email)
Self(c) == users[req[c].email]

\* localSelfUser does not, or the read fails: it writes a 401 or a 500, returns
\* neither a user nor an error, and the handler dereferences nil.
NilUser(c) ==
  /\ req[c].at = "read" /\ req[c].op \in SelfOps
  /\ ~Usable(req[c].email) \/ StoreFails
  /\ GoTo(c, "panicked")
  /\ UNCHANGED <<users, up, history>>

\* safeRecover: 500.
SafeRecover(c) ==
  /\ req[c].at = "panicked"
  /\ Finish(c)
  /\ UNCHANGED <<users, up, history>>

\* ChangeEmail: the password is right and the new address another one.
ChangeEmail(c) ==
  /\ SelfRead(c, "email") /\ Self(c).pw # NoPassword
  /\ \E new \in Emails \ {req[c].email} :
       req' = [req EXCEPT ![c] = [@ EXCEPT !.at = "lookup", !.copy = Self(c), !.email = new]]
  /\ UNCHANGED <<users, up, history>>

\* Wrong variant of EmailLookup: a taken address is not refused.
EmailLookupTakes(c) ==
  /\ req[c].at = "lookup"
  /\ GoTo(c, "write")
  /\ UNCHANGED <<users, up, history>>

\* ChangeEmail: is the new address free? Otherwise 409.
EmailLookup(c) ==
  /\ req[c].at = "lookup"
  /\ IF req[c].email \in DOMAIN users THEN Finish(c) ELSE GoTo(c, "write")
  /\ UNCHANGED <<users, up, history>>

ChangePassword(c) ==
  /\ SelfRead(c, "password") /\ Self(c).pw # NoPassword
  /\ \E pw \in Passwords : Hold(c, "write", [Self(c) EXCEPT !.pw = pw])
  /\ UNCHANGED <<users, up, history>>

TwoFASetup(c) ==
  /\ SelfRead(c, "setup") /\ Self(c).pw # NoPassword /\ Self(c).totp # "on"
  /\ Hold(c, "write", [Self(c) EXCEPT !.totp = "pending"])
  /\ UNCHANGED <<users, up, history>>

\* GenerateRecoveryCodes: random, so never one that was shown before.
FreshCodes == SUBSET (Codes \ issued) \ {{}}

TwoFAConfirm(c) ==
  /\ SelfRead(c, "confirm") /\ Self(c).totp = "pending"
  /\ \E new \in FreshCodes :
       /\ Hold(c, "write", [Self(c) EXCEPT !.totp = "on", !.codes = new])
       /\ issued' = issued \cup new
  /\ UNCHANGED <<users, up, granted, accepted, reused>>

\* Wrong variant of TwoFADisable: the recovery codes are not wiped.
TwoFADisableKeepsCodes(c) ==
  /\ SelfRead(c, "disable") /\ Self(c).pw # NoPassword
  /\ Hold(c, "write", [Self(c) EXCEPT !.totp = "off"])
  /\ UNCHANGED <<users, up, history>>

TwoFADisable(c) ==
  /\ SelfRead(c, "disable") /\ Self(c).pw # NoPassword
  /\ Hold(c, "write", [Self(c) EXCEPT !.totp = "off", !.codes = {}])
  /\ UNCHANGED <<users, up, history>>

TwoFARecoveryRegenerate(c) ==
  /\ SelfRead(c, "codes") /\ Self(c).totp = "on" /\ Self(c).pw # NoPassword
  /\ \E new \in FreshCodes :
       /\ Hold(c, "write", [Self(c) EXCEPT !.codes = new])
       /\ issued' = issued \cup new
  /\ UNCHANGED <<users, up, granted, accepted, reused>>

-----------------------------------------------------------------------------
(* Signing in (domain/auth/handler.go, 2fa.go, oidc.go). Failed attempts     *)
(* change nothing and are left out.                                         *)

\* PasswordLogin up to its first write: the password is right, and so is the
\* TOTP code, if there has to be one, or else a recovery code is used up.
PasswordLogin(c, e) ==
  /\ up /\ req[c] = Idle /\ "login" \in Ops
  /\ Usable(e) /\ users[e].pw # NoPassword
  /\ \/ StartWith(c, "login", e, "write", users[e], NoCode)
     \/ /\ users[e].totp = "on"
        /\ \E k \in users[e].codes :
             StartWith(c, "login", e, "spend", [users[e] EXCEPT !.codes = @ \ {k}], k)
  /\ UNCHANGED <<users, up, history>>

\* verifySecondFactor persists the record without the code.
SpendCode(c) ==
  /\ req[c].at = "spend"
  /\ users' = With(req[c].email, req[c].copy)
  /\ GoTo(c, "write")
  /\ UNCHANGED <<up, history>>

\* RoleFor: what the provider's rules say of a person. "pin": admin_emails.
Rules == {"pin", "admin", "user", "none"}

\* Wrong variant of ProvisionOIDC: nobody is denied, RoleFor's empty role is stored.
ProvisionOIDCNoDeny(c, e, rule) ==
  LET known  == e \in DOMAIN users
      base   == IF known THEN users[e] ELSE NewUser(e, "user", TRUE, FALSE, NoPassword)
      pinned == rule = "pin" \/ base.pinned
      role   == IF pinned THEN "admin" ELSE rule IN
  /\ up /\ req[c] = Idle /\ HasOIDC /\ "oidc" \in Ops
  /\ known => users[e].enabled
  /\ StartWith(c, "oidc", e, "write", [base EXCEPT !.role = role, !.pinned = pinned], NoCode)
  /\ granted' = IF rule \in {"pin", "admin"} THEN granted \cup {base.who} ELSE granted
  /\ UNCHANGED <<users, up, codeHistory>>

\* OIDCCallback and provisionOIDC up to the write: pinned people stay admin,
\* others get the role of the rule, or are denied if there is none.
ProvisionOIDC(c, e, rule) ==
  LET known  == e \in DOMAIN users
      base   == IF known THEN users[e] ELSE NewUser(e, "user", TRUE, FALSE, NoPassword)
      pinned == rule = "pin" \/ base.pinned
      role   == IF pinned THEN "admin" ELSE rule IN
  /\ up /\ req[c] = Idle /\ HasOIDC /\ "oidc" \in Ops
  /\ known => users[e].enabled
  /\ rule # "none" \/ pinned
  /\ StartWith(c, "oidc", e, "write", [base EXCEPT !.role = role, !.pinned = pinned], NoCode)
  /\ granted' = IF rule \in {"pin", "admin"} THEN granted \cup {base.who} ELSE granted
  /\ UNCHANGED <<users, up, codeHistory>>

-----------------------------------------------------------------------------
(* The last transactions of a handler.                                      *)

\* The response of a sign-in goes out: its recovery code has worked once more.
SignedIn(c) ==
  /\ accepted' = accepted \cup ({req[c].code} \ {NoCode})
  /\ reused' = reused \cup ({req[c].code} \cap accepted)
  /\ UNCHANGED <<granted, issued>>

\* Upsert of the copy. ChangeEmail has the old key to delete, the others are done.
Write(c) ==
  /\ req[c].at = "write"
  /\ users' = With(req[c].email, req[c].copy)
  /\ IF req[c].op = "email" THEN GoTo(c, "remove") ELSE Finish(c)
  /\ SignedIn(c)
  /\ UNCHANGED up

\* Delete, of Handler.Delete and of ChangeEmail.
Remove(c) ==
  /\ req[c].at = "remove"
  /\ users' = Without(req[c].old)
  /\ Finish(c)
  /\ UNCHANGED <<up, history>>

\* Any other transaction fails. A sign-in goes on without having saved the
\* record.
StoreError(c) ==
  /\ StoreFails
  /\ req[c].at \notin {"idle", "panicked"}
  /\ req[c].at = "read" => req[c].op \notin SelfOps
  /\ IF req[c].at = "spend" THEN GoTo(c, "write") ELSE Finish(c)
  /\ IF req[c].at = "write" /\ req[c].op = "login" THEN SignedIn(c) ELSE UNCHANGED history
  /\ UNCHANGED <<users, up>>

-----------------------------------------------------------------------------
(* Start and stop, and the operator's commands (cli/serve.go, cli/user.go).  *)

\* Shutdown or crash.
Stop ==
  /\ up
  /\ up' = FALSE
  /\ req' = [c \in Clients |-> Idle]
  /\ UNCHANGED <<users, history>>

\* seedBootstrapAdmin, then ensureBootstrapAdmin, which may refuse to start.
Start ==
  LET seeds  == SeedAdmin /\ Bootstrap \notin DOMAIN users
      seeded == IF seeds THEN With(Bootstrap, NewUser(Bootstrap, "admin", TRUE, TRUE, SeedPassword))
                         ELSE users IN
  /\ ~up
  /\ users' = seeded
  /\ granted' = IF seeds THEN granted \cup {Bootstrap} ELSE granted
  /\ up' = (HasOIDC \/ \E e \in DOMAIN seeded : seeded[e].role = "admin")
  /\ UNCHANGED <<req, codeHistory>>

Operating == ~up /\ "operator" \in Ops

\* user create: makes or revives an account. Without --oidc it sets a password.
OperatorCreate(e, role) ==
  LET base == IF e \in DOMAIN users THEN users[e]
              ELSE NewUser(e, role, TRUE, FALSE, NoPassword) IN
  /\ Operating
  /\ \E pw \in Passwords \cup {base.pw} :
       users' = With(e, [base EXCEPT !.role = role, !.enabled = TRUE, !.pw = pw,
                                     !.pinned = (role = "admin")])
  /\ granted' = IF role = "admin" THEN granted \cup {base.who} ELSE granted
  /\ UNCHANGED <<up, req, codeHistory>>

\* guardLastAdmin counts by role.
AnotherAdmin == \E e, f \in DOMAIN users :
  e # f /\ users[e].role = "admin" /\ users[f].role = "admin"

\* user delete.
OperatorDelete(e) ==
  /\ Operating /\ e \in DOMAIN users
  /\ users[e].role = "admin" => AnotherAdmin
  /\ users' = Without(e)
  /\ UNCHANGED <<up, req, history>>

\* user set-role.
OperatorSetRole(e, role) ==
  /\ Operating /\ e \in DOMAIN users
  /\ users[e].role = "admin" /\ role # "admin" => AnotherAdmin
  /\ users' = With(e, [users[e] EXCEPT !.role = role, !.pinned = (role = "admin")])
  /\ granted' = IF role = "admin" THEN granted \cup {users[e].who} ELSE granted
  /\ UNCHANGED <<up, req, codeHistory>>

\* user reset-password.
OperatorResetPassword(e, pw) ==
  /\ Operating /\ e \in DOMAIN users
  /\ users' = With(e, [users[e] EXCEPT !.pw = pw])
  /\ UNCHANGED <<up, req, history>>

-----------------------------------------------------------------------------
Arriving(c) ==
  \/ \E actor \in DOMAIN users, op \in AdminOps, e \in Emails : AdminArrive(c, actor, op, e)
  \/ \E actor \in DOMAIN users, op \in SelfOps : SelfArrive(c, actor, op)
  \/ \E e \in Emails : PasswordLogin(c, e)
  \/ \E e \in Emails, rule \in Rules : ProvisionOIDC(c, e, rule)

Handling(c) ==
  \/ CreateRead(c) \/ UpdateRead(c) \/ DeleteRead(c) \/ Guard(c)
  \/ NilUser(c) \/ SafeRecover(c) \/ Refuse(c)
  \/ ChangeEmail(c) \/ EmailLookup(c) \/ ChangePassword(c)
  \/ TwoFASetup(c) \/ TwoFAConfirm(c) \/ TwoFADisable(c) \/ TwoFARecoveryRegenerate(c)
  \/ SpendCode(c) \/ Write(c) \/ Remove(c) \/ StoreError(c)

OperatorStep ==
  \E e \in Emails :
    \/ OperatorDelete(e)
    \/ \E role \in Roles : OperatorCreate(e, role) \/ OperatorSetRole(e, role)
    \/ \E pw \in Passwords : OperatorResetPassword(e, pw)

Next ==
  \/ \E c \in Clients : Arriving(c) \/ Handling(c)
  \/ Start \/ Stop \/ OperatorStep

Spec == Init /\ [][Next]_vars

-----------------------------------------------------------------------------
TypeOK ==
  /\ DOMAIN users \subseteq Emails /\ users \in [DOMAIN users -> User]
  /\ up \in BOOLEAN
  /\ req \in [Clients -> Requests]
  /\ granted \subseteq Emails
  /\ issued \subseteq Codes /\ accepted \subseteq Codes /\ reused \subseteq Codes

\* Nobody becomes admin, or is pinned, by their own doing or by a stale write-back:
\* at some time an admin, an OIDC rule, the operator or the configuration said so
\* (requireRole, RoleFor, seedBootstrapAdmin).
AdminsWereGranted ==
  \A e \in DOMAIN users :
    users[e].role = "admin" \/ users[e].pinned => users[e].who \in granted

\* Recovery codes go with the second factor they stand in for: turning it off,
\* by the owner or by an admin, leaves none, whichever writes interleave.
CodesNeedFactor ==
  \A e \in DOMAIN users : users[e].codes # {} => users[e].totp = "on"

\* The lockout guard of user management: once there is an enabled admin, no step
\* leaves none. A sign-in through OIDC re-evaluates the role and has no such guard.
EnabledAdminRemains == [][up /\ AnyEnabledAdmin => AnyEnabledAdmin']_vars

People == {users[e].who : e \in DOMAIN users}
Deleting(p) == \E c \in Clients :
  /\ req[c].at = "remove" /\ req[c].op = "delete"
  /\ req[c].old \in DOMAIN users /\ users[req[c].old].who = p

\* Only a deletion takes somebody's account away: no address is given to two people
\* (the 409s of Create and ChangeEmail), and changing an address, even cut short,
\* does not lose the account.
NoAccountLost == [][up => \A p \in People : p \in People' \/ Deleting(p)]_vars

\* One request at a time, every handler that is made of several transactions comes to one
\* operation of Directory, with failures and restarts anywhere.
Serially == INSTANCE Directory
ImplementsDirectory == Serially!Spec

\* A recovery code signs somebody in once ("one-time ... consumed and persisted on use").
CodeSpentOnce == reused = {}

\* A disabled or deleted account does not come back because its owner was in the
\* middle of signing in, or of changing something else about it.
WriteBackRevivesNobody ==
  [][\A e \in Emails : up /\ ~Usable(e) /\ Usable(e)' =>
       \E c \in Clients : /\ req[c].at = "write" /\ req[c].email = e
                           /\ req[c].op \in AdminOps \cup {"email", "oidc"}]_vars

\* "Pinned users ... are always admin" (models/user/user.go).
PinnedAreAdmin == \A e \in DOMAIN users : users[e].pinned => users[e].role = "admin"

\* guardLastAdmin: "refuses to delete or demote" the last admin, "which would lock
\* everyone out". When user delete succeeds, somebody can still administer.
DeleteLeavesAdmin ==
  [][~up /\ DOMAIN users' # DOMAIN users /\ AnyEnabledAdmin => AnyEnabledAdmin']_vars

\* localSelfUser: a handler that goes on has a user.
NoNilUser == \A c \in Clients : req[c].at # "panicked"

=============================================================================
