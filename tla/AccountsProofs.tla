--------------------------- MODULE AccountsProofs ---------------------------
(* What holds of the user records however the handlers interleave, for any  *)
(* number of requests and addresses, with or without failing transactions.  *)
(*                                                                          *)
(* A handler writes back a whole record that it read long before, so no     *)
(* invariant of the records alone is inductive: what is asked of a record   *)
(* in the bucket (Sound) must be asked of every copy a request holds too.   *)
(*                                                                          *)
(* With one request at a time no copy is stale (SerialInv), and what relates *)
(* two records, or a record to its past, holds as well.                     *)
EXTENDS Accounts, TLAPS

\* What the two invariants ask of one record, when g were granted the admin role.
Sound(u, g) ==
  /\ u.role = "admin" \/ u.pinned => u.who \in g
  /\ u.codes # {} => u.totp = "on"

UsersOK(us, g) ==
  /\ DOMAIN us \subseteq Emails
  /\ us \in [DOMAIN us -> User]
  /\ \A e \in DOMAIN us : Sound(us[e], g)

\* Only admins get past requireRole.
RequestOK(r, g) ==
  /\ r \in Requests
  /\ Sound(r.copy, g)
  /\ r.op \in AdminOps => r.byAdmin

RequestsOK(rs, g) == rs \in [Clients -> Requests] /\ \A c \in Clients : RequestOK(rs[c], g)

HistoryOK ==
  /\ granted \subseteq Emails
  /\ issued \subseteq Codes /\ accepted \subseteq Codes /\ reused \subseteq Codes

Inv ==
  /\ UsersOK(users, granted)
  /\ up \in BOOLEAN
  /\ RequestsOK(req, granted)
  /\ HistoryOK

-----------------------------------------------------------------------------
(* The shapes of the next state.                                            *)

LEMMA SoundGrows ==
  ASSUME NEW u, NEW g, NEW h, Sound(u, g), g \subseteq h
  PROVE  Sound(u, h)
BY DEF Sound

\* A record is saved.
LEMMA UsersWith ==
  ASSUME NEW g, NEW h, UsersOK(users, g), g \subseteq h,
         NEW e \in Emails, NEW u \in User, Sound(u, h)
  PROVE  UsersOK(With(e, u), h)
<1>1. DOMAIN With(e, u) = DOMAIN users \cup {e}
  BY DEF With
<1>2. ASSUME NEW x \in DOMAIN users \cup {e}
      PROVE  With(e, u)[x] \in User /\ Sound(With(e, u)[x], h)
  <2>1. CASE x = e
    BY <2>1 DEF With
  <2>2. CASE x # e
    <3>1. x \in DOMAIN users /\ With(e, u)[x] = users[x]
      BY <2>2 DEF With
    <3>2. users[x] \in User /\ Sound(users[x], g)
      BY <3>1 DEF UsersOK
    <3> QED
      BY <3>1, <3>2, SoundGrows
  <2> QED
    BY <2>1, <2>2
<1>3. With(e, u) \in [DOMAIN users \cup {e} -> User]
  BY <1>2 DEF With
<1>4. DOMAIN users \cup {e} \subseteq Emails
  BY DEF UsersOK
<1> QED
  BY <1>1, <1>2, <1>3, <1>4 DEF UsersOK

\* A record is deleted.
LEMMA UsersWithout ==
  ASSUME NEW g, UsersOK(users, g), NEW e
  PROVE  UsersOK(Without(e), g)
<1>1. DOMAIN Without(e) = DOMAIN users \ {e}
  BY DEF Without
<1>2. \A x \in DOMAIN users \ {e} : Without(e)[x] = users[x]
  BY DEF Without
<1>3. Without(e) \in [DOMAIN users \ {e} -> User]
  BY DEF UsersOK, Without
<1> QED
  BY <1>1, <1>2, <1>3 DEF UsersOK

\* More people are granted the role.
LEMMA UsersGrow ==
  ASSUME NEW g, NEW h, UsersOK(users, g), g \subseteq h
  PROVE  UsersOK(users, h)
BY SoundGrows DEF UsersOK

\* One slot moves on.
LEMMA OneRequest ==
  ASSUME NEW g, NEW h, RequestsOK(req, g), g \subseteq h,
         NEW c \in Clients, NEW r, RequestOK(r, h), req' = [req EXCEPT ![c] = r]
  PROVE  RequestsOK(req', h)
<1>1. r \in Requests
  BY DEF RequestOK
<1>2. req' \in [Clients -> Requests]
  BY <1>1 DEF RequestsOK
<1>3. ASSUME NEW d \in Clients PROVE RequestOK(req'[d], h)
  <2>1. CASE d = c
    BY <2>1 DEF RequestsOK
  <2>2. CASE d # c
    <3>1. req'[d] = req[d] /\ RequestOK(req[d], g)
      BY <2>2 DEF RequestsOK
    <3> QED
      BY <3>1, SoundGrows DEF RequestOK
  <2> QED
    BY <2>1, <2>2
<1> QED
  BY <1>2, <1>3 DEF RequestsOK

LEMMA RequestsGrow ==
  ASSUME NEW g, NEW h, RequestsOK(req, g), g \subseteq h
  PROVE  RequestsOK(req, h)
BY SoundGrows DEF RequestsOK, RequestOK

LEMMA NewUserType ==
  ASSUME NEW e \in Emails, NEW role \in Roles, NEW enabled \in BOOLEAN,
         NEW pinned \in BOOLEAN, NEW pw \in Passwords \cup {NoPassword}, NEW g,
         role = "admin" \/ pinned => e \in g
  PROVE  /\ NewUser(e, role, enabled, pinned, pw) \in User
         /\ Sound(NewUser(e, role, enabled, pinned, pw), g)
BY DEF NewUser, User, Sound

LEMMA IdleOK == ASSUME NEW g PROVE RequestOK(Idle, g)
<1>1. /\ NewUser(Bootstrap, "user", FALSE, FALSE, NoPassword) \in User
      /\ Sound(NewUser(Bootstrap, "user", FALSE, FALSE, NoPassword), g)
  BY AccountsAssumption, NewUserType DEF Roles
<1> QED
  BY <1>1, AccountsAssumption DEF RequestOK, Idle, Requests, Steps, AdminOps, SignIns

\* A handler moves on, with or without a new copy.
LEMMA MovedOK ==
  ASSUME NEW r, NEW g, NEW h, RequestOK(r, g), g \subseteq h, NEW step \in Steps,
         NEW u \in User, Sound(u, h)
  PROVE  RequestOK([r EXCEPT !.at = step], h) /\ RequestOK([r EXCEPT !.at = step, !.copy = u], h)
BY SoundGrows DEF RequestOK, Requests

-----------------------------------------------------------------------------
(* Every action keeps the invariant.                                        *)

LEMMA Initially == Init => Inv
<1> SUFFICES ASSUME Init PROVE Inv
  OBVIOUS
<1>1. UsersOK(users, granted)
  BY DEF Init, UsersOK
<1>2. RequestsOK(req, granted)
  BY IdleOK DEF Init, RequestsOK, RequestOK
<1> QED
  BY <1>1, <1>2 DEF Init, Inv, HistoryOK

\* Handlers that change nothing but the slot they run in.
LEMMA SlotOnly ==
  ASSUME Inv, NEW c \in Clients, NEW r, RequestOK(r, granted),
         req' = [req EXCEPT ![c] = r], UNCHANGED <<users, up, history>>
  PROVE  Inv'
<1>1. RequestsOK(req', granted)
  BY OneRequest DEF Inv
<1> QED
  BY <1>1 DEF Inv, HistoryOK, history, codeHistory

\* Handlers that build a copy and may grant a role or show recovery codes.
LEMMA SlotAndHistory ==
  ASSUME Inv, NEW c \in Clients, NEW r, RequestOK(r, granted'),
         req' = [req EXCEPT ![c] = r], UNCHANGED <<users, up>>,
         granted \subseteq granted', HistoryOK'
  PROVE  Inv'
<1>1. RequestsOK(req', granted')
  BY OneRequest DEF Inv
<1>2. UsersOK(users, granted')
  BY UsersGrow DEF Inv
<1> QED
  BY <1>1, <1>2 DEF Inv

LEMMA MovesOn ==
  ASSUME Inv, NEW c \in Clients, NEW step \in Steps
  PROVE  RequestOK([req[c] EXCEPT !.at = step], granted)
<1>1. RequestOK(req[c], granted) /\ req[c].copy \in User /\ Sound(req[c].copy, granted)
  BY DEF Inv, RequestsOK, RequestOK, Requests
<1> QED
  BY <1>1, MovedOK

LEMMA Holds ==
  ASSUME Inv, NEW c \in Clients, NEW step \in Steps, NEW h, granted \subseteq h,
         NEW u \in User, Sound(u, h)
  PROVE  RequestOK([req[c] EXCEPT !.at = step, !.copy = u], h)
<1>1. RequestOK(req[c], granted)
  BY DEF Inv, RequestsOK
<1> QED
  BY <1>1, MovedOK

LEMMA RecordOK ==
  ASSUME Inv, NEW e \in DOMAIN users
  PROVE  e \in Emails /\ users[e] \in User /\ Sound(users[e], granted)
BY DEF Inv, UsersOK

LEMMA EmailOK ==
  ASSUME Inv, NEW c \in Clients
  PROVE  /\ req[c] \in Requests
         /\ req[c].email \in Emails /\ req[c].old \in Emails
         /\ req[c].copy \in User /\ Sound(req[c].copy, granted)
         /\ req[c].op \in AdminOps => req[c].byAdmin
BY DEF Inv, RequestsOK, RequestOK, Requests

LEMMA ArrivingKeeps ==
  ASSUME Inv, NEW c \in Clients, Arriving(c)
  PROVE  Inv'
<1>1. ASSUME NEW actor \in DOMAIN users, NEW op \in AdminOps, NEW e \in Emails,
             AdminArrive(c, actor, op, e)
      PROVE  Inv'
  <2> DEFINE r == [Idle EXCEPT !.at = "read", !.op = op, !.email = e, !.old = e,
                               !.byAdmin = users[actor].role = "admin"]
  <2>1. RequestOK(r, granted)
    BY <1>1, IdleOK DEF AdminArrive, RequestOK, Requests, Steps
  <2> QED
    BY <1>1, <2>1, SlotOnly DEF AdminArrive
<1>2. ASSUME NEW actor \in DOMAIN users, NEW op \in SelfOps, SelfArrive(c, actor, op)
      PROVE  Inv'
  <2> DEFINE r == [Idle EXCEPT !.at = "read", !.op = op, !.email = actor, !.old = actor]
  <2>1. actor \in Emails /\ op \notin AdminOps
    BY RecordOK DEF SelfOps, AdminOps
  <2>2. RequestOK(r, granted)
    BY <2>1, IdleOK DEF RequestOK, Requests, Steps
  <2> QED
    BY <1>2, <2>2, SlotOnly DEF SelfArrive
<1>3. ASSUME NEW e \in Emails, PasswordLogin(c, e)
      PROVE  Inv'
  <2>1. users[e] \in User /\ Sound(users[e], granted)
    BY <1>3, RecordOK DEF PasswordLogin, Usable
  <2>2. CASE StartWith(c, "login", e, "write", users[e], NoCode)
    <3> DEFINE r == [Idle EXCEPT !.at = "write", !.op = "login", !.email = e, !.old = e,
                                 !.copy = users[e], !.code = NoCode]
    <3>1. RequestOK(r, granted)
      BY <2>1, IdleOK DEF RequestOK, Requests, Steps, SignIns, AdminOps
    <3> QED
      BY <1>3, <2>2, <3>1, SlotOnly DEF PasswordLogin, StartWith
  <2>3. ASSUME NEW k \in users[e].codes, users[e].totp = "on",
               StartWith(c, "login", e, "spend", [users[e] EXCEPT !.codes = @ \ {k}], k)
        PROVE  Inv'
    <3> DEFINE u == [users[e] EXCEPT !.codes = @ \ {k}]
               r == [Idle EXCEPT !.at = "spend", !.op = "login", !.email = e, !.old = e,
                                 !.copy = u, !.code = k]
    <3>1. u \in User /\ Sound(u, granted) /\ k \in Codes
      BY <2>1, <2>3 DEF User, Sound
    <3>2. RequestOK(r, granted)
      BY <3>1, IdleOK DEF RequestOK, Requests, Steps, SignIns, AdminOps
    <3> QED
      BY <1>3, <2>3, <3>2, SlotOnly DEF PasswordLogin, StartWith
  <2> QED
    BY <1>3, <2>2, <2>3 DEF PasswordLogin
<1>4. ASSUME NEW e \in Emails, NEW rule \in Rules, ProvisionOIDC(c, e, rule)
      PROVE  Inv'
  <2> DEFINE known  == e \in DOMAIN users
             base   == IF known THEN users[e] ELSE NewUser(e, "user", TRUE, FALSE, NoPassword)
             pinned == rule = "pin" \/ base.pinned
             role   == IF pinned THEN "admin" ELSE rule
             u      == [base EXCEPT !.role = role, !.pinned = pinned]
             r      == [Idle EXCEPT !.at = "write", !.op = "oidc", !.email = e, !.old = e,
                                    !.copy = u, !.code = NoCode]
  <2>1. base \in User /\ Sound(base, granted)
    <3>1. CASE known
      BY <3>1, RecordOK
    <3>2. CASE ~known
      BY <3>2, NewUserType DEF Roles
    <3> QED
      BY <3>1, <3>2
  <2>2. /\ granted' = IF rule \in {"pin", "admin"} THEN granted \cup {base.who} ELSE granted
        /\ rule # "none" \/ pinned
        /\ req' = [req EXCEPT ![c] = r]
        /\ UNCHANGED <<users, up, codeHistory>>
    BY <1>4 DEF ProvisionOIDC, StartWith
  <2>3. u \in User /\ Sound(u, granted')
    BY <2>1, <2>2 DEF User, Sound, Roles, Rules
  <2>4. RequestOK(r, granted')
    BY <2>3, IdleOK DEF RequestOK, Requests, Steps, SignIns, AdminOps
  <2>5. granted \subseteq granted' /\ HistoryOK'
    BY <2>1, <2>2 DEF Inv, HistoryOK, codeHistory, User
  <2> QED
    BY <2>2, <2>4, <2>5, SlotAndHistory
<1> QED
  BY <1>1, <1>2, <1>3, <1>4 DEF Arriving

LEMMA ManagementKeeps ==
  ASSUME Inv, NEW c \in Clients, CreateRead(c) \/ UpdateRead(c) \/ DeleteRead(c) \/ Guard(c)
  PROVE  Inv'
<1> DEFINE e == req[c].email
<1>1. CASE CreateRead(c)
  <2>1. PICK role \in Roles, enabled \in BOOLEAN, pw \in Passwords \cup {NoPassword} :
          LET u == NewUser(e, role, enabled, FALSE, pw) IN
          /\ Hold(c, "write", u)
          /\ granted' = granted \cup GrantedBy(c, u)
    BY <1>1 DEF CreateRead
  <2> DEFINE u == NewUser(e, role, enabled, FALSE, pw)
  <2>2. u.who = e /\ u.role = role /\ e \in Emails /\ req[c].byAdmin
    BY <1>1, EmailOK DEF NewUser, CreateRead, AdminOps
  <2>3. granted \subseteq granted' /\ (role = "admin" => e \in granted') /\ granted' \subseteq Emails
    BY <2>1, <2>2 DEF GrantedBy, Inv, HistoryOK
  <2>4. u \in User /\ Sound(u, granted')
    BY <2>2, <2>3, NewUserType
  <2>5. RequestOK([req[c] EXCEPT !.at = "write", !.copy = u], granted')
    BY <2>3, <2>4, Holds DEF Steps
  <2>6. HistoryOK'
    BY <1>1, <2>3 DEF Inv, HistoryOK, CreateRead, codeHistory
  <2> QED
    BY <1>1, <2>1, <2>3, <2>5, <2>6, SlotAndHistory DEF CreateRead, Hold
<1>2. CASE UpdateRead(c)
  <2>1. PICK role \in Roles, enabled \in BOOLEAN, pw \in Passwords \cup {NoPassword},
             clear \in BOOLEAN :
          LET next == [users[e] EXCEPT !.role = role, !.enabled = enabled, !.pw = pw,
                                       !.totp  = IF clear THEN "off" ELSE @,
                                       !.codes = IF clear THEN {} ELSE @]
              step == IF EnabledAdmin(users[e]) /\ ~EnabledAdmin(next) THEN "guard" ELSE "write"
          IN /\ Hold(c, step, next)
             /\ granted' = granted \cup GrantedBy(c, next)
    BY <1>2 DEF UpdateRead
  <2> DEFINE next == [users[e] EXCEPT !.role = role, !.enabled = enabled, !.pw = pw,
                                      !.totp  = IF clear THEN "off" ELSE @,
                                      !.codes = IF clear THEN {} ELSE @]
             step == IF EnabledAdmin(users[e]) /\ ~EnabledAdmin(next) THEN "guard" ELSE "write"
  <2>2. users[e] \in User /\ Sound(users[e], granted) /\ req[c].byAdmin
    BY <1>2, RecordOK, EmailOK DEF UpdateRead, AdminOps
  <2>3. /\ granted \subseteq granted' /\ granted' \subseteq Emails
        /\ role = "admin" => users[e].who \in granted'
    BY <2>1, <2>2 DEF GrantedBy, Inv, HistoryOK, User
  <2>4. next \in User /\ Sound(next, granted')
    BY <2>2, <2>3 DEF User, Sound
  <2>5. step \in Steps
    BY DEF Steps
  <2>6. RequestOK([req[c] EXCEPT !.at = step, !.copy = next], granted')
    BY <2>3, <2>4, <2>5, Holds
  <2>7. HistoryOK'
    BY <1>2, <2>3 DEF Inv, HistoryOK, UpdateRead, codeHistory
  <2>8. req' = [req EXCEPT ![c] = [req[c] EXCEPT !.at = step, !.copy = next]]
    BY <2>1 DEF Hold
  <2> QED
    BY <1>2, <2>3, <2>6, <2>7, <2>8, SlotAndHistory DEF UpdateRead
<1>3. CASE DeleteRead(c)
  <2> DEFINE step == IF EnabledAdmin(users[e]) THEN "guard" ELSE "remove"
  <2>1. users[e] \in User /\ Sound(users[e], granted) /\ step \in Steps
    BY <1>3, RecordOK DEF DeleteRead, Steps
  <2>2. RequestOK([req[c] EXCEPT !.at = step, !.copy = users[e]], granted)
    BY <2>1, Holds
  <2>3. req' = [req EXCEPT ![c] = [req[c] EXCEPT !.at = step, !.copy = users[e]]]
    BY <1>3 DEF DeleteRead, Hold
  <2> QED
    BY <1>3, <2>2, <2>3, SlotOnly DEF DeleteRead
<1>4. CASE Guard(c)
  <2>1. CASE Finish(c)
    BY <1>4, <2>1, IdleOK, SlotOnly DEF Guard, Finish
  <2>2. CASE GoTo(c, IF req[c].op = "delete" THEN "remove" ELSE "write")
    <3> DEFINE step == IF req[c].op = "delete" THEN "remove" ELSE "write"
    <3>1. step \in Steps /\ req' = [req EXCEPT ![c] = [req[c] EXCEPT !.at = step]]
      BY <2>2 DEF GoTo, Steps
    <3>2. RequestOK([req[c] EXCEPT !.at = step], granted)
      BY <3>1, MovesOn
    <3> QED
      BY <1>4, <3>1, <3>2, SlotOnly DEF Guard
  <2> QED
    BY <1>4, <2>1, <2>2 DEF Guard
<1> QED
  BY <1>1, <1>2, <1>3, <1>4

\* GoTo and Finish, where nothing else changes.
LEMMA Stepping ==
  ASSUME Inv, NEW c \in Clients, NEW step \in Steps, GoTo(c, step) \/ Finish(c),
         UNCHANGED <<users, up, history>>
  PROVE  Inv'
<1>1. CASE GoTo(c, step)
  BY <1>1, MovesOn, SlotOnly DEF GoTo
<1>2. CASE Finish(c)
  BY <1>2, IdleOK, SlotOnly DEF Finish
<1> QED
  BY <1>1, <1>2

\* Hold, of a change of the handler's own record.
LEMMA Holding ==
  ASSUME Inv, NEW c \in Clients, NEW u \in User, Sound(u, granted),
         Hold(c, "write", u), UNCHANGED <<users, up, history>>
  PROVE  Inv'
<1>1. RequestOK([req[c] EXCEPT !.at = "write", !.copy = u], granted)
  BY Holds DEF Steps
<1> QED
  BY <1>1, SlotOnly DEF Hold

\* Hold, when recovery codes are shown as well.
LEMMA Issuing ==
  ASSUME Inv, NEW c \in Clients, NEW u \in User, Sound(u, granted),
         NEW new \in SUBSET Codes, Hold(c, "write", u), issued' = issued \cup new,
         UNCHANGED <<users, up, granted, accepted, reused>>
  PROVE  Inv'
<1>1. RequestOK([req[c] EXCEPT !.at = "write", !.copy = u], granted')
  BY Holds DEF Steps
<1>2. HistoryOK'
  BY DEF Inv, HistoryOK
<1> QED
  BY <1>1, <1>2, SlotAndHistory DEF Hold

LEMMA PagesKeep ==
  ASSUME Inv, NEW c \in Clients,
         \/ NilUser(c) \/ SafeRecover(c) \/ Refuse(c)
         \/ ChangeEmail(c) \/ EmailLookup(c) \/ ChangePassword(c)
         \/ TwoFASetup(c) \/ TwoFAConfirm(c) \/ TwoFADisable(c) \/ TwoFARecoveryRegenerate(c)
  PROVE  Inv'
<1> DEFINE u == Self(c)
<1>0. Usable(req[c].email) => u \in User /\ Sound(u, granted)
  BY RecordOK DEF Usable, Self
<1>1. CASE NilUser(c) \/ SafeRecover(c) \/ Refuse(c) \/ EmailLookup(c)
  BY <1>1, Stepping DEF NilUser, SafeRecover, Refuse, EmailLookup, Steps
<1>2. CASE ChangeEmail(c)
  <2>1. PICK new \in Emails :
          req' = [req EXCEPT ![c] = [@ EXCEPT !.at = "lookup", !.copy = u, !.email = new]]
    BY <1>2 DEF ChangeEmail
  <2> DEFINE r == [req[c] EXCEPT !.at = "lookup", !.copy = u, !.email = new]
  <2>2. RequestOK(r, granted)
    BY <1>0, <1>2, EmailOK DEF ChangeEmail, SelfRead, RequestOK, Requests, Steps
  <2> QED
    BY <1>2, <2>1, <2>2, SlotOnly DEF ChangeEmail
<1>3. CASE ChangePassword(c)
  <2>1. PICK pw \in Passwords : Hold(c, "write", [u EXCEPT !.pw = pw])
    BY <1>3 DEF ChangePassword
  <2>2. [u EXCEPT !.pw = pw] \in User /\ Sound([u EXCEPT !.pw = pw], granted)
    BY <1>0, <1>3 DEF ChangePassword, SelfRead, User, Sound
  <2> QED
    BY <1>3, <2>1, <2>2, Holding DEF ChangePassword
<1>4. CASE TwoFASetup(c)
  \* There are no codes before the factor is on.
  <2>1. [u EXCEPT !.totp = "pending"] \in User /\ Sound([u EXCEPT !.totp = "pending"], granted)
    BY <1>0, <1>4 DEF TwoFASetup, SelfRead, User, Sound
  <2> QED
    BY <1>4, <2>1, Holding DEF TwoFASetup
<1>5. CASE TwoFAConfirm(c)
  <2>1. PICK new \in SUBSET Codes :
          /\ Hold(c, "write", [u EXCEPT !.totp = "on", !.codes = new])
          /\ issued' = issued \cup new
    BY <1>5 DEF TwoFAConfirm, FreshCodes
  <2>2. /\ [u EXCEPT !.totp = "on", !.codes = new] \in User
        /\ Sound([u EXCEPT !.totp = "on", !.codes = new], granted)
    BY <1>0, <1>5 DEF TwoFAConfirm, SelfRead, User, Sound
  <2> QED
    BY <1>5, <2>1, <2>2, Issuing DEF TwoFAConfirm
<1>6. CASE TwoFADisable(c)
  <2>1. /\ [u EXCEPT !.totp = "off", !.codes = {}] \in User
        /\ Sound([u EXCEPT !.totp = "off", !.codes = {}], granted)
    BY <1>0, <1>6 DEF TwoFADisable, SelfRead, User, Sound
  <2> QED
    BY <1>6, <2>1, Holding DEF TwoFADisable
<1>7. CASE TwoFARecoveryRegenerate(c)
  <2>1. PICK new \in SUBSET Codes :
          Hold(c, "write", [u EXCEPT !.codes = new]) /\ issued' = issued \cup new
    BY <1>7 DEF TwoFARecoveryRegenerate, FreshCodes
  <2>2. [u EXCEPT !.codes = new] \in User /\ Sound([u EXCEPT !.codes = new], granted)
    BY <1>0, <1>7 DEF TwoFARecoveryRegenerate, SelfRead, User, Sound
  <2> QED
    BY <1>7, <2>1, <2>2, Issuing DEF TwoFARecoveryRegenerate
<1> QED
  BY <1>1, <1>2, <1>3, <1>4, <1>5, <1>6, <1>7

\* The transactions that end a handler.
LEMMA TransactionsKeep ==
  ASSUME Inv, NEW c \in Clients, SpendCode(c) \/ Write(c) \/ Remove(c) \/ StoreError(c)
  PROVE  Inv'
<1>1. UsersOK(With(req[c].email, req[c].copy), granted)
  BY EmailOK, UsersWith DEF Inv
<1>2. RequestsOK(req', granted)
  <2>1. CASE Finish(c)
    BY <2>1, IdleOK, OneRequest DEF Finish, Inv
  <2>2. CASE GoTo(c, "write") \/ GoTo(c, "remove")
    <3>1. PICK step \in {"write", "remove"} : req' = [req EXCEPT ![c] = [req[c] EXCEPT !.at = step]]
      BY <2>2 DEF GoTo
    <3>2. RequestOK([req[c] EXCEPT !.at = step], granted)
      BY MovesOn DEF Steps
    <3> QED
      BY <3>1, <3>2, OneRequest DEF Inv
  <2> QED
    BY <2>1, <2>2 DEF SpendCode, Write, Remove, StoreError
<1>3. SignedIn(c) => granted' = granted /\ HistoryOK'
  BY EmailOK DEF SignedIn, Inv, HistoryOK, Requests
<1>4. UNCHANGED history => granted' = granted /\ HistoryOK'
  BY DEF Inv, HistoryOK, history, codeHistory
<1>5. CASE SpendCode(c)
  BY <1>1, <1>2, <1>4, <1>5 DEF SpendCode, Inv
<1>6. CASE Write(c)
  BY <1>1, <1>2, <1>3, <1>6 DEF Write, Inv
<1>7. CASE Remove(c)
  BY <1>2, <1>4, <1>7, UsersWithout DEF Remove, Inv
<1>8. CASE StoreError(c)
  BY <1>2, <1>3, <1>4, <1>8 DEF StoreError, Inv
<1> QED
  BY <1>5, <1>6, <1>7, <1>8

LEMMA StartKeeps ==
  ASSUME Inv, Start
  PROVE  Inv'
<1> DEFINE seeds  == SeedAdmin /\ Bootstrap \notin DOMAIN users
           admin  == NewUser(Bootstrap, "admin", TRUE, TRUE, SeedPassword)
           seeded == IF seeds THEN With(Bootstrap, admin) ELSE users
<1>1. /\ users' = seeded
      /\ granted' = IF seeds THEN granted \cup {Bootstrap} ELSE granted
      /\ up' = (HasOIDC \/ \E e \in DOMAIN seeded : seeded[e].role = "admin")
      /\ UNCHANGED <<req, codeHistory>>
  BY DEF Start
<1>2. granted \subseteq granted' /\ HistoryOK'
  BY <1>1, AccountsAssumption DEF Inv, HistoryOK, codeHistory
<1>3. UsersOK(users', granted')
  <2>1. CASE seeds
    <3>1. admin \in User /\ Sound(admin, granted')
      BY <1>1, <2>1, AccountsAssumption, NewUserType DEF Roles
    <3>2. UsersOK(With(Bootstrap, admin), granted')
      BY <1>2, <3>1, AccountsAssumption, UsersWith DEF Inv
    <3> QED
      BY <1>1, <2>1, <3>2
  <2>2. CASE ~seeds
    BY <1>1, <2>2 DEF Inv
  <2> QED
    BY <2>1, <2>2
<1>4. RequestsOK(req', granted')
  BY <1>1, <1>2, RequestsGrow DEF Inv
<1>5. up' \in BOOLEAN
  BY <1>1, AccountsAssumption
<1> QED
  BY <1>2, <1>3, <1>4, <1>5 DEF Inv

LEMMA StopKeeps ==
  ASSUME Inv, Stop
  PROVE  Inv'
<1>1. RequestsOK(req', granted)
  BY IdleOK DEF Stop, RequestsOK, RequestOK
<1> QED
  BY <1>1 DEF Stop, Inv, HistoryOK, history, codeHistory

\* An operator command that saves record u and may grant its owner the role.
LEMMA OperatorSaves ==
  ASSUME Inv, NEW e \in Emails, NEW u \in User, users' = With(e, u),
         Sound(u, granted'), granted' = granted \/ granted' = granted \cup {u.who},
         UNCHANGED <<up, req, codeHistory>>
  PROVE  Inv'
<1>1. granted \subseteq granted' /\ HistoryOK'
  BY DEF Inv, HistoryOK, codeHistory, User
<1>2. UsersOK(With(e, u), granted')
  BY <1>1, UsersWith DEF Inv
<1>3. RequestsOK(req, granted')
  BY <1>1, RequestsGrow DEF Inv
<1> QED
  BY <1>1, <1>2, <1>3 DEF Inv

LEMMA OperatorKeeps ==
  ASSUME Inv, OperatorStep
  PROVE  Inv'
<1>1. ASSUME NEW e \in Emails, OperatorDelete(e)
      PROVE  Inv'
  BY <1>1, UsersWithout DEF OperatorDelete, Inv, HistoryOK, history, codeHistory
<1>2. ASSUME NEW e \in Emails, NEW role \in Roles, OperatorCreate(e, role)
      PROVE  Inv'
  <2> DEFINE base == IF e \in DOMAIN users THEN users[e]
                     ELSE NewUser(e, role, TRUE, FALSE, NoPassword)
  <2>1. base \in User /\ (base.codes # {} => base.totp = "on")
    <3>1. CASE e \in DOMAIN users
      BY <3>1, RecordOK DEF Sound
    <3>2. CASE e \notin DOMAIN users
      BY <3>2 DEF NewUser, User
    <3> QED
      BY <3>1, <3>2
  <2>2. PICK pw \in Passwords \cup {base.pw} :
          users' = With(e, [base EXCEPT !.role = role, !.enabled = TRUE, !.pw = pw,
                                        !.pinned = (role = "admin")])
    BY <1>2 DEF OperatorCreate
  <2> DEFINE u == [base EXCEPT !.role = role, !.enabled = TRUE, !.pw = pw,
                               !.pinned = (role = "admin")]
  <2>3. granted' = IF role = "admin" THEN granted \cup {base.who} ELSE granted
    BY <1>2 DEF OperatorCreate
  <2>4. u \in User /\ u.who = base.who /\ Sound(u, granted')
    BY <2>1, <2>3 DEF User, Sound
  <2>5. granted' = granted \/ granted' = granted \cup {u.who}
    BY <2>3, <2>4
  <2> QED
    BY <1>2, <2>2, <2>4, <2>5, OperatorSaves DEF OperatorCreate
<1>3. ASSUME NEW e \in Emails, NEW role \in Roles, OperatorSetRole(e, role)
      PROVE  Inv'
  <2> DEFINE u == [users[e] EXCEPT !.role = role, !.pinned = (role = "admin")]
  <2>1. users[e] \in User /\ Sound(users[e], granted)
    BY <1>3, RecordOK DEF OperatorSetRole
  <2>2. granted' = IF role = "admin" THEN granted \cup {users[e].who} ELSE granted
    BY <1>3 DEF OperatorSetRole
  <2>3. u \in User /\ u.who = users[e].who /\ Sound(u, granted')
    BY <2>1, <2>2 DEF User, Sound
  <2>4. granted' = granted \/ granted' = granted \cup {u.who}
    BY <2>2, <2>3
  <2> QED
    BY <1>3, <2>3, <2>4, OperatorSaves DEF OperatorSetRole
<1>4. ASSUME NEW e \in Emails, NEW pw \in Passwords, OperatorResetPassword(e, pw)
      PROVE  Inv'
  <2>1. users[e] \in User /\ Sound(users[e], granted)
    BY <1>4, RecordOK DEF OperatorResetPassword
  <2>2. [users[e] EXCEPT !.pw = pw] \in User /\ Sound([users[e] EXCEPT !.pw = pw], granted)
    BY <2>1 DEF User, Sound
  <2>3. granted' = granted /\ UNCHANGED codeHistory
    BY <1>4 DEF OperatorResetPassword, history
  <2> QED
    BY <1>4, <2>2, <2>3, OperatorSaves DEF OperatorResetPassword
<1> QED
  BY <1>1, <1>2, <1>3, <1>4 DEF OperatorStep

-----------------------------------------------------------------------------
THEOREM InvHolds == Spec => []Inv
<1>1. Init => Inv
  BY Initially
<1>2. Inv /\ [Next]_vars => Inv'
  <2> SUFFICES ASSUME Inv, [Next]_vars PROVE Inv'
    OBVIOUS
  <2>1. ASSUME NEW c \in Clients, Handling(c) PROVE Inv'
    BY <2>1, ManagementKeeps, PagesKeep, TransactionsKeep DEF Handling
  <2>2. CASE UNCHANGED vars
    BY <2>2 DEF vars, Inv, HistoryOK
  <2> QED
    BY <2>1, <2>2, ArrivingKeeps, StartKeeps, StopKeeps, OperatorKeeps DEF Next
<1> QED
  BY <1>1, <1>2, PTL DEF Spec

\* Type correctness.
THEOREM TypeCorrect == Spec => []TypeOK
<1>1. Inv => TypeOK
  BY DEF Inv, UsersOK, RequestsOK, HistoryOK, TypeOK
<1> QED
  BY <1>1, InvHolds, PTL

\* Nobody is or stays admin who was not made admin by somebody entitled to,
\* however many handlers write stale copies back over each other.
THEOREM AdminsGranted == Spec => []AdminsWereGranted
<1>1. Inv => AdminsWereGranted
  BY DEF Inv, UsersOK, Sound, AdminsWereGranted
<1> QED
  BY <1>1, InvHolds, PTL

\* No interleaving leaves recovery codes on an account whose factor is off.
THEOREM CodesFollowFactor == Spec => []CodesNeedFactor
<1>1. Inv => CodesNeedFactor
  BY DEF Inv, UsersOK, Sound, CodesNeedFactor
<1> QED
  BY <1>1, InvHolds, PTL

-----------------------------------------------------------------------------
(* One request at a time: then a copy is never stale. What the lockout      *)
(* guard and the look-ups of a free address found still holds when the      *)
(* record is written, so two properties that relate records hold as well.   *)

Serial == \A c, d \in Clients : c = d

\* Another enabled admin than e.
Others(us, e) == \E f \in DOMAIN us \ {e} : EnabledAdmin(us[f])

\* The steps that an operation has.
StepsFit(r) ==
  /\ r.op # "email" \/ r.at = "read" => r.old = r.email
  /\ r.at = "guard" => r.op \in {"update", "delete"}
  /\ r.at = "remove" => r.op \in {"delete", "email"}
  /\ r.at = "lookup" => r.op = "email"
  /\ r.at = "spend" => r.op = "login"
  /\ r.at = "write" => r.op # "delete"
  /\ r.op = "oidc" => HasOIDC /\ "oidc" \in Ops

\* A change of address: the copy is the record under the old key, and the new
\* key is free until that copy is written there.
Moves(us, r) ==
  r.op = "email" /\ r.at \in {"lookup", "write", "remove"} =>
    /\ r.email # r.old /\ r.old \in DOMAIN us /\ us[r.old].enabled /\ r.copy = us[r.old]
    /\ r.at = "write" => r.email \notin DOMAIN us
    /\ r.at = "remove" => r.email \in DOMAIN us /\ us[r.email] = r.copy

\* What the copy u makes of the record under e: one operation of Directory.
OwnOps == (SelfOps \ {"email"}) \cup {"login"}

Same(u, v, fields) == \A field \in fields : u[field] = v[field]

Applies(us, op, e, u) ==
  /\ op = "create" => e \notin DOMAIN us /\ u.who = e /\ u.codes = {} /\ ~u.pinned
  /\ op = "update" => /\ e \in DOMAIN us /\ Same(u, us[e], {"who", "pinned"})
                      /\ u.codes \in {us[e].codes, {}}
  /\ op \in OwnOps => /\ e \in DOMAIN us /\ us[e].enabled
                      /\ Same(u, us[e], {"role", "enabled", "pinned", "who"})
  /\ op = "oidc" =>
       /\ u.pinned => u.role = "admin"
       /\ IF e \in DOMAIN us
            THEN /\ us[e].enabled /\ (us[e].pinned => u.pinned)
                 /\ Same(u, us[e], {"enabled", "who", "pw", "totp", "codes"})
            ELSE u.who = e /\ u.enabled /\ u.codes = {}

Fits(us, r) ==
  r.op # "email" /\ r.at \in {"guard", "spend", "write"} => Applies(us, r.op, r.email, r.copy)

\* Who is about to lose the role, the account or access to it is not the last.
Spares(us, r) ==
  r.email \in DOMAIN us /\ EnabledAdmin(us[r.email]) =>
    /\ r.at \in {"spend", "write"} /\ r.op \notin {"email", "oidc"} =>
         EnabledAdmin(r.copy) \/ Others(us, r.email)
    /\ r.at = "remove" /\ r.op = "delete" => Others(us, r.email)

InHand(us, r) == StepsFit(r) /\ Moves(us, r) /\ Fits(us, r) /\ Spares(us, r)

SerialInv ==
  /\ ~up => \A c \in Clients : req[c] = Idle
  /\ \A c \in Clients : InHand(users, req[c])

\* Only a running server has requests.
LEMMA OnlyWhileUp ==
  ASSUME SerialInv, NEW c \in Clients, req[c].at # "idle"
  PROVE  up
BY DEF SerialInv, Idle

LEMMA IdleInHand == ASSUME NEW us PROVE InHand(us, Idle)
BY DEF InHand, StepsFit, Moves, Fits, Spares, Idle

\* The one slot moves on.
LEMMA Alone ==
  ASSUME Inv, Serial, NEW c \in Clients, NEW r, req' = [req EXCEPT ![c] = r],
         up', InHand(users', r)
  PROVE  SerialInv'
<1>1. \A d \in Clients : req'[d] = r
  BY DEF Inv, RequestsOK, Serial
<1> QED
  BY <1>1 DEF SerialInv

\* It is done.
LEMMA AloneDone ==
  ASSUME Inv, Serial, NEW c \in Clients, Finish(c), up'
  PROVE  SerialInv'
BY Alone, IdleInHand DEF Finish

LEMMA SerialArriving ==
  ASSUME Inv, SerialInv, Serial, NEW c \in Clients, Arriving(c)
  PROVE  SerialInv'
<1>1. ASSUME NEW actor \in DOMAIN users, NEW op \in AdminOps, NEW e \in Emails,
             AdminArrive(c, actor, op, e)
      PROVE  SerialInv'
  <2> DEFINE r == [Idle EXCEPT !.at = "read", !.op = op, !.email = e, !.old = e,
                               !.byAdmin = users[actor].role = "admin"]
  <2>1. r.at = "read" /\ r.op # "oidc" /\ r.old = r.email
    BY DEF Idle, AdminOps
  <2>2. InHand(users, r)
    BY <2>1 DEF InHand, StepsFit, Moves, Fits, Spares
  <2> QED
    BY <1>1, <2>2, Alone DEF AdminArrive
<1>2. ASSUME NEW actor \in DOMAIN users, NEW op \in SelfOps, SelfArrive(c, actor, op)
      PROVE  SerialInv'
  <2> DEFINE r == [Idle EXCEPT !.at = "read", !.op = op, !.email = actor, !.old = actor]
  <2>1. r.at = "read" /\ r.op # "oidc" /\ r.old = r.email
    BY DEF Idle, SelfOps
  <2>2. InHand(users, r)
    BY <2>1 DEF InHand, StepsFit, Moves, Fits, Spares
  <2> QED
    BY <1>2, <2>2, Alone DEF SelfArrive
<1>3. ASSUME NEW e \in Emails, PasswordLogin(c, e)
      PROVE  SerialInv'
  <2>1. PICK step \in {"write", "spend"}, u \in {users[e]} \cup
               {[users[e] EXCEPT !.codes = @ \ {k}] : k \in users[e].codes},
               code \in users[e].codes \cup {NoCode} :
          StartWith(c, "login", e, step, u, code)
    BY <1>3 DEF PasswordLogin
  <2> DEFINE r == [Idle EXCEPT !.at = step, !.op = "login", !.email = e, !.old = e,
                               !.copy = u, !.code = code]
  <2>2. users[e] \in User
    BY <1>3, RecordOK DEF PasswordLogin, Usable
  <2>3. EnabledAdmin(users[e]) => EnabledAdmin(u)
    BY <2>2 DEF User, EnabledAdmin
  <2>6. Applies(users, "login", e, u)
    BY <1>3, <2>2 DEF Applies, Same, PasswordLogin, Usable, User, OwnOps
  <2>4. /\ r.at = step /\ r.op = "login" /\ r.old = e /\ r.email = e /\ r.copy = u
    BY DEF Idle
  <2>5. InHand(users, r)
    BY <2>3, <2>4, <2>6 DEF InHand, StepsFit, Moves, Fits, Spares
  <2> QED
    BY <1>3, <2>1, <2>5, Alone DEF PasswordLogin, StartWith
<1>4. ASSUME NEW e \in Emails, NEW rule \in Rules, ProvisionOIDC(c, e, rule)
      PROVE  SerialInv'
  <2> DEFINE known  == e \in DOMAIN users
             base   == IF known THEN users[e] ELSE NewUser(e, "user", TRUE, FALSE, NoPassword)
             pinned == rule = "pin" \/ base.pinned
             role   == IF pinned THEN "admin" ELSE rule
             u      == [base EXCEPT !.role = role, !.pinned = pinned]
             r      == [Idle EXCEPT !.at = "write", !.op = "oidc", !.email = e, !.old = e,
                                    !.copy = u, !.code = NoCode]
  <2>1. Applies(users, "oidc", e, u)
    <3>1. known => users[e] \in User /\ users[e].enabled
      BY <1>4, RecordOK DEF ProvisionOIDC
    <3>2. CASE known
      BY <3>1, <3>2 DEF Applies, Same, User, OwnOps, SelfOps
    <3>3. CASE ~known
      BY <3>3 DEF Applies, NewUser, OwnOps, SelfOps
    <3> QED
      BY <3>2, <3>3
  <2>2. /\ req' = [req EXCEPT ![c] = r] /\ users' = users /\ up'
        /\ HasOIDC /\ "oidc" \in Ops
    BY <1>4 DEF ProvisionOIDC, StartWith
  <2>3. r.at = "write" /\ r.op = "oidc" /\ r.old = e /\ r.email = e /\ r.copy = u
    BY DEF Idle
  <2> HIDE DEF r, u
  <2>4. InHand(users, r)
    BY <2>1, <2>2, <2>3 DEF InHand, StepsFit, Moves, Fits, Spares
  <2> QED
    BY <2>2, <2>4, Alone
<1> QED
  BY <1>1, <1>2, <1>3, <1>4 DEF Arriving

\* The handler holds a copy of the record it is about, of the same person.
LEMMA HoldInHand ==
  ASSUME Inv, SerialInv, Serial, NEW c \in Clients, NEW step, NEW u,
         req[c].at # "idle", req[c].op \notin {"email", "create"},
         Hold(c, step, u), UNCHANGED <<users, up>>,
         req[c].email = req[c].old,
         step \in {"guard", "write"} => Applies(users, req[c].op, req[c].email, u),
         \/ step = "write" /\ req[c].op # "delete" /\ (EnabledAdmin(users[req[c].email]) => EnabledAdmin(u))
         \/ step = "guard" /\ req[c].op \in {"update", "delete"}
         \/ step = "remove" /\ req[c].op = "delete" /\ ~EnabledAdmin(users[req[c].email])
  PROVE  SerialInv'
<1> DEFINE r == [req[c] EXCEPT !.at = step, !.copy = u]
<1>1. /\ r.at = step /\ r.copy = u /\ r.email = req[c].email /\ r.old = req[c].old
      /\ r.op = req[c].op
  BY EmailOK DEF Requests
<1>2. r.op = "oidc" => HasOIDC /\ "oidc" \in Ops
  BY <1>1 DEF SerialInv, InHand, StepsFit
<1>3. req' = [req EXCEPT ![c] = r]
  BY DEF Hold
<1> HIDE DEF r
<1>4. InHand(users, r)
  BY <1>1, <1>2 DEF InHand, StepsFit, Moves, Fits, Spares
<1>5. up'
  BY OnlyWhileUp
<1> QED
  BY <1>3, <1>4, <1>5, Alone

LEMMA SerialManagement ==
  ASSUME Inv, SerialInv, Serial, NEW c \in Clients,
         CreateRead(c) \/ UpdateRead(c) \/ DeleteRead(c) \/ Guard(c)
  PROVE  SerialInv'
<1> DEFINE e == req[c].email
<1>0. /\ req[c].at # "idle" /\ up /\ UNCHANGED <<users, up>>
      /\ StepsFit(req[c])
  <2>1. req[c].at # "idle" /\ UNCHANGED <<users, up>>
    BY DEF CreateRead, UpdateRead, DeleteRead, Guard
  <2> QED
    BY <2>1, OnlyWhileUp DEF SerialInv, InHand
<1>1. CASE CreateRead(c)
  <2>1. PICK u : Hold(c, "write", u) /\ Applies(users, "create", e, u)
    <3>1. PICK role \in Roles, enabled \in BOOLEAN, pw \in Passwords \cup {NoPassword} :
            LET u == NewUser(e, role, enabled, FALSE, pw)
            IN Hold(c, "write", u) /\ granted' = granted \cup GrantedBy(c, u)
      BY <1>1 DEF CreateRead
    <3>2. Applies(users, "create", e, NewUser(e, role, enabled, FALSE, pw))
      BY <1>1 DEF Applies, NewUser, CreateRead, OwnOps, SelfOps
    <3> QED
      BY <3>1, <3>2
  <2> DEFINE r == [req[c] EXCEPT !.at = "write", !.copy = u]
  <2>2. /\ r.at = "write" /\ r.op = "create" /\ r.email = e /\ r.old = req[c].old
        /\ r.copy = u /\ e \notin DOMAIN users /\ req[c].at = "read"
    BY <1>1, EmailOK DEF Requests, CreateRead
  <2>3. InHand(users, r)
    BY <1>0, <2>1, <2>2 DEF InHand, StepsFit, Moves, Fits, Spares
  <2> QED
    BY <1>0, <2>1, <2>3, Alone DEF Hold
<1>2. CASE UpdateRead(c)
  <2>1. PICK role \in Roles, enabled \in BOOLEAN, pw \in Passwords \cup {NoPassword},
             clear \in BOOLEAN :
          LET next == [users[e] EXCEPT !.role = role, !.enabled = enabled, !.pw = pw,
                                       !.totp  = IF clear THEN "off" ELSE @,
                                       !.codes = IF clear THEN {} ELSE @]
              step == IF EnabledAdmin(users[e]) /\ ~EnabledAdmin(next) THEN "guard" ELSE "write"
          IN Hold(c, step, next) /\ granted' = granted \cup GrantedBy(c, next)
    BY <1>2 DEF UpdateRead
  <2> DEFINE next == [users[e] EXCEPT !.role = role, !.enabled = enabled, !.pw = pw,
                                      !.totp  = IF clear THEN "off" ELSE @,
                                      !.codes = IF clear THEN {} ELSE @]
             step == IF EnabledAdmin(users[e]) /\ ~EnabledAdmin(next) THEN "guard" ELSE "write"
  <2>2. users[e] \in User /\ req[c].op = "update" /\ req[c].at = "read"
    BY <1>2, RecordOK DEF UpdateRead
  <2>3. Hold(c, step, next) /\ e = req[c].old
    BY <1>0, <2>1, <2>2 DEF StepsFit
  <2>6. Applies(users, "update", e, next)
    BY <1>2, <2>2 DEF Applies, Same, UpdateRead, User, OwnOps, SelfOps
  <2> HIDE DEF next
  <2>4. CASE EnabledAdmin(users[e]) /\ ~EnabledAdmin(next)
    BY <1>0, <2>2, <2>3, <2>4, <2>6, HoldInHand
  <2>5. CASE ~(EnabledAdmin(users[e]) /\ ~EnabledAdmin(next))
    BY <1>0, <2>2, <2>3, <2>5, <2>6, HoldInHand
  <2> QED
    BY <2>4, <2>5
<1>3. CASE DeleteRead(c)
  <2>1. /\ req[c].op = "delete" /\ req[c].at = "read" /\ e = req[c].old
        /\ Hold(c, IF EnabledAdmin(users[e]) THEN "guard" ELSE "remove", users[e])
    BY <1>0, <1>3 DEF DeleteRead, StepsFit
  <2>4. Applies(users, "delete", e, users[e])
    BY DEF Applies, OwnOps, SelfOps
  <2>2. CASE EnabledAdmin(users[e])
    BY <1>0, <2>1, <2>2, <2>4, HoldInHand
  <2>3. CASE ~EnabledAdmin(users[e])
    BY <1>0, <2>1, <2>3, HoldInHand
  <2> QED
    BY <2>2, <2>3
\* What otherEnabledAdmins found is there when the record is saved or deleted.
<1>4. CASE Guard(c)
  <2> DEFINE step == IF req[c].op = "delete" THEN "remove" ELSE "write"
             r == [req[c] EXCEPT !.at = step]
  <2>1. CASE Finish(c)
    BY <1>0, <2>1, AloneDone
  <2>2. CASE ~Finish(c)
    <3>1. Others(users, e) /\ req' = [req EXCEPT ![c] = r]
      BY <1>4, <2>2 DEF Guard, Others, GoTo
    <3>2. /\ r.at = step /\ r.op = req[c].op /\ r.email = e /\ r.old = req[c].old
          /\ r.copy = req[c].copy
      BY EmailOK DEF Requests
    <3>3. req[c].at = "guard" /\ req[c].op \in {"update", "delete"} /\ req[c].old = e
      BY <1>0, <1>4 DEF Guard, StepsFit
    <3>4. Applies(users, req[c].op, e, req[c].copy)
      BY <3>3 DEF SerialInv, InHand, Fits
    <3> HIDE DEF r
    <3>5. InHand(users, r)
      BY <3>1, <3>2, <3>3, <3>4 DEF InHand, StepsFit, Moves, Fits, Spares
    <3> QED
      BY <1>0, <3>1, <3>5, Alone
  <2> QED
    BY <2>1, <2>2
<1> QED
  BY <1>1, <1>2, <1>3, <1>4

LEMMA SerialPages ==
  ASSUME Inv, SerialInv, Serial, NEW c \in Clients,
         \/ NilUser(c) \/ SafeRecover(c) \/ Refuse(c)
         \/ ChangeEmail(c) \/ EmailLookup(c) \/ ChangePassword(c)
         \/ TwoFASetup(c) \/ TwoFAConfirm(c) \/ TwoFADisable(c) \/ TwoFARecoveryRegenerate(c)
  PROVE  SerialInv'
<1> DEFINE e == req[c].email
<1>0. /\ req[c].at # "idle" /\ up /\ UNCHANGED <<users, up>>
      /\ InHand(users, req[c])
  <2>1. req[c].at # "idle" /\ UNCHANGED <<users, up>>
    BY DEF NilUser, SafeRecover, Refuse, ChangeEmail, EmailLookup, ChangePassword, TwoFASetup,
      TwoFAConfirm, TwoFADisable, TwoFARecoveryRegenerate, SelfRead
  <2> QED
    BY <2>1, OnlyWhileUp DEF SerialInv
<1>1. CASE SafeRecover(c) \/ Refuse(c)
  BY <1>0, <1>1, AloneDone DEF SafeRecover, Refuse
<1>2. CASE NilUser(c)
  <2> DEFINE r == [req[c] EXCEPT !.at = "panicked"]
  <2>1. /\ r.at = "panicked" /\ r.op = req[c].op /\ r.email = e /\ r.old = req[c].old
        /\ req[c].at = "read" /\ req' = [req EXCEPT ![c] = r]
    BY <1>2, EmailOK DEF Requests, NilUser, GoTo
  <2> HIDE DEF r
  <2>2. InHand(users, r)
    BY <1>0, <2>1 DEF InHand, StepsFit, Moves, Fits, Spares
  <2> QED
    BY <1>0, <2>1, <2>2, Alone
<1>3. CASE ChangeEmail(c)
  <2>1. PICK new \in Emails \ {e} :
          req' = [req EXCEPT ![c] = [@ EXCEPT !.at = "lookup", !.copy = Self(c), !.email = new]]
    BY <1>3 DEF ChangeEmail
  <2> DEFINE r == [req[c] EXCEPT !.at = "lookup", !.copy = Self(c), !.email = new]
  <2>2. /\ r.at = "lookup" /\ r.op = "email" /\ r.email = new /\ r.old = e
        /\ r.copy = users[e] /\ e \in DOMAIN users /\ users[e].enabled /\ req' = [req EXCEPT ![c] = r]
    BY <1>0, <1>3, <2>1, EmailOK DEF Requests, ChangeEmail, SelfRead, Self, Usable, InHand, StepsFit
  <2> HIDE DEF r
  <2>3. InHand(users, r)
    BY <2>1, <2>2 DEF InHand, StepsFit, Moves, Fits, Spares
  <2> QED
    BY <1>0, <2>2, <2>3, Alone
\* The address is free until it is taken.
<1>4. CASE EmailLookup(c)
  <2>1. CASE e \in DOMAIN users
    BY <1>0, <1>4, <2>1, AloneDone DEF EmailLookup
  <2>2. CASE e \notin DOMAIN users
    <3> DEFINE r == [req[c] EXCEPT !.at = "write"]
    <3>1. /\ r.at = "write" /\ r.op = req[c].op /\ r.email = e /\ r.old = req[c].old
          /\ r.copy = req[c].copy /\ req[c].at = "lookup" /\ req' = [req EXCEPT ![c] = r]
      BY <1>4, <2>2, EmailOK DEF Requests, EmailLookup, GoTo
    <3> HIDE DEF r
    <3>2. InHand(users, r)
      BY <1>0, <2>2, <3>1 DEF InHand, StepsFit, Moves, Fits, Spares
    <3> QED
      BY <1>0, <3>1, <3>2, Alone
  <2> QED
    BY <2>1, <2>2
<1>5. ASSUME NEW op \in {"password", "setup", "confirm", "disable", "codes"},
             SelfRead(c, op), NEW u, Hold(c, "write", u),
             Same(u, users[e], {"role", "enabled", "pinned", "who"})
      PROVE  SerialInv'
  <2>1. e = req[c].old /\ req[c].op \notin {"email", "create", "delete"}
    BY <1>0, <1>5 DEF SelfRead, InHand, StepsFit
  <2>2. Applies(users, req[c].op, e, u)
    BY <1>5 DEF Applies, SelfRead, Usable, OwnOps, SelfOps
  <2>3. EnabledAdmin(users[e]) => EnabledAdmin(u)
    BY <1>5 DEF Same, EnabledAdmin
  <2> QED
    BY <1>0, <1>5, <2>1, <2>2, <2>3, HoldInHand
<1>6. ASSUME Usable(e)
      PROVE  users[e] \in User
  BY <1>6, RecordOK DEF Usable
<1>7. CASE ChangePassword(c)
  <2>1. PICK pw \in Passwords : Hold(c, "write", [users[e] EXCEPT !.pw = pw])
    BY <1>7 DEF ChangePassword, Self
  <2> QED
    BY <1>5, <1>6, <1>7, <2>1 DEF ChangePassword, SelfRead, Same, User
<1>8. CASE TwoFASetup(c)
  BY <1>5, <1>6, <1>8 DEF TwoFASetup, SelfRead, Self, Same, User
<1>9. CASE TwoFAConfirm(c)
  <2>1. PICK new \in FreshCodes : Hold(c, "write", [users[e] EXCEPT !.totp = "on", !.codes = new])
    BY <1>9 DEF TwoFAConfirm, Self
  <2> QED
    BY <1>5, <1>6, <1>9, <2>1 DEF TwoFAConfirm, SelfRead, Same, User
<1>10. CASE TwoFADisable(c)
  BY <1>5, <1>6, <1>10 DEF TwoFADisable, SelfRead, Self, Same, User
<1>11. CASE TwoFARecoveryRegenerate(c)
  <2>1. PICK new \in FreshCodes : Hold(c, "write", [users[e] EXCEPT !.codes = new])
    BY <1>11 DEF TwoFARecoveryRegenerate, Self
  <2> QED
    BY <1>5, <1>6, <1>11, <2>1 DEF TwoFARecoveryRegenerate, SelfRead, Same, User
<1> QED
  BY <1>1, <1>2, <1>3, <1>4, <1>7, <1>8, <1>9, <1>10, <1>11

LEMMA SerialTransactions ==
  ASSUME Inv, SerialInv, Serial, NEW c \in Clients,
         SpendCode(c) \/ Write(c) \/ Remove(c) \/ StoreError(c)
  PROVE  SerialInv'
<1> DEFINE e == req[c].email
           r == [req[c] EXCEPT !.at = "write"]
           s == [req[c] EXCEPT !.at = "remove"]
<1>0. /\ req[c].at # "idle" /\ up' /\ InHand(users, req[c])
      /\ Finish(c) => SerialInv'
  <2>1. req[c].at # "idle" /\ UNCHANGED up
    BY DEF SpendCode, Write, Remove, StoreError
  <2>2. up'
    BY <2>1, OnlyWhileUp
  <2> QED
    BY <2>1, <2>2, AloneDone DEF SerialInv
<1>1. /\ r.at = "write" /\ r.op = req[c].op /\ r.email = e /\ r.old = req[c].old
      /\ r.copy = req[c].copy
      /\ s.at = "remove" /\ s.op = req[c].op /\ s.email = e /\ s.old = req[c].old
      /\ s.copy = req[c].copy
  BY EmailOK DEF Requests
<1>2. /\ GoTo(c, "write") => req' = [req EXCEPT ![c] = r]
      /\ GoTo(c, "remove") => req' = [req EXCEPT ![c] = s]
  BY DEF GoTo
<1> HIDE DEF r, s
<1>3. CASE SpendCode(c)
  <2>1. users' = With(e, req[c].copy) /\ req[c].at = "spend" /\ req[c].op = "login"
    BY <1>0, <1>3 DEF SpendCode, InHand, StepsFit
  <2>2. users'[e] = r.copy /\ e \in DOMAIN users' /\ Applies(users', "login", e, r.copy)
    <3>1. users'[e] = r.copy /\ e \in DOMAIN users'
      BY <1>1, <2>1 DEF With
    <3>2. req[c].copy.enabled
      BY <1>0, <2>1 DEF InHand, Fits, Applies, Same, OwnOps
    <3> QED
      BY <1>1, <3>1, <3>2 DEF Applies, Same, OwnOps, SelfOps
  <2>3. InHand(users', r)
    BY <1>0, <1>1, <2>1, <2>2 DEF InHand, StepsFit, Moves, Fits, Spares
  <2> QED
    BY <1>0, <1>2, <1>3, <2>3, Alone DEF SpendCode
<1>4. CASE Write(c)
  <2>1. users' = With(e, req[c].copy) /\ req[c].at = "write"
    BY <1>4 DEF Write
  <2>2. CASE req[c].op = "email"
    <3>1. /\ e # req[c].old /\ req[c].old \in DOMAIN users /\ req[c].copy = users[req[c].old]
          /\ users[req[c].old].enabled
      BY <1>0, <2>1, <2>2 DEF InHand, Moves
    <3>2. /\ e \in DOMAIN users' /\ users'[e] = req[c].copy
          /\ req[c].old \in DOMAIN users' /\ users'[req[c].old] = users[req[c].old]
      BY <2>1, <3>1 DEF With
    <3>3. InHand(users', s)
      BY <1>0, <1>1, <2>2, <3>1, <3>2 DEF InHand, StepsFit, Moves, Fits, Spares
    <3> QED
      BY <1>0, <1>2, <1>4, <2>2, <3>3, Alone DEF Write
  <2>3. CASE req[c].op # "email"
    BY <1>0, <1>4, <2>3 DEF Write
  <2> QED
    BY <2>2, <2>3
<1>5. CASE Remove(c)
  BY <1>0, <1>5 DEF Remove
<1>6. CASE StoreError(c)
  <2>1. CASE req[c].at = "spend"
    <3>1. InHand(users, r)
      BY <1>0, <1>1, <2>1 DEF InHand, StepsFit, Moves, Fits, Spares
    <3> QED
      BY <1>0, <1>2, <1>6, <2>1, <3>1, Alone DEF StoreError
  <2>2. CASE req[c].at # "spend"
    BY <1>0, <1>6, <2>2 DEF StoreError
  <2> QED
    BY <2>1, <2>2
<1> QED
  BY <1>3, <1>4, <1>5, <1>6

\* With one slot, the inductive invariant holds in every reachable state.
THEOREM SerialHolds ==
  ASSUME Serial
  PROVE  Spec => []SerialInv
<1>1. Init => SerialInv
  BY IdleInHand DEF Init, SerialInv
<1>2. Inv /\ SerialInv /\ [Next]_vars => SerialInv'
  <2> SUFFICES ASSUME Inv, SerialInv, [Next]_vars PROVE SerialInv'
    OBVIOUS
  <2>1. ASSUME NEW c \in Clients, Handling(c) PROVE SerialInv'
    BY <2>1, SerialManagement, SerialPages, SerialTransactions DEF Handling
  <2>2. CASE Stop
    <3>1. \A c \in Clients : req'[c] = Idle
      BY <2>2 DEF Stop
    <3> QED
      BY <3>1, IdleInHand DEF SerialInv
  <2>3. CASE Start \/ OperatorStep
    <3>1. ~up /\ req' = req
      BY <2>3 DEF Start, OperatorStep, Operating, OperatorCreate, OperatorDelete,
        OperatorSetRole, OperatorResetPassword
    <3>2. \A c \in Clients : req'[c] = Idle
      BY <3>1 DEF SerialInv
    <3> QED
      BY <3>2, IdleInHand DEF SerialInv
  <2>4. CASE UNCHANGED vars
    BY <2>4 DEF vars, SerialInv
  <2> QED
    BY <2>1, <2>2, <2>3, <2>4, SerialArriving DEF Next
<1> QED
  BY <1>1, <1>2, InvHolds, PTL DEF Spec

\* While the server runs, only the last transactions of a handler change records.
LEMMA RunningChanges ==
  ASSUME up, [Next]_vars
  PROVE  \/ UNCHANGED users
         \/ \E c \in Clients : /\ req[c].at \in {"spend", "write"} /\ up'
                               /\ users' = With(req[c].email, req[c].copy)
         \/ \E c \in Clients : /\ req[c].at = "remove" /\ up'
                               /\ users' = Without(req[c].old)
<1>1. ASSUME NEW c \in Clients, Arriving(c) PROVE UNCHANGED users
  BY <1>1 DEF Arriving, AdminArrive, SelfArrive, PasswordLogin, ProvisionOIDC
<1>2. ASSUME NEW c \in Clients, Handling(c)
      PROVE  \/ UNCHANGED users
             \/ /\ req[c].at \in {"spend", "write"} /\ up'
                /\ users' = With(req[c].email, req[c].copy)
             \/ req[c].at = "remove" /\ up' /\ users' = Without(req[c].old)
  BY <1>2 DEF Handling, CreateRead, UpdateRead, DeleteRead, Guard, NilUser, SafeRecover, Refuse,
    ChangeEmail, EmailLookup, ChangePassword, TwoFASetup, TwoFAConfirm, TwoFADisable,
    TwoFARecoveryRegenerate, SpendCode, Write, Remove, StoreError
<1>3. ~Start /\ ~OperatorStep
  BY DEF Start, OperatorStep, Operating, OperatorCreate, OperatorDelete, OperatorSetRole,
    OperatorResetPassword
<1>4. CASE Stop
  BY <1>4 DEF Stop
<1>5. CASE UNCHANGED vars
  BY <1>5 DEF vars
<1> QED
  BY <1>1, <1>2, <1>3, <1>4, <1>5 DEF Next

\* One request at a time, and no provider that re-evaluates roles: once there is an enabled
\* admin, neither user management nor the account pages nor a sign-in, failing anywhere,
\* leaves none (users/handler.go:199-207).
THEOREM AdminRemains ==
  ASSUME Serial, ~HasOIDC \/ "oidc" \notin Ops
  PROVE  Spec => EnabledAdminRemains
<1>1. Inv /\ SerialInv /\ [Next]_vars => (up /\ AnyEnabledAdmin => AnyEnabledAdmin')
  <2> SUFFICES ASSUME Inv, SerialInv, [Next]_vars, up, AnyEnabledAdmin
               PROVE  \E f \in DOMAIN users' : EnabledAdmin(users'[f])
    BY DEF AnyEnabledAdmin
  <2>1. PICK a \in DOMAIN users : EnabledAdmin(users[a])
    BY DEF AnyEnabledAdmin
  <2>2. CASE UNCHANGED users
    BY <2>1, <2>2
  <2>3. ASSUME NEW c \in Clients, req[c].at \in {"spend", "write"},
               users' = With(req[c].email, req[c].copy)
        PROVE  \E f \in DOMAIN users' : EnabledAdmin(users'[f])
    <3> DEFINE e == req[c].email
    <3>1. InHand(users, req[c]) /\ req[c].op # "oidc"
      BY DEF SerialInv, InHand, StepsFit
    <3>2. /\ DOMAIN users' = DOMAIN users \cup {e} /\ users'[e] = req[c].copy
          /\ \A x \in DOMAIN users \ {e} : users'[x] = users[x]
      BY <2>3 DEF With
    <3>3. CASE a # e
      BY <2>1, <3>2, <3>3
    <3>4. CASE a = e
      <4>1. req[c].op # "email"
        BY <2>3, <3>1, <3>4 DEF InHand, StepsFit, Moves
      <4>2. EnabledAdmin(req[c].copy) \/ Others(users, e)
        BY <2>1, <2>3, <3>1, <3>4, <4>1 DEF InHand, Spares
      <4> QED
        BY <3>2, <4>2 DEF Others
    <3> QED
      BY <3>3, <3>4
  <2>4. ASSUME NEW c \in Clients, req[c].at = "remove", users' = Without(req[c].old)
        PROVE  \E f \in DOMAIN users' : EnabledAdmin(users'[f])
    <3> DEFINE o == req[c].old
    <3>1. InHand(users, req[c])
      BY DEF SerialInv
    <3>2. /\ DOMAIN users' = DOMAIN users \ {o}
          /\ \A x \in DOMAIN users \ {o} : users'[x] = users[x]
      BY <2>4 DEF Without
    <3>3. CASE a # o
      BY <2>1, <3>2, <3>3
    <3>4. CASE a = o /\ req[c].op = "email"
      BY <2>1, <2>4, <3>1, <3>2, <3>4 DEF InHand, Moves
    <3>5. CASE a = o /\ req[c].op = "delete"
      <4>1. req[c].email = o
        BY <2>4, <3>1, <3>5 DEF InHand, StepsFit
      <4>2. Others(users, o)
        BY <2>1, <2>4, <3>1, <3>5, <4>1 DEF InHand, Spares
      <4> QED
        BY <3>2, <4>2 DEF Others
    <3> QED
      BY <2>4, <3>1, <3>3, <3>4, <3>5 DEF InHand, StepsFit
  <2> QED
    BY <2>2, <2>3, <2>4, RunningChanges
<1>2. Spec => [][up /\ AnyEnabledAdmin => AnyEnabledAdmin']_vars
  BY <1>1, InvHolds, SerialHolds, PTL DEF Spec
<1> QED
  BY <1>2 DEF EnabledAdminRemains

\* One request at a time, a provider's sign-ins included: no write gives an address to a
\* second person, and a change of address that stops half-way has lost nobody.
THEOREM NobodyLost ==
  ASSUME Serial
  PROVE  Spec => NoAccountLost
<1> DEFINE Step == up => \A p \in People : p \in People' \/ Deleting(p)
<1>1. Inv /\ SerialInv /\ [Next]_vars => Step
  <2> SUFFICES ASSUME Inv, SerialInv, [Next]_vars, up, NEW a \in DOMAIN users,
                      ~Deleting(users[a].who)
               PROVE  \E f \in DOMAIN users' : users'[f].who = users[a].who
    BY DEF People
  <2>1. CASE UNCHANGED users
    BY <2>1
  <2>2. ASSUME NEW c \in Clients, req[c].at \in {"spend", "write"},
               users' = With(req[c].email, req[c].copy)
        PROVE  \E f \in DOMAIN users' : users'[f].who = users[a].who
    <3> DEFINE e == req[c].email
    <3>1. InHand(users, req[c])
      BY DEF SerialInv
    <3>2. /\ DOMAIN users' = DOMAIN users \cup {e} /\ users'[e] = req[c].copy
          /\ \A x \in DOMAIN users \ {e} : users'[x] = users[x]
      BY <2>2 DEF With
    <3>3. CASE a # e
      BY <3>2, <3>3
    <3>4. CASE a = e
      <4>1. req[c].op # "email"
        BY <2>2, <3>1, <3>4 DEF InHand, StepsFit, Moves
      <4>2. req[c].copy.who = users[e].who
        <5>1. Applies(users, req[c].op, e, req[c].copy) /\ req[c].op \in AdminOps \cup SelfOps \cup SignIns
          BY <2>2, <3>1, <4>1, EmailOK DEF InHand, Fits, Requests
        <5>2. req[c].op # "delete"
          BY <2>2, <3>1 DEF InHand, StepsFit
        <5> QED
          BY <3>4, <4>1, <5>1, <5>2 DEF Applies, Same, OwnOps, AdminOps, SelfOps, SignIns
      <4> QED
        BY <3>2, <3>4, <4>2
    <3> QED
      BY <3>3, <3>4
  <2>3. ASSUME NEW c \in Clients, req[c].at = "remove", users' = Without(req[c].old)
        PROVE  \E f \in DOMAIN users' : users'[f].who = users[a].who
    <3> DEFINE o == req[c].old
    <3>1. InHand(users, req[c])
      BY DEF SerialInv
    <3>2. /\ DOMAIN users' = DOMAIN users \ {o}
          /\ \A x \in DOMAIN users \ {o} : users'[x] = users[x]
      BY <2>3 DEF Without
    <3>3. CASE a # o
      BY <3>2, <3>3
    <3>4. CASE a = o
      <4>1. req[c].op = "email"
        BY <2>3, <3>1, <3>4 DEF InHand, StepsFit, Deleting
      <4>2. /\ req[c].email \in DOMAIN users /\ req[c].email # o
            /\ users[req[c].email] = users[o]
        BY <2>3, <3>1, <4>1 DEF InHand, Moves
      <4> QED
        BY <3>2, <3>4, <4>2
    <3> QED
      BY <3>3, <3>4
  <2> QED
    BY <2>1, <2>2, <2>3, RunningChanges
<1>2. Spec => [][Step]_vars
  BY <1>1, InvHolds, SerialHolds, PTL DEF Spec
<1> QED
  BY <1>2 DEF Step, NoAccountLost

\* One request at a time, no sign-in and no account page enables or restores an account: that
\* they do (WriteBackRevivesNobody is violated with two requests) is the interleaving's doing.
THEOREM NobodyRevived ==
  ASSUME Serial
  PROVE  Spec => WriteBackRevivesNobody
<1> DEFINE Step == \A e \in Emails : up /\ ~Usable(e) /\ Usable(e)' =>
                     \E c \in Clients : /\ req[c].at = "write" /\ req[c].email = e
                                         /\ req[c].op \in AdminOps \cup {"email", "oidc"}
<1>1. Inv /\ SerialInv /\ [Next]_vars => Step
  <2> SUFFICES ASSUME Inv, SerialInv, [Next]_vars, NEW e \in Emails,
                      up, ~Usable(e), Usable(e)'
               PROVE  \E c \in Clients : /\ req[c].at = "write" /\ req[c].email = e
                                         /\ req[c].op \in AdminOps \cup {"email", "oidc"}
    OBVIOUS
  <2>1. ~UNCHANGED users
    BY DEF Usable
  <2>2. \A x : users' = Without(x) => FALSE
    BY DEF Usable, Without
  <2>3. PICK c \in Clients : /\ req[c].at \in {"spend", "write"}
                             /\ users' = With(req[c].email, req[c].copy)
    BY <2>1, <2>2, RunningChanges
  <2>4. req[c].email = e
    BY <2>3 DEF Usable, With
  <2>5. InHand(users, req[c]) /\ req[c].op \in AdminOps \cup SelfOps \cup SignIns
    BY EmailOK DEF SerialInv, Requests
  <2>6. req[c].op \notin OwnOps
    <3> SUFFICES ASSUME req[c].op \in OwnOps PROVE FALSE
      OBVIOUS
    <3>1. req[c].op # "email"
      BY DEF OwnOps, SelfOps
    <3> QED
      BY <2>3, <2>4, <2>5, <3>1 DEF InHand, Fits, Applies, Usable
  <2> QED
    BY <2>3, <2>4, <2>5, <2>6 DEF InHand, StepsFit, OwnOps, AdminOps, SelfOps, SignIns
<1>2. Spec => [][Step]_vars
  BY <1>1, InvHolds, SerialHolds, PTL DEF Spec
<1> QED
  BY <1>2 DEF Step, WriteBackRevivesNobody

\* A saved copy is one operation of Directory on the account under its key.
LEMMA WriteIsOperation ==
  ASSUME Inv, SerialInv, NEW c \in Clients, req[c].at \in {"spend", "write"}, up, up',
         users' = With(req[c].email, req[c].copy)
  PROVE  Serially!Serving
<1> DEFINE e == req[c].email
           u == req[c].copy
<1>1. InHand(users, req[c]) /\ e \in Emails /\ req[c].old \in Emails
      /\ req[c].op \in AdminOps \cup SelfOps \cup SignIns
  BY EmailOK DEF SerialInv, Requests
<1>2. Serially!Saved(e) /\ users'[e] = u
  BY DEF With, Serially!Saved, Serially!Only
<1>3. CASE req[c].op = "email"
  <2>1. Serially!Settle(req[c].old, e)
    <3>1. /\ req[c].old \in DOMAIN users /\ users[req[c].old].enabled
          /\ u = users[req[c].old] /\ e \notin DOMAIN users
      BY <1>1, <1>3 DEF InHand, StepsFit, Moves
    <3> QED
      BY <1>2, <3>1 DEF Serially!Settle, Serially!Known
  <2> QED
    BY <1>1, <2>1 DEF Serially!Serving
<1>4. CASE req[c].op # "email"
  <2>1. Applies(users, req[c].op, e, u)
    BY <1>1, <1>4 DEF InHand, Fits
  <2>2. CASE req[c].op = "create"
    <3>1. Serially!Create(e)
      BY <1>2, <2>1, <2>2 DEF Applies, Serially!Create, Serially!New, Serially!Known
    <3> QED
      BY <1>1, <3>1 DEF Serially!Serving
  <2>3. CASE req[c].op = "update"
    <3>1. EnabledAdmin(users[e]) => EnabledAdmin(u) \/ Others(users, e)
      BY <1>1, <2>1, <2>3 DEF InHand, Spares, Applies
    <3>2. Serially!Admin(users[e]) => Serially!Admin(u) \/ Serially!AnotherAdmin(e)
      BY <3>1 DEF EnabledAdmin, Others, Serially!Admin, Serially!AnotherAdmin
    <3>3. Serially!Manage(e)
      BY <1>2, <2>1, <2>3, <3>2 DEF Applies, Same, Serially!Manage, Serially!Known, Serially!Kept
    <3> QED
      BY <1>1, <3>3 DEF Serially!Serving
  <2>4. CASE req[c].op \in OwnOps
    <3>1. Serially!Own(e)
      BY <1>2, <2>1, <2>4 DEF Applies, Same, Serially!Own, Serially!Known, Serially!Kept
    <3> QED
      BY <1>1, <3>1 DEF Serially!Serving
  <2>5. CASE req[c].op = "oidc"
    <3>1. HasOIDC
      BY <1>1, <2>5 DEF InHand, StepsFit
    <3>2. Serially!Provision(e)
      BY <1>2, <2>1, <2>5, <3>1 DEF Applies, Same, Serially!Provision, Serially!New,
        Serially!Known, Serially!Kept
    <3> QED
      BY <1>1, <3>2 DEF Serially!Serving
  <2>6. req[c].op # "delete"
    BY <1>1 DEF InHand, StepsFit
  <2> QED
    BY <1>1, <1>4, <2>2, <2>3, <2>4, <2>5, <2>6 DEF OwnOps, AdminOps, SelfOps, SignIns
<1> QED
  BY <1>3, <1>4

\* So is a deletion; the one that ends a change of address leaves the account elsewhere.
LEMMA RemoveIsOperation ==
  ASSUME Inv, SerialInv, NEW c \in Clients, req[c].at = "remove", up, up',
         users' = Without(req[c].old)
  PROVE  Serially!Serving \/ UNCHANGED <<users, up>>
<1> DEFINE o == req[c].old
<1>1. InHand(users, req[c]) /\ o \in Emails
  BY EmailOK DEF SerialInv
<1>2. CASE o \notin DOMAIN users
  <2>1. users = [x \in DOMAIN users |-> users[x]] /\ up \in BOOLEAN /\ up' \in BOOLEAN
    BY DEF Inv, UsersOK
  <2>2. DOMAIN users \ {o} = DOMAIN users
    BY <1>2
  <2> QED
    BY <2>1, <2>2 DEF Without
<1>3. CASE o \in DOMAIN users
  <2>1. Serially!Known(o) /\ Serially!Removed(o)
    BY <1>3 DEF Without, Serially!Known, Serially!Removed, Serially!Only
  <2>2. CASE req[c].op = "email"
    <3>1. \E f \in DOMAIN users \ {o} : users[f] = users[o]
      BY <1>1, <2>2 DEF InHand, Moves
    <3>2. Serially!Leave(o)
      BY <2>1, <3>1 DEF Serially!Leave
    <3> QED
      BY <1>1, <3>2 DEF Serially!Serving
  <2>3. CASE req[c].op = "delete"
    <3>1. EnabledAdmin(users[o]) => Others(users, o)
      BY <1>1, <1>3, <2>3 DEF InHand, StepsFit, Spares
    <3>2. Serially!Delete(o)
      BY <2>1, <3>1 DEF EnabledAdmin, Others, Serially!Delete, Serially!Admin,
        Serially!AnotherAdmin
    <3> QED
      BY <1>1, <3>2 DEF Serially!Serving
  <2> QED
    BY <1>1, <2>2, <2>3 DEF InHand, StepsFit
<1> QED
  BY <1>2, <1>3

\* While the server is down, the operator and the next start are alone with the bucket.
LEMMA DownIsMaintenance ==
  ASSUME Inv, SerialInv, [Next]_vars, ~up
  PROVE  Serially!Maintenance \/ UNCHANGED <<users, up>>
<1>1. ASSUME NEW c \in Clients PROVE ~Arriving(c) /\ ~Handling(c)
  <2>1. req[c].at = "idle"
    BY DEF SerialInv, Idle
  <2> QED
    BY <2>1 DEF Arriving, AdminArrive, SelfArrive, PasswordLogin, ProvisionOIDC, Handling,
      CreateRead, UpdateRead, DeleteRead, Guard, NilUser, SafeRecover, Refuse, ChangeEmail,
      EmailLookup, ChangePassword, TwoFASetup, TwoFAConfirm, TwoFADisable,
      TwoFARecoveryRegenerate, SelfRead, SpendCode, Write, Remove, StoreError
<1>2. ASSUME NEW e, NEW u PROVE users' = With(e, u) => Serially!Only(e)
  BY DEF With, Serially!Only
<1>3. CASE Start
  <2>1. /\ UNCHANGED users
           \/ \E u : users' = With(Bootstrap, u)
        /\ up' = (HasOIDC \/ \E e \in DOMAIN users' : users'[e].role = "admin")
    BY <1>3 DEF Start
  <2> QED
    BY <1>2, <2>1, AccountsAssumption DEF Serially!Maintenance
<1>4. CASE OperatorStep
  <2>1. ~up' /\ \E e \in Emails : (\E u : users' = With(e, u)) \/ users' = Without(e)
    <3>1. ASSUME NEW e \in Emails, OperatorDelete(e)
          PROVE  ~up' /\ users' = Without(e)
      BY <3>1 DEF OperatorDelete
    <3>2. ASSUME NEW e \in Emails, NEW role \in Roles, OperatorCreate(e, role)
          PROVE  ~up' /\ \E u : users' = With(e, u)
      <4> DEFINE base == IF e \in DOMAIN users THEN users[e]
                         ELSE NewUser(e, role, TRUE, FALSE, NoPassword)
      <4>1. PICK pw \in Passwords \cup {base.pw} :
              users' = With(e, [base EXCEPT !.role = role, !.enabled = TRUE, !.pw = pw,
                                            !.pinned = (role = "admin")])
        BY <3>2 DEF OperatorCreate
      <4> HIDE DEF base
      <4> QED
        BY <3>2, <4>1 DEF OperatorCreate
    <3>4. ASSUME NEW e \in Emails, NEW role \in Roles, OperatorSetRole(e, role)
          PROVE  ~up' /\ \E u : users' = With(e, u)
      BY <3>4 DEF OperatorSetRole
    <3>3. ASSUME NEW e \in Emails, NEW pw \in Passwords, OperatorResetPassword(e, pw)
          PROVE  ~up' /\ \E u : users' = With(e, u)
      BY <3>3 DEF OperatorResetPassword
    <3> QED
      BY <1>4, <3>1, <3>2, <3>3, <3>4 DEF OperatorStep
  <2>2. ASSUME NEW e PROVE users' = Without(e) => Serially!Only(e)
    BY DEF Without, Serially!Only
  <2> QED
    BY <1>2, <2>1, <2>2 DEF Serially!Maintenance
<1>5. ~Stop
  BY DEF Stop
<1>6. CASE UNCHANGED vars
  BY <1>6 DEF vars
<1> QED
  BY <1>1, <1>3, <1>4, <1>5, <1>6 DEF Next

\* One request at a time, the handlers implement Directory: their several transactions come
\* to one operation that finds what it requires, whatever fails or restarts in between.
THEOREM SerialRefinement ==
  ASSUME Serial
  PROVE  Spec => ImplementsDirectory
<1>1. Init => Serially!Init
  BY DEF Init, Serially!Init
<1>2. Inv /\ SerialInv /\ Inv' /\ [Next]_vars => [Serially!Next]_<<users, up>>
  <2> SUFFICES ASSUME Inv, SerialInv, Inv', [Next]_vars
               PROVE  Serially!Next \/ UNCHANGED <<users, up>>
    OBVIOUS
  <2>1. CASE ~up
    BY <2>1, DownIsMaintenance DEF Serially!Next
  <2>2. CASE up
    <3>1. CASE UNCHANGED users
      <4>1. up \in BOOLEAN /\ up' \in BOOLEAN
        BY DEF Inv
      <4> QED
        BY <2>2, <3>1, <4>1 DEF Serially!Next, Serially!Serving
    <3> QED
      BY <2>2, <3>1, RunningChanges, WriteIsOperation, RemoveIsOperation DEF Serially!Next
  <2> QED
    BY <2>1, <2>2
<1> QED
  BY <1>1, <1>2, InvHolds, SerialHolds, PTL DEF Spec, ImplementsDirectory, Serially!Spec

-----------------------------------------------------------------------------
(* Recovery codes, one request at a time. Transactions must not fail (a     *)
(* sign-in goes on when its code could not be taken out of the record), and *)
(* nobody may change the address, which has two records with the same codes *)
(* for a while, or for good when the server stops between the transactions. *)

\* Shown to somebody and not used yet.
Open == issued \ accepted

\* Apart from the account e, nobody has one of the codes cs.
Private(us, cs, e) == \A f \in DOMAIN us \ {e} : cs \cap us[f].codes = {}

\* The code of a sign-in in progress is open, and its copy is without it.
Given(us, open, r) ==
  r.code # NoCode =>
    /\ r.at \in {"spend", "write"}
    /\ r.code \in open /\ r.code \notin r.copy.codes
    /\ Private(us, {r.code}, r.email)

CodesInHand(us, open, r) ==
  /\ r.op # "email"
  /\ r.copy.codes \subseteq open /\ Private(us, r.copy.codes, r.email)
  /\ Given(us, open, r)

CodesStored(us, open) ==
  \A e \in DOMAIN us : us[e].codes \subseteq open /\ Private(us, us[e].codes, e)

CodeInv ==
  /\ accepted \subseteq issued /\ reused = {}
  /\ CodesStored(users, Open)
  /\ \A c \in Clients : CodesInHand(users, Open, req[c])

LEMMA IdleCodes == ASSUME NEW us, NEW open PROVE CodesInHand(us, open, Idle)
BY DEF CodesInHand, Given, Private, Idle, NewUser

\* The one slot moves on, and the records stay or become r's business.
LEMMA AloneWithCodes ==
  ASSUME Inv, Serial, NEW c \in Clients, NEW r, req' = [req EXCEPT ![c] = r],
         accepted' \subseteq issued', reused' = {},
         CodesStored(users', Open'), CodesInHand(users', Open', r)
  PROVE  CodeInv'
<1>1. \A d \in Clients : req'[d] = r
  BY DEF Inv, RequestsOK, Serial
<1> QED
  BY <1>1 DEF CodeInv

\* Nothing but the request moves on.
LEMMA CodesUntouched ==
  ASSUME Inv, CodeInv, Serial, NEW c \in Clients, NEW r, req' = [req EXCEPT ![c] = r],
         UNCHANGED <<users, codeHistory>>, CodesInHand(users, Open, r)
  PROVE  CodeInv'
<1>1. accepted' \subseteq issued' /\ reused' = {} /\ Open' = Open
  BY DEF CodeInv, codeHistory, Open
<1> QED
  BY <1>1, AloneWithCodes DEF CodeInv

\* The handler is done, or did no more than look.
LEMMA CodesStep ==
  ASSUME Inv, CodeInv, Serial, NEW c \in Clients, NEW step \in Steps,
         Finish(c) \/ (GoTo(c, step) /\ (req[c].code # NoCode => step = "write")),
         UNCHANGED <<users, codeHistory>>
  PROVE  CodeInv'
<1> DEFINE r == [req[c] EXCEPT !.at = step]
<1>1. CASE Finish(c)
  BY <1>1, IdleCodes, CodesUntouched DEF Finish
<1>2. CASE GoTo(c, step) /\ (req[c].code # NoCode => step = "write")
  <2>1. /\ r.at = step /\ r.op = req[c].op /\ r.email = req[c].email
        /\ r.copy = req[c].copy /\ r.code = req[c].code
    BY EmailOK DEF Requests
  <2>2. req' = [req EXCEPT ![c] = r]
    BY <1>2 DEF GoTo
  <2> HIDE DEF r
  <2>3. CodesInHand(users, Open, r)
    BY <1>2, <2>1 DEF CodeInv, CodesInHand, Given
  <2> QED
    BY <2>2, <2>3, CodesUntouched
<1> QED
  BY <1>1, <1>2

\* The handler takes a copy with new codes, with those of the record, or without any.
LEMMA CodesHeld ==
  ASSUME Inv, CodeInv, Serial, NEW c \in Clients, NEW step, NEW u, NEW new \in SUBSET (Codes \ issued),
         req[c].at = "read", Hold(c, step, u), users' = users,
         issued' = issued \cup new, UNCHANGED <<accepted, reused>>,
         \/ u.codes = {} \/ u.codes = new
         \/ req[c].email \in DOMAIN users /\ u.codes = users[req[c].email].codes
  PROVE  CodeInv'
<1> DEFINE e == req[c].email
           r == [req[c] EXCEPT !.at = step, !.copy = u]
<1>1. /\ r.op = req[c].op /\ r.email = e /\ r.copy = u /\ r.code = req[c].code
      /\ req' = [req EXCEPT ![c] = r]
  BY EmailOK DEF Requests, Hold
<1>2. r.code = NoCode /\ r.op # "email"
  BY <1>1 DEF CodeInv, CodesInHand, Given
<1> HIDE DEF r
<1>3. accepted' \subseteq issued' /\ reused' = {} /\ Open \subseteq Open' /\ new \subseteq Open'
  BY DEF CodeInv, Open, Inv, HistoryOK
<1>4. CodesStored(users', Open')
  BY <1>3 DEF CodeInv, CodesStored
<1>5. u.codes \subseteq Open' /\ Private(users', u.codes, e)
  <2>1. CASE u.codes = {}
    BY <2>1 DEF Private
  <2>2. CASE u.codes = new
    BY <1>3, <2>2 DEF CodeInv, CodesStored, Private, Open
  <2>3. CASE e \in DOMAIN users /\ u.codes = users[e].codes
    BY <1>3, <2>3 DEF CodeInv, CodesStored
  <2> QED
    BY <2>1, <2>2, <2>3
<1>6. CodesInHand(users', Open', r)
  BY <1>1, <1>2, <1>5 DEF CodesInHand, Given
<1> QED
  BY <1>1, <1>3, <1>4, <1>6, AloneWithCodes

LEMMA CodesArriving ==
  ASSUME Inv, CodeInv, Serial, "email" \notin Ops, NEW c \in Clients, Arriving(c)
  PROVE  CodeInv'
<1>1. ASSUME NEW actor \in DOMAIN users, NEW op \in AdminOps, NEW e \in Emails,
             AdminArrive(c, actor, op, e)
      PROVE  CodeInv'
  <2> DEFINE r == [Idle EXCEPT !.at = "read", !.op = op, !.email = e, !.old = e,
                               !.byAdmin = users[actor].role = "admin"]
  <2>1. CodesInHand(users, Open, r)
    BY DEF CodesInHand, Given, Private, Idle, NewUser, AdminOps
  <2> QED
    BY <1>1, <2>1, CodesUntouched DEF AdminArrive, history
<1>2. ASSUME NEW actor \in DOMAIN users, NEW op \in SelfOps, SelfArrive(c, actor, op)
      PROVE  CodeInv'
  <2> DEFINE r == [Idle EXCEPT !.at = "read", !.op = op, !.email = actor, !.old = actor]
  <2>1. op # "email"
    BY <1>2 DEF SelfArrive
  <2>2. CodesInHand(users, Open, r)
    BY <2>1 DEF CodesInHand, Given, Private, Idle, NewUser
  <2> QED
    BY <1>2, <2>2, CodesUntouched DEF SelfArrive, history
<1>3. ASSUME NEW e \in Emails, PasswordLogin(c, e)
      PROVE  CodeInv'
  <2>1. PICK step \in {"write", "spend"}, u \in User, code \in Codes \cup {NoCode} :
          /\ StartWith(c, "login", e, step, u, code)
          /\ u.codes \subseteq users[e].codes
          /\ code = NoCode \/ code \in users[e].codes \ u.codes
    <3>1. users[e] \in User
      BY <1>3, RecordOK DEF PasswordLogin, Usable
    <3>2. CASE StartWith(c, "login", e, "write", users[e], NoCode)
      BY <3>1, <3>2
    <3>3. CASE ~StartWith(c, "login", e, "write", users[e], NoCode)
      <4>1. PICK k \in users[e].codes :
              StartWith(c, "login", e, "spend", [users[e] EXCEPT !.codes = @ \ {k}], k)
        BY <1>3, <3>3 DEF PasswordLogin
      <4> DEFINE u == [users[e] EXCEPT !.codes = @ \ {k}]
      <4>2. u \in User /\ u.codes = users[e].codes \ {k} /\ k \in Codes
        BY <3>1 DEF User
      <4> HIDE DEF u
      <4>3. StartWith(c, "login", e, "spend", u, k)
        BY <4>1 DEF u
      <4> QED
        BY <4>2, <4>3
    <3> QED
      BY <3>2, <3>3
  <2> DEFINE r == [Idle EXCEPT !.at = step, !.op = "login", !.email = e, !.old = e,
                               !.copy = u, !.code = code]
  <2>2. /\ r.at = step /\ r.op = "login" /\ r.email = e /\ r.copy = u /\ r.code = code
        /\ req' = [req EXCEPT ![c] = r]
    BY <2>1 DEF Idle, StartWith
  <2> HIDE DEF r
  <2>3. users[e].codes \subseteq Open /\ Private(users, users[e].codes, e)
    BY <1>3 DEF CodeInv, CodesStored, PasswordLogin, Usable
  <2>4. CodesInHand(users, Open, r)
    BY <2>1, <2>2, <2>3 DEF CodesInHand, Given, Private
  <2> QED
    BY <1>3, <2>2, <2>4, CodesUntouched DEF PasswordLogin, history
<1>4. ASSUME NEW e \in Emails, NEW rule \in Rules, ProvisionOIDC(c, e, rule)
      PROVE  CodeInv'
  <2> DEFINE known  == e \in DOMAIN users
             base   == IF known THEN users[e] ELSE NewUser(e, "user", TRUE, FALSE, NoPassword)
             pinned == rule = "pin" \/ base.pinned
             role   == IF pinned THEN "admin" ELSE rule
             u      == [base EXCEPT !.role = role, !.pinned = pinned]
             r      == [Idle EXCEPT !.at = "write", !.op = "oidc", !.email = e, !.old = e,
                                    !.copy = u, !.code = NoCode]
  <2>1. u.codes = {} \/ (known /\ u.codes = users[e].codes)
    <3>1. CASE known
      <4>1. users[e] \in User
        BY <3>1, RecordOK
      <4> QED
        BY <3>1, <4>1 DEF User
    <3>2. CASE ~known
      <4>1. base \in [role : {"user"}, enabled : BOOLEAN, pinned : BOOLEAN, pw : {NoPassword},
                      totp : {"off"}, codes : {{}}, who : Emails]
        BY <3>2 DEF NewUser
      <4> HIDE DEF base
      <4> QED
        BY <4>1
    <3> QED
      BY <3>1, <3>2
  <2>2. /\ r.op = "oidc" /\ r.email = e /\ r.copy = u /\ r.code = NoCode
        /\ req' = [req EXCEPT ![c] = r] /\ UNCHANGED <<users, codeHistory>>
    BY <1>4 DEF Idle, StartWith, ProvisionOIDC
  <2> HIDE DEF r, u
  <2>3. CodesInHand(users, Open, r)
    BY <2>1, <2>2 DEF CodesInHand, Given, Private, CodeInv, CodesStored
  <2> QED
    BY <2>2, <2>3, CodesUntouched
<1> QED
  BY <1>1, <1>2, <1>3, <1>4 DEF Arriving

LEMMA CodesManagement ==
  ASSUME Inv, CodeInv, Serial, NEW c \in Clients,
         CreateRead(c) \/ UpdateRead(c) \/ DeleteRead(c) \/ Guard(c)
  PROVE  CodeInv'
<1> DEFINE e == req[c].email
<1>0. ASSUME NEW step, NEW u, req[c].at = "read", Hold(c, step, u), UNCHANGED <<users, codeHistory>>,
             \/ u.codes = {}
             \/ e \in DOMAIN users /\ u.codes = users[e].codes
      PROVE  CodeInv'
  <2> DEFINE new == {}
  <2>1. new \in SUBSET (Codes \ issued) /\ issued' = issued \cup new /\ UNCHANGED <<accepted, reused>>
    BY <1>0 DEF codeHistory
  <2> QED
    BY <1>0, <2>1, CodesHeld
<1>1. CASE CreateRead(c)
  <2>1. PICK role \in Roles, enabled \in BOOLEAN, pw \in Passwords \cup {NoPassword} :
          LET u == NewUser(e, role, enabled, FALSE, pw)
          IN Hold(c, "write", u) /\ granted' = granted \cup GrantedBy(c, u)
    BY <1>1 DEF CreateRead
  <2> DEFINE u == NewUser(e, role, enabled, FALSE, pw)
  <2>2. u.codes = {} /\ Hold(c, "write", u)
    BY <2>1 DEF NewUser
  <2>3. req[c].at = "read" /\ UNCHANGED <<users, codeHistory>>
    BY <1>1 DEF CreateRead
  <2> HIDE DEF u
  <2> QED
    BY <1>0, <2>2, <2>3
<1>2. CASE UpdateRead(c)
  <2>1. PICK role \in Roles, enabled \in BOOLEAN, pw \in Passwords \cup {NoPassword},
             clear \in BOOLEAN :
          LET next == [users[e] EXCEPT !.role = role, !.enabled = enabled, !.pw = pw,
                                       !.totp  = IF clear THEN "off" ELSE @,
                                       !.codes = IF clear THEN {} ELSE @]
              step == IF EnabledAdmin(users[e]) /\ ~EnabledAdmin(next) THEN "guard" ELSE "write"
          IN Hold(c, step, next) /\ granted' = granted \cup GrantedBy(c, next)
    BY <1>2 DEF UpdateRead
  <2> DEFINE next == [users[e] EXCEPT !.role = role, !.enabled = enabled, !.pw = pw,
                                      !.totp  = IF clear THEN "off" ELSE @,
                                      !.codes = IF clear THEN {} ELSE @]
             step == IF EnabledAdmin(users[e]) /\ ~EnabledAdmin(next) THEN "guard" ELSE "write"
  <2>2. /\ users[e] \in User /\ e \in DOMAIN users /\ req[c].at = "read"
        /\ UNCHANGED <<users, codeHistory>>
    BY <1>2, RecordOK DEF UpdateRead
  <2>3. next.codes = {} \/ next.codes = users[e].codes
    BY <2>2 DEF User
  <2>4. Hold(c, step, next)
    BY <2>1
  <2> HIDE DEF next, step
  <2> QED
    BY <1>0, <2>2, <2>3, <2>4
<1>3. CASE DeleteRead(c)
  <2>1. PICK step : Hold(c, step, users[e])
    BY <1>3 DEF DeleteRead
  <2> QED
    BY <1>0, <1>3, <2>1 DEF DeleteRead, history
<1>4. CASE Guard(c)
  <2>1. req[c].code = NoCode
    BY <1>4 DEF Guard, CodeInv, CodesInHand, Given
  <2>2. Finish(c) \/ GoTo(c, "remove") \/ GoTo(c, "write")
    BY <1>4 DEF Guard
  <2> QED
    BY <1>4, <2>1, <2>2, CodesStep DEF Guard, history, Steps
<1> QED
  BY <1>1, <1>2, <1>3, <1>4

\* New codes are codes that nobody has been shown.
LEMMA CodesPages ==
  ASSUME Inv, CodeInv, Serial, NEW c \in Clients,
         \/ NilUser(c) \/ SafeRecover(c) \/ Refuse(c)
         \/ ChangeEmail(c) \/ EmailLookup(c) \/ ChangePassword(c)
         \/ TwoFASetup(c) \/ TwoFAConfirm(c) \/ TwoFADisable(c) \/ TwoFARecoveryRegenerate(c)
  PROVE  CodeInv'
<1> DEFINE e == req[c].email
<1>1. CASE SafeRecover(c) \/ Refuse(c) \/ NilUser(c) \/ EmailLookup(c)
  <2>1. req[c].code = NoCode
    BY <1>1 DEF SafeRecover, Refuse, NilUser, EmailLookup, CodeInv, CodesInHand, Given
  <2>2. Finish(c) \/ GoTo(c, "panicked") \/ GoTo(c, "write")
    BY <1>1 DEF SafeRecover, Refuse, NilUser, EmailLookup
  <2>3. UNCHANGED <<users, codeHistory>>
    BY <1>1 DEF SafeRecover, Refuse, NilUser, EmailLookup, history
  <2> QED
    BY <2>1, <2>2, <2>3, CodesStep DEF Steps
<1>2. ~ChangeEmail(c)
  <2>1. req[c].op # "email"
    BY DEF CodeInv, CodesInHand
  <2>2. ChangeEmail(c) => SelfRead(c, "email")
    BY Zenon DEF ChangeEmail
  <2> QED
    BY <2>1, <2>2 DEF SelfRead
<1> DEFINE u == Self(c)
<1>3. ASSUME NEW op, SelfRead(c, op)
      PROVE  req[c].at = "read" /\ e \in DOMAIN users /\ u \in User /\ u.codes = users[e].codes
  BY <1>3, RecordOK DEF SelfRead, Usable, Self
<1>4. ASSUME NEW op, SelfRead(c, op), NEW v, Hold(c, "write", v), UNCHANGED <<users, codeHistory>>,
             v.codes = {} \/ v.codes = u.codes
      PROVE  CodeInv'
  <2> DEFINE new == {}
  <2>1. /\ new \in SUBSET (Codes \ issued) /\ issued' = issued \cup new
        /\ UNCHANGED <<accepted, reused>> /\ users' = users
    BY <1>4 DEF codeHistory
  <2> HIDE DEF new, u
  <2> QED
    BY <1>3, <1>4, <2>1, CodesHeld
<1>5. ASSUME NEW op, SelfRead(c, op), NEW v, Hold(c, "write", v), NEW new \in FreshCodes,
             issued' = issued \cup new, UNCHANGED <<users, accepted, reused>>, v.codes = new
      PROVE  CodeInv'
  <2> HIDE DEF u
  <2> QED
    BY <1>3, <1>5, CodesHeld DEF FreshCodes
<1>6. CASE ChangePassword(c)
  <2>1. PICK pw \in Passwords : Hold(c, "write", [u EXCEPT !.pw = pw])
    BY <1>6 DEF ChangePassword
  <2>2. [u EXCEPT !.pw = pw].codes = u.codes
    BY <1>3, <1>6 DEF ChangePassword, User
  <2> QED
    BY <1>4, <1>6, <2>1, <2>2 DEF ChangePassword, history
<1>7. CASE TwoFASetup(c)
  <2>1. [u EXCEPT !.totp = "pending"].codes = u.codes
    BY <1>3, <1>7 DEF TwoFASetup, User
  <2> QED
    BY <1>4, <1>7, <2>1 DEF TwoFASetup, history
<1>8. CASE TwoFADisable(c)
  <2>1. [u EXCEPT !.totp = "off", !.codes = {}].codes = {}
    BY <1>3, <1>8 DEF TwoFADisable, User
  <2> QED
    BY <1>4, <1>8, <2>1 DEF TwoFADisable, history
<1>9. CASE TwoFAConfirm(c)
  <2>1. PICK new \in FreshCodes :
          /\ Hold(c, "write", [u EXCEPT !.totp = "on", !.codes = new])
          /\ issued' = issued \cup new
    BY <1>9 DEF TwoFAConfirm
  <2>2. [u EXCEPT !.totp = "on", !.codes = new].codes = new
    BY <1>3, <1>9 DEF TwoFAConfirm, User
  <2> QED
    BY <1>5, <1>9, <2>1, <2>2 DEF TwoFAConfirm
<1>10. CASE TwoFARecoveryRegenerate(c)
  <2>1. PICK new \in FreshCodes :
          Hold(c, "write", [u EXCEPT !.codes = new]) /\ issued' = issued \cup new
    BY <1>10 DEF TwoFARecoveryRegenerate
  <2>2. [u EXCEPT !.codes = new].codes = new
    BY <1>3, <1>10 DEF TwoFARecoveryRegenerate, User
  <2> QED
    BY <1>5, <1>10, <2>1, <2>2 DEF TwoFARecoveryRegenerate
<1> QED
  BY <1>1, <1>2, <1>6, <1>7, <1>8, <1>9, <1>10

LEMMA CodesTransactions ==
  ASSUME Inv, CodeInv, Serial, ~StoreFails, NEW c \in Clients,
         SpendCode(c) \/ Write(c) \/ Remove(c) \/ StoreError(c)
  PROVE  CodeInv'
<1> DEFINE e == req[c].email
           u == req[c].copy
           k == req[c].code
<1>0. /\ req[c].op # "email" /\ u.codes \subseteq Open /\ Private(users, u.codes, e)
      /\ Given(users, Open, req[c]) /\ CodesStored(users, Open)
      /\ accepted \subseteq issued /\ reused = {}
  BY DEF CodeInv, CodesInHand
\* Saving the copy takes the code out of the only record that had it.
<1>1. CASE SpendCode(c)
  <2> DEFINE r == [req[c] EXCEPT !.at = "write"]
  <2>1. users' = With(e, u) /\ req' = [req EXCEPT ![c] = r] /\ UNCHANGED codeHistory
    BY <1>1 DEF SpendCode, GoTo, history
  <2>2. r.at = "write" /\ r.op = req[c].op /\ r.email = e /\ r.copy = u /\ r.code = k
    BY EmailOK DEF Requests
  <2>3. accepted' \subseteq issued' /\ reused' = {} /\ Open' = Open
    BY <1>0, <2>1 DEF codeHistory, Open
  <2> HIDE DEF r
  <2>4. CodesStored(users', Open)
    BY <1>0, <2>1 DEF CodesStored, Private, With
  <2>5. CodesInHand(users', Open, r)
    BY <1>0, <2>1, <2>2 DEF CodesInHand, Given, Private, With
  <2> QED
    BY <2>1, <2>3, <2>4, <2>5, AloneWithCodes
\* No record has the code when the sign-in that gave it is over.
<1>2. CASE Write(c)
  <2>1. users' = With(e, u) /\ Finish(c) /\ SignedIn(c)
    BY <1>0, <1>2 DEF Write
  <2>2. /\ issued' = issued /\ accepted' = accepted \cup ({k} \ {NoCode})
        /\ reused' = reused \cup ({k} \cap accepted)
    BY <2>1 DEF SignedIn
  <2>3. NoCode \notin accepted
    BY AccountsAssumption DEF Inv, HistoryOK
  <2>4. accepted' \subseteq issued' /\ reused' = {} /\ Open' = Open \ ({k} \ {NoCode})
    BY <1>0, <2>2, <2>3 DEF Given, Open
  <2>5. CodesStored(users', Open')
    BY <1>0, <2>1, <2>4 DEF CodesStored, Private, Given, With
  <2> QED
    BY <2>1, <2>4, <2>5, IdleCodes, AloneWithCodes DEF Finish
<1>3. CASE Remove(c)
  <2>1. users' = Without(req[c].old) /\ Finish(c) /\ UNCHANGED codeHistory
    BY <1>3 DEF Remove, history
  <2>2. CodesStored(users', Open)
    BY <1>0, <2>1 DEF CodesStored, Private, Without
  <2>3. accepted' \subseteq issued' /\ reused' = {} /\ Open' = Open
    BY <1>0, <2>1 DEF codeHistory, Open
  <2> QED
    BY <2>1, <2>2, <2>3, IdleCodes, AloneWithCodes DEF Finish
<1> QED
  BY <1>1, <1>2, <1>3 DEF StoreError

\* No command and no start gives anybody codes.
LEMMA CodesOffline ==
  ASSUME Inv, CodeInv, Start \/ Stop \/ OperatorStep
  PROVE  CodeInv'
<1>1. accepted' \subseteq issued' /\ reused' = {} /\ Open' = Open
  <2>1. UNCHANGED codeHistory
    BY DEF Start, Stop, OperatorStep, OperatorDelete, OperatorCreate, OperatorSetRole,
      OperatorResetPassword, history
  <2> QED
    BY <2>1 DEF codeHistory, CodeInv, Open
<1> DEFINE NoMoreCodes ==
             \A f \in DOMAIN users' :
               \/ users'[f].codes = {}
               \/ f \in DOMAIN users /\ users'[f].codes = users[f].codes
<1>2. NoMoreCodes
  <2>1. ASSUME NEW f \in Emails, NEW u, users' = With(f, u),
               u.codes = {} \/ (f \in DOMAIN users /\ u.codes = users[f].codes)
        PROVE  NoMoreCodes
    BY <2>1 DEF With
  <2>2. CASE Stop
    BY <2>2 DEF Stop
  <2>3. CASE Start
    <3>1. CASE users' = users
      BY <2>3, <3>1 DEF Start
    <3> DEFINE u == NewUser(Bootstrap, "admin", TRUE, TRUE, SeedPassword)
    <3>2. u.codes = {}
      BY DEF NewUser
    <3>3. CASE users' = With(Bootstrap, u)
      BY <2>1, <2>3, <3>2, <3>3, AccountsAssumption DEF Start
    <3> QED
      BY <2>3, <3>1, <3>3 DEF Start
  <2>4. ASSUME NEW e \in Emails, OperatorDelete(e)
        PROVE  NoMoreCodes
    BY <2>4 DEF OperatorDelete, Without
  <2>5. ASSUME NEW e \in Emails, NEW role \in Roles, OperatorCreate(e, role)
        PROVE  NoMoreCodes
    <3> DEFINE base == IF e \in DOMAIN users THEN users[e]
                       ELSE NewUser(e, role, TRUE, FALSE, NoPassword)
    <3>1. PICK pw \in Passwords \cup {base.pw} :
            users' = With(e, [base EXCEPT !.role = role, !.enabled = TRUE, !.pw = pw,
                                          !.pinned = (role = "admin")])
      BY <2>5 DEF OperatorCreate
    <3> DEFINE u == [base EXCEPT !.role = role, !.enabled = TRUE, !.pw = pw,
                                 !.pinned = (role = "admin")]
    <3>2. base \in User /\ (base.codes = {} \/ (e \in DOMAIN users /\ base.codes = users[e].codes))
      <4>1. NewUser(e, role, TRUE, FALSE, NoPassword) \in User
            /\ NewUser(e, role, TRUE, FALSE, NoPassword).codes = {}
        BY DEF NewUser, User
      <4> QED
        BY <4>1, RecordOK
    <3> HIDE DEF base
    <3>3. u.codes = base.codes
      BY <3>2 DEF User
    <3>4. users' = With(e, u)
      BY <2>5, <3>1 DEF OperatorCreate
    <3> HIDE DEF u
    <3> QED
      BY <2>1, <3>2, <3>3, <3>4
  <2>6. ASSUME NEW e \in Emails, NEW role \in Roles, OperatorSetRole(e, role)
        PROVE  NoMoreCodes
    <3> DEFINE u == [users[e] EXCEPT !.role = role, !.pinned = (role = "admin")]
    <3>1. users' = With(e, u) /\ e \in DOMAIN users
      BY <2>6 DEF OperatorSetRole
    <3>2. u.codes = users[e].codes
      BY <3>1, RecordOK DEF User
    <3> HIDE DEF u
    <3> QED
      BY <2>1, <3>1, <3>2
  <2>7. ASSUME NEW e \in Emails, NEW pw, OperatorResetPassword(e, pw)
        PROVE  NoMoreCodes
    <3> DEFINE u == [users[e] EXCEPT !.pw = pw]
    <3>1. users' = With(e, u) /\ e \in DOMAIN users
      BY <2>7 DEF OperatorResetPassword
    <3>2. u.codes = users[e].codes
      BY <3>1, RecordOK DEF User
    <3> HIDE DEF u
    <3> QED
      BY <2>1, <3>1, <3>2
  <2> QED
    BY <2>2, <2>3, <2>4, <2>5, <2>6, <2>7 DEF OperatorStep
<1>3. \A c \in Clients : req'[c] = Idle \/ req'[c] = req[c]
  BY DEF Start, Stop, OperatorStep, OperatorDelete, OperatorCreate, OperatorSetRole,
    OperatorResetPassword
<1> HIDE DEF NoMoreCodes
<1>4. \A cs, f : Private(users, cs, f) => Private(users', cs, f)
  BY <1>2 DEF NoMoreCodes, Private
<1>5. CodesStored(users', Open')
  BY <1>1, <1>2, <1>4 DEF NoMoreCodes, CodeInv, CodesStored, Private
<1>6. \A c \in Clients : CodesInHand(users', Open', req'[c])
  BY <1>1, <1>3, <1>4, IdleCodes DEF CodeInv, CodesInHand, Given
<1> QED
  BY <1>1, <1>5, <1>6 DEF CodeInv

\* One request at a time, with transactions that succeed and no change of address, a
\* recovery code signs in once: that it does so twice (CodeSpentOnce is violated with two
\* requests) is the interleaving's doing. Operators, providers and crashes do no harm.
THEOREM CodesWorkOnce ==
  ASSUME Serial, ~StoreFails, "email" \notin Ops
  PROVE  Spec => []CodeSpentOnce
<1>1. Init => CodeInv
  BY IdleCodes DEF Init, CodeInv, CodesStored
<1>2. Inv /\ CodeInv /\ [Next]_vars => CodeInv'
  <2> SUFFICES ASSUME Inv, CodeInv, [Next]_vars PROVE CodeInv'
    OBVIOUS
  <2>1. ASSUME NEW c \in Clients, Handling(c) PROVE CodeInv'
    BY <2>1, CodesManagement, CodesPages, CodesTransactions DEF Handling
  <2>2. CASE UNCHANGED vars
    BY <2>2 DEF vars, CodeInv, Open
  <2> QED
    BY <2>1, <2>2, CodesArriving, CodesOffline DEF Next
<1>3. CodeInv => CodeSpentOnce
  BY DEF CodeInv, CodeSpentOnce
<1> QED
  BY <1>1, <1>2, <1>3, InvHolds, PTL DEF Spec

=============================================================================
