# secret-share: TLA+ models, model checking and proofs

secret-share is a Go server that keeps encrypted text and files for a short
time and hands each out once, or a chosen number of times, to whoever has the
link. This directory holds TLA+ models of its server side, the TLC runs that
check them and TLAPS proofs about them. Paths below are relative to
`src/internal/` unless they start with `src/`.

## The system

All durable state is one bbolt file with a bucket per kind of record. bbolt
serialises write transactions and makes each one atomic and durable, but **no
transaction of this program spans two buckets**, and most handlers run several
transactions in a row. What can go wrong lies between those transactions.

| component | state it keeps | operations | interacts with |
|---|---|---|---|
| secret lifecycle (`domain/secrets`, `models/secret`) | bucket secrets: id → ciphertext, expiry | Create, Meta (reaps lazily), Reveal (peek, then burn), DeleteExpired every sweep interval | wrapped by the next two |
| multi-view budgets (`server/multiview.go`, `domain/secretviews`) | bucket views: id → remaining views, copy of the ciphertext | captureViews after a create, multiViewReveal before a reveal, annotateViewsMeta after a meta | the secret it counts for |
| visibility and reveal gate (`server/middleware.go`, `domain/secretvis`) | bucket visibility: ids marked private | revealGate before meta and reveal, captureVisibility and captureFileVisibility after a create, dropVisibilityOnBurn after a reveal | secrets, files, sessions |
| orphan sweepers (`cli/serve.go`) | a list of ids in memory | list; look each id up among the secrets; delete the orphan | all three buckets |
| files (`domain/files`, `models/file`) | bucket files: id → ciphertext, expiry | Create, Meta, Reveal (burn checks the expiry), DeleteExpired | visibility bucket, gate |
| user management (`domain/users`, `models/user`) | bucket users: e-mail → record | admin create, update, delete, with a last-admin guard | every sign-in path |
| password sign-in, account settings (`domain/auth/handler.go`, `account.go`, `core/session`) | users; signed session cookies | sign in, change e-mail, change password | users, second factor |
| two-factor authentication (`domain/auth/2fa.go`, `core/totp`) | fields of the user record | set up, confirm, disable, recovery codes | sign-in |
| passkeys (`domain/auth/webauthn.go`, `core/passkey`) | fields of the user record; a sealed ceremony cookie | register, sign in, delete | sign-in |
| OIDC (`domain/auth/oidc.go`, `core/oidc`) | a flow cookie; users it provisions | start, callback, provision, Admit, RoleFor | identity provider, users |
| bootstrap and user commands (`cli/serve.go`, `cli/user.go`) | users | seed the first admin, refuse to start without one, offline user commands | users |
| HTTP guards (`server/middleware.go`, `routes.go`) | per-address counters in memory | session, role and origin checks, rate limits | every route |
| configuration (`core/env`) | the loaded file | Load, Validate, duration getters | all |
| server, TLS, metrics, logger; storage provider; encryption at rest; browser application | – | – | – |

What is hard, per component, and what makes it correct:

* **Secrets and budgets.** A reveal is `Views.Consume` and then
  `Secrets.GetAndBurn`, two transactions that race with other reveals, with
  metas, three sweepers and the clock. Correct means: never more views than
  offered, no view lost but to expiry or failure, a live secret leaves only into a
  caller's hands, and after the expiry nothing is released.
* **Visibility.** The gate's answer is several transactions old when the
  ciphertext is read. Correct means: a private secret never reaches a caller
  without a session, and no mark is dropped while the secret is stored.
* **Sweepers.** Each runs check-then-delete over a list made earlier. Correct
  means: nothing live is deleted, and every orphan that a crash, an error or a
  slow create leaves behind goes away in the end.
* **Files.** The same with one view, and a burn that checks the expiry itself.
* **Users and sign-in.** Every handler reads a whole record, changes it in memory
  and writes it back in a later transaction; there is no version check. Correct
  means: an update of one writer is not undone by another, some enabled admin
  remains, a recovery code works once, one address has one account.
* **Passkeys.** The state of a ceremony is a sealed cookie; its second request may come
  late, twice, or from another session, and what it changes is a whole record written
  back. Correct means: a key opens the account whose password registered it, a used
  count stays used, clearing ends what was under way.
* **OIDC.** State, nonce and verifier are kept by the browser. Correct means: a
  callback signs in only the browser that began its flow, once, by the rules of the
  provider that answered, and a misdirected callback spoils nothing.
* **Configuration.** Written by hand, checked once, and used by packages with
  fallbacks and comparisons of their own. Correct means: what start-up accepts, the
  handlers can serve.

`PROJECT.json` lists the hazards at their lines, with the properties that cover
each one.

## Modules

| module | what it is |
|---|---|
| `ViewBudget` | abstract specification: what a link promises. Views are handed out once, released one at a time, sometimes forfeited, and never come back. |
| `SecretShare` | secrets, views, visibility, the gate and the three sweepers, one action per transaction. |
| `MCSecretShare` | instance for TLC (symmetry). |
| `SecretShareProofs` | TLAPS proofs about `SecretShare`: budget, marks, sessions, refinement. |
| `LifetimeProofs` | more of them: how long secrets and budgets live, and what a late or early caller meets. |
| `FileShare` | files, their share of the visibility bucket, and their sweepers; implements `ViewBudget` with one view. |
| `MCFileShare` | instance for TLC. |
| `FileShareProofs` | TLAPS proofs about `FileShare`. |
| `Directory` | abstract specification: what the user records promise to those who come one at a time. Accounts are made, managed, deleted, used and moved as a whole. |
| `Accounts` | the user records and everyone who changes them: user management, account pages, second factor, password and OIDC sign-in, bootstrap, the operator's commands. |
| `MCAccounts` | instance for TLC. |
| `AccountsProofs` | TLAPS proofs about `Accounts`, with any number of requests at a time and with one. |
| `Config` | pure operators: loading, validating and normalising the configuration, what handlers compute from it, Admit and RoleFor. |
| `ConfigProofs` | lemmas about them: the types of what `Load` returns, and what a valid configuration gives the handlers. |
| `Passkeys` | passkey ceremonies, the record they are kept in and its other writers. |
| `OIDCFlow` | redirect, state cookie, callback and token exchange of a sign-in through a provider. Extends `Config`. |
| `OIDCFlowProofs` | the inductive invariant of the flow. |
| `SignIn` | composes the three: start-up reads a configuration, and the sign-in methods run as far as it mounts their routes. |
| `MCSignIn` | instance for TLC: families of configurations, people and their tokens. |
| `PasskeysProofs` | TLAPS proofs about `Passkeys`. |
| `SignInProofs` | puts the lemmas of the three together: theorems about a server with any configuration. |

`SecretShare` and `FileShare` implement `ViewBudget`, and `Accounts` implements `Directory`
as long as it has one request at a time; the secrets' and files' modules
see of the accounts whether a caller has a session. `Accounts` and `SignIn` share the
user record: `Accounts` has its role, password, factor and address, and every write of
those; `Passkeys` has its handle and keys, and every write of those, the others
standing there as an update that changes no passkey. `OIDCFlow` ends where
`ProvisionOIDC` of `Accounts` begins, whose answer is a choice.

Definitions named "Wrong variant of X" are deliberate mistakes, placed before
the definition they mutate: each shows that a property notices that mistake.

### How SecretShare corresponds to the code

One action is one bbolt transaction together with the in-memory work up to the
next; `req[c].at` is the next transaction of the request in slot `c`. A request:

    POST /api/secrets             Create -> RecordViews -> RecordVisibility -> Reply
    GET  /api/secrets/:id/meta    Arrive -> Lookup [-> MetaReap] -> Annotate
    POST /api/secrets/:id/reveal  Arrive -> ServeView
                                         |  PassToReveal -> Peek -> Reap
                                                                 |  Burn -> DropVisibility
                                                                 |  BurnNothing

The order is that of the middleware chains of `server/routes.go:89-91`:
the capture middlewares work after `c.Next()`, inside out. `Arrive` is
`revealGate`; a caller it stops gets 401 and changes nothing, so only those it
lets through are modelled. `SecretSweep` is one transaction over the whole
bucket; the other two sweepers are `…List`, then `…Lookup` and `…Delete` per id.
A ticker never overlaps itself, so a new list is made only when the last one is
done. Listed ids are looked up in any order, bbolt's key order among them.

* `minted[id]` holds the fields fixed at creation (views, private, expiry). They
  stay known after the record is gone, so that properties can speak about it; the
  code reads the expiry only while the record exists, and so do the actions.
* `views[id] = 0` is "no record": `Put` refuses a budget below one and `Consume`
  deletes the record with its last view.
* `handedOut`, `guarded` and `released` are history variables for the properties,
  and `handedOut` limits who knows a link: ids are 144 random bits, so a caller has
  a link it was given or a mistyped one (`Mistyped`).
* `StoreError` fails the next transaction of a request, without effect, and goes on
  as the code does: writes whose error is logged or dropped let the handler
  continue, the others end it. `VisibilitySweepError` and `ViewsSweepError` skip
  an id. A failing sweep of the secrets is a sweep that did not happen.
* `Crash` forgets the requests and the sweepers' lists and keeps the buckets. A
  graceful shutdown is a crash at a convenient moment.

Abstracted: ciphertexts, sizes, and requests refused before anything is stored
(they change nothing). Not modelled: undecodable rows, which the code never
writes; a request body that one layer can decode and the next one cannot.

### How FileShare corresponds to the code

`Create -> RecordVisibility -> Reply` and `Arrive -> Burn -> DropVisibility`.
`Store.Create` overwrites where the secrets' one refuses; ids are told apart by
their random bits alone. `Burn` deletes the record whatever its age and returns it
only if it has not expired. The visibility sweeper is the one of `SecretShare`: it
looks the ids it lists up among the *secrets*, so a file id is never found
(`SecretIds == {}`), and `VisibilitySweepError` skips an id, as there. Meta of a file
changes nothing and is left out.

`swept` is history: the ids whose mark that sweeper deleted, stored or not. It tells the
disagreement that `file_private` shows from everything else that could part a file from
its mark: with the ids of `swept` aside, `GuardedUnlessSwept` says that a private file is
given to callers with a session only. In the refinement of `ViewBudget` an expired file has
no view left, swept or not, so that a burn which gave one out would be no step of it.

### How Accounts corresponds to the code

A handler is a sequence of transactions on the bucket of users, and `req[c].copy` is
the record it read first and will write back whole:

    PUT /api/users/:email         AdminArrive -> UpdateRead [-> Guard] -> Write
    POST, DELETE /api/users       AdminArrive -> CreateRead -> Write  |  DeleteRead [-> Guard] -> Remove
    POST /api/account/email       SelfArrive -> ChangeEmail -> EmailLookup -> Write -> Remove
    POST /api/account/password    SelfArrive -> ChangePassword -> Write   (likewise the 2FA pages)
    POST /api/auth/login          PasswordLogin [-> SpendCode] -> Write
    GET  OIDC callback            ProvisionOIDC -> Write

* `AdminArrive` and `SelfArrive` are `requireAuth` and `requireRole`, which read the
  record in a transaction of their own. Every account is taken to hold a session
  cookie; a cookie carries only the address, so this loses nothing the store's checks
  depend on. `localSelfUser` reads again (`SelfRead`); when that finds no enabled user, or
  fails, the handler is left with neither a user nor an error (`NilUser`).
* Passwords and TOTP codes are right or wrong by choice: a handler whose check fails
  is `Refuse`, or, at sign-in, does not take place. Updates choose every field they
  set, so an update that leaves fields alone is one of the choices.
* `totp` is "pending" while a secret is stored and not confirmed.
* The operator's commands are one action each and need the server stopped: they open
  the database file under its lock (`database/boltkv/bolt.go`).
* `Start` is the seeding and the check of `runServe`; a start that is refused leaves
  `up` false. `Stop` is a shutdown or a crash and forgets the requests.
* `who` (the address an account was made under), `granted`, `issued`, `accepted` and
  `reused` are history. Two accounts made under one address at different times share
  their `who`.
* `Directory` has no requests: an operation is there once its record is saved or deleted,
  and the steps before and after are stutters. Two operations stay in two parts, as one
  handler has two effects: a change of address is `Settle` and later `Leave`, and a sign-in
  with a recovery code is two saves (`Own`). `Manage`, `Delete` and `Create` say what the
  handler looked at in an earlier transaction (another admin, a free address) as if they had
  looked at the moment of the effect; that is what one request at a time buys.
* `Ops` bounds which operations an instance performs; nothing bounds how often. Failures
  (`StoreFails`), starts and stops are unbounded too.

Left out of the records: names, sources, subjects, time stamps, passkeys (in `Passkeys`), and the TOTP
secret itself. That a create and the sign-in of OIDC normalise addresses is part of `Emails`.

### How Passkeys corresponds to the code

    POST …/passkeys/register/begin    RegisterBegin [-> WriteHandle]
    POST …/passkeys/register/finish   RegisterFinish -> WriteRecord
    DELETE …/passkeys/:id             PasskeyDelete -> WriteRecord
    PUT /api/users/:email             AdminUpdate -> WriteRecord
    POST …/passkey/login/begin        PasskeyLoginBegin
    POST …/passkey/login/finish       PasskeyLoginFinish -> WriteUse

* `pending[s].copy` is the record that the request in slot `s` is about to upsert. Any
  write is replaced by `WriteError` when the store fails; a sign-in then goes on, as
  `persistPasskeyUse` only logs it.
* A cookie is sealed, so nobody makes one; but it stays usable for as long as a client keeps
  it, and the browser is only asked to drop it. `regs` and `logins` therefore only
  grow. Nothing in them says which session brings them: `RegisterFinish` takes any of them
  for any account, and what stops a wrong one is the handle, which the library compares.
  The cookie's `Expires` is the browser's to keep; the server does not look at it.
* `MakeKey`, `Sign` and `CloneWarning` are the authenticator's and the library's part. Keys
  in `Counting` count their signatures, the others always report 0.
* A passkey registered twice from one ceremony is a second entry that no look-up reaches, so
  `keys` is a set.
* `lost` says that some write undid another (it came from an outdated copy) or that a
  sign-in's write failed. What holds only of histories without it says so.

### How OIDCFlow corresponds to the code

    GET  …/oidc/:provider/start       OIDCStart
         at the provider              Authenticate
    GET  …/oidc/:provider/callback    CallbackFails  |  Callback -> CallbackEnds

* A flow stands for state, nonce and PKCE verifier, which `Authorize` draws together. The
  cookie holds the flow; so does the URL the provider redirects to (the state), and so does
  the code (nonce and challenge). `Callback` is everything before the token request, in one
  step because it reads nothing but the request; `CallbackEnds` is the rest.
* Redirect and callback URLs are opened in any browser, any number of times.
* Cookies of two providers do not meet: their paths differ (`Others`).
* The browser drops the cookie with the response, which is when `CallbackEnds` happens.
  Two callbacks that are handled at once (`crossed`) both have it.

### How Config and SignIn correspond to the code

A definition of `Config` is the function of its name. A text is `[name, form]`, which is
what trimming and lower-casing look at; a duration is its minutes; a provider's `given` are
the fields that only have to be there. The order of checks decides the message only, so
`Validate` is a conjunction, and what it writes is `Normal`. `SignIn` runs `Load` and
`Validate` on one of `RawConfigs`; a valid configuration can still fail to start
(`StartFails`: discovery, certificate, database lock, no admin). The invariants about
configurations speak of the state after validation, which every member of every family
that is accepted reaches.

## Runs

Passing runs; each visits its whole state space.

| run | instance | shows |
|---|---|---|
| `secret_faults` | 2 requests, 1 link, up to 3 views, 1 crash, 1 error; 1 M states | `ImplementsViewBudget` (refinement of `ViewBudget`), `WithinBudget`, `PrivateOnceHandedOut`, `NoViewsCutShort`, `PrivateNeedsSession`, `LateRevealNeverBurns`, `LiveSecretLeavesOnlyByReveal`, `TypeOK` under every interleaving and fault |
| `secret_purge` | 1 request at a time, 2 links, 1 crash, fair tickers; 1.1 M states | `MarkedWhileStored` while sweepers work on lists of several ids, `EventuallyPurged` |
| `file_races` | 2 requests, 2 files, 1 crash, 1 error, fair tickers; 870 k states | `ImplementsViewBudget` (one view, until the expiry), `GuardedUnlessSwept`, `LiveFileLeavesOnlyByReveal`, `EventuallyPurged`, `TypeOK` |
| `accounts_races` | 2 requests, 1 address, 2 recovery codes, failures, OIDC, operator; 1.4 M states | `AdminsWereGranted`, `CodesNeedFactor`, `TypeOK` |
| `accounts_serial` | 1 request at a time, 3 addresses, failures; 1.1 M states | `ImplementsDirectory` (refinement of `Directory`), `EnabledAdminRemains`, `NoAccountLost`: the lockout guard and the 409s do what they say one request at a time |
| `sign_in` | 3217 configurations; then 2 accounts, 2 requests, 1 counting key, 3 ceremonies, or 2 browsers, 2 providers, 2 flows, 2 authentications; 1.3 M states | *start-up:* `EveryPresetWorks`, `FilesFitTheBody`, `CallbacksReachTheirProvider`, `RulesAsWritten`; *passkeys:* `SignInIsOwners`, `KeysUnderHandle`, `AssertionOnce`, `ClearEndsRegistrations`; *OIDC:* `SessionForOwnFlow`, `MisdirectedCallbackKeepsCode`, `FlowSignsInOnce`; `TypeOK` |

Runs that find the code at odds with what its documentation or comments say:

| run | what the code does |
|---|---|
| `secret_late_view` | `multiViewReveal` (`server/multiview.go:75`) checks no expiry. Until the views sweeper has run, a view is served to a caller who arrives after the secret expired. `src/README.md:5-6` says it is deleted on expiry. |
| `secret_orphan_view` | The mark and the views record of an expired private secret are swept independently. When the mark goes first, an anonymous caller is served a view; `server/middleware.go:68-70` says a private secret answers 401. |
| `file_private` | The visibility sweeper drops the mark of every private file at its first tick, because it looks for the id among the secrets only. `server/routes.go:93-94` promises files the same gates. |
| `accounts_lockout` | Two updates pass the lockout guard (`domain/users/handler.go:199`) before either is saved: two admins demote each other and none is left. |
| `accounts_code_twice` | Two sign-ins read a record with the same recovery code and are both let in; `domain/auth/2fa.go:180-181` calls it one-time. |
| `accounts_revived` | A sign-in's last write brings an account back that an admin deleted meanwhile; `server/middleware.go:22-24` says a disable or delete takes effect on the next request. |

`EnabledAdminRemains` holds of one request at a time (`accounts_serial`) and fails with two
(`accounts_lockout`): it is lost to the interleaving and nothing else. So are
`WriteBackRevivesNobody` and `CodeSpentOnce`, as the theorems `NobodyRevived` and
`CodesWorkOnce` show.
`PrivateNeedsSession` (passing) and `PrivateNeverAnonymous` (violated) differ
exactly in the secrets they speak of: those still stored, and all of them.
`LateRevealNeverBurns` and `NothingReleasedLate` differ in the same way: the burn
refuses late callers, the views record does not.

### Further disagreements, stated but without a run

The modules also state what these lines promise; TLC refutes each formula in a few steps when it is
checked as the INVARIANT or PROPERTY of the instance named.

| formula | instance | what the code does |
|---|---|---|
| `GoneReadsIdentically` | `SecretShare_faults.cfg` | `annotateViewsMeta` adds `views_remaining` whether the secret exists or not, so an expired multi-view secret answers `exists:false` with a budget. `domain/secrets/handler.go:74-75` says missing, burned and expired read identically. |
| `SweepTakesAtOrBeforeNow` | `SecretShare_purge.cfg` with `Horizon = 3` | `DeleteExpired` leaves a secret whose expiry is exactly now, as `IsExpired` is strict; its comment (`domain/secrets/store.go:125`) says "at or before now". |
| `NoAccountLost` | `Accounts_lockout.cfg` with `Ops = {"create", "email"}` | A create and a change of address both find an address free, and one account replaces the other; both promise 409 (`domain/users/handler.go:104`, `domain/auth/account.go:64`). |
| `NoNilUser` | `Accounts_races.cfg` | `localSelfUser` promises a non-nil error when it has answered (`domain/auth/2fa.go:20-21`), but returns what `c.JSON` returned, nil: the handler dereferences a nil user and `safeRecover` answers 500. |
| `PinnedAreAdmin` | `Accounts_lockout.cfg` | An admin's update demotes a pinned admin; `models/user/user.go:70-71` says pinned users are always admin. |
| `DeleteLeavesAdmin` | `Accounts_lockout.cfg` | `user delete` counts a disabled admin as another admin and removes the last who can sign in; `cli/user.go:292-293` says the guard prevents a lockout. |
| `CeremonySingleUse` | `SignIn.cfg` | `takeWebAuthnSession` calls the ceremony cookie single use (`domain/auth/webauthn.go:61`), but only the browser drops it: the same cookie and assertion sign in again where the clone warning does not stop them (no counter, or its write was lost). |
| `SecretsFitTheBody` | `SignIn.cfg` | `server/server.go:39-41` calls the body limit "generous headroom above" `secrets.max_size_bytes`, which does not lift it: from about 1 MiB on, secrets that the handler accepts are refused before it. |

### Corners of the models that no property speaks of

No line of the repository promises otherwise, so they are neither refuted nor excluded:

* After the deletion of the old key failed (`domain/auth/account.go:73`), two records have the
  same credentials and recovery codes.
* `user create` on an existing address demotes the last admin without `guardLastAdmin`
  (`cli/user.go:131`); a bootstrap address without a password and without OIDC passes the
  start-up check with nobody able to sign in (`cli/serve.go:159`).
* A deleted passkey comes back when its registration's cookie and attestation are sent once
  more; only clearing, which drops the handle, ends a ceremony (`domain/auth/webauthn.go:133`).
* Two callbacks of one flow handled at once both sign in; a failing callback in an old tab
  clears the cookie of a newer flow (`domain/auth/oidc.go:70`).
* A list of nothing but blank entries is no list, and admits everybody (`core/env/config.go:525`;
  the start-up warning is given). The ids `a-b` and `a_b` share their environment
  variables (`core/env/config.go:334`).
* A session cookie names an address: it outlives the account and opens the next one made under
  the same address (`server/middleware.go:26`).
* `Files.Create` overwrites an existing id (`domain/files/store.go:43`); ids are 144 random bits.

### Bounds

* **Clock.** `Horizon` stops the clock, and every secret expires before it, so
  each run holds instants before, at and after an expiry. The code compares the
  clock with nothing but an expiry. With one link a lifetime of one tick and a
  clock of two are enough for that; a longer lifetime only repeats states.
* **Requests.** A violation of the budget needs two reveals at once; the create that made
  the secret has answered by then, or its id is known to nobody. Two slots, each reused without
  limit, are enough; the proofs have no such bound.
* **Links.** Requests and the expiry sweep treat every id apart. What relates two
  ids is a list of a sweeper; `secret_purge` and `file_races` have two.
* **Views.** Three tell the first, a middle and the last view apart.
* **Crashes, errors.** One each, at any point, but `secret_purge` has no error (with one it takes
  more than three times as long): that the sweepers get over a failing look-up or delete is
  checked by `EventuallyPurged` in `file_races`, for the visibility sweeper. The proofs have no such bound.
* **Accounts.** Two slots are enough for a stale write-back: one handler holds a copy, the
  other changes the record. What `accounts_races` checks speaks of one record by itself, so it has
  one address, and on it every operation but create and change of address. `accounts_serial` has
  three addresses, so that one is free while two admins exist. One password suffices: no guard
  compares two passwords, only whether there is one. OIDC and operator commands do not go through
  the server's lockout guard, so they are not in `accounts_serial`; a change of address whose
  deletion fails leaves two records with the same codes by design, so `accounts_code_twice` has
  one address. `AccountsProofs` has none of these bounds: its serial theorems keep only the
  single request (and, where the text of the theorem says so, no provider or no failures).
* **Passkeys.** Two accounts and two handles, so that a ceremony can be brought to the wrong
  account and a cleared account draws a new handle; two slots, as in `Accounts`; three
  ceremonies, so that two accounts register and one signs in. One key: no two keys meet but in
  the list of one account, where each is found by its own id. It counts, as the one that does
  not is what `CeremonySingleUse` is about, and one signature is enough to be sent twice.
* **OIDC.** Two browsers, two flows and two authentications tell the right from the wrong
  browser, the newer from the older flow and the first from the second code. Two providers, one
  with a list and one without.
* **Configurations.** Each family varies what one part of start-up looks at, jointly: lifetimes,
  sizes, TLS, the authentication settings, a provider's essentials, the ids of two providers,
  a provider's rules, file against environment. Families are not multiplied with each other,
  as no check reads what two of them vary. `SignInProofs` takes any set of configurations and
  of names (`Names`), so nothing proved there rests on the choice of families.
* **auth.gate = all** is covered by the theorem `SessionNeeded`, which holds for both values
  of `GateAll`; the runs take the other value.
* **Symmetry** of slots and of links is used for safety only, never for liveness.

### Fairness

`FairSpec` assumes that time passes and that each ticker's loop keeps going
(`time.NewTicker` in a goroutine that ends only with the server): weak fairness of
`Tick`, of the expiry sweep and of each orphan sweeper. Nothing is assumed of the
handlers: a request may stop for ever. `Crash` and the errors are bounded, so the
sweepers get to work undisturbed in the end; without that no purge could be
promised. `EventuallyPurged` speaks of *for ever*, so a slow create that writes its
orphan after the sweep is part of it.

## Proofs

No proof depends on a bound of a run: ids, slots, views, ticks, crashes, errors, addresses,
codes, accounts, ceremonies, browsers, flows and configurations are any number. Each module
rests on the assumption about its constants (`ConfigAssumption`, `FileConfigAssumption`,
`AccountsAssumption`, `PasskeysAssumption`, `SignInAssumption`, `NamesAssumption`), which is
their types, checked by TLC for each instance. What else a theorem assumes is in its `ASSUME`.

### Secrets (`SecretShareProofs`, `LifetimeProofs`)

| theorem | states |
|---|---|
| `TypeCorrect` | `Spec => []TypeOK` |
| `BudgetInvariant`, `BudgetNeverExceeded` | `Spec => []BudgetInv`, `Spec => []WithinBudget` |
| `MarkInvariant`, `MarkKept` | `Spec => []MarkInv`, `Spec => []MarkedWhileStored` |
| `SessionNeeded` | `Spec => PrivateNeedsSession` |
| `Refinement` | `Spec => ImplementsViewBudget` |
| `LifeInvariant`, `ViewsNotCutShort` | `Spec => []LifeInv`, `Spec => []NoViewsCutShort` |
| `OnlyRevealsTakeLiveSecrets` | `Spec => LiveSecretLeavesOnlyByReveal` |
| `LateNeverBurns` | `Spec => LateRevealNeverBurns` |
| `PrivateFromTheStart` | `Spec => []PrivateOnceHandedOut` |

* **Budget.** `WithinBudget` is not inductive: nothing in it stops a `Burn` after the
  last `ServeView`. `BudgetInv` adds the balance: what was released and what can
  still be had (`Obtainable`) never exceed what was asked for. To keep the balance
  when a create writes its views record late, it also says that the id of an
  unanswered create is in nobody else's hands: only its own create works on
  it and it has released nothing; that a request follows only a minted or
  mistyped id; and that what was never minted is in no bucket. So the argument
  rests on the response being sent last ("BEFORE the response is flushed").
* **Mark.** `MarkedWhileStored` needs that a sweeper's `gone` id, and the id whose mark
  a reveal is about to drop, is not stored *and can never be again*: ids are minted
  once and a secret enters its bucket only when minted. That makes check-then-delete
  safe although the check is old when the delete runs.
* **Session.** A caller without a session passed the gate when the id was not marked.
  `SessionNeeded` follows from that and from the id having been handed out, hence
  past `SetPrivate`, by then: a mark is never added to a link that is already out.
* **Refinement.** `left` is what can be had of an id that was handed out. Each step
  is classified: `Reply` hands out, `ServeView` and `Burn` release, expiry, errors and
  `PassToReveal` forfeit or stutter. `BudgetInv` bounds what `Reply` offers.
* **Lifetimes.** A handler acts on what an earlier transaction found, so `LifeInv` says
  that this is still so when it acts: a request past the views record found no views left, and
  none can come back (`LastView`); what a lazy delete is about to remove has expired, and time
  does not go back (`ReapsExpired`); a request that arrived late and got as far as the burn has
  nothing to burn (`StillLate`: `Peek` lets it on only when the secret is gone, and a secret never
  enters its bucket again); a secret outlives its own create unless it expires
  (`StoredMeanwhile`). `NoViewsCutShort` is inductive only together with these.
* **Handing out.** `PrivateOnceHandedOut` adds to `MarkInv` that the mark came before the
  link (`MarkedFirst`), as long as no transaction failed: a failed `SetPrivate` is only logged.

### Files (`FileShareProofs`)

| theorem | states |
|---|---|
| `FileInvariant`, `FileTypes` | `Spec => []FileInv`, `Spec => []TypeOK` |
| `GuardInvariant`, `GuardHolds` | `Spec => []GuardInv`, `Spec => GuardedUnlessSwept` |
| `OnlyRevealsTakeLiveFiles` | `Spec => LiveFileLeavesOnlyByReveal` |
| `Refinement` | `Spec => ImplementsViewBudget` |

Type correctness is not shallow here: `released` counts to one because a file that is stored
was never read (`ReadOnce`). `FileInv` adds that an id has one creator at work (`SoleCreator`,
`Unknown`), that callers hold links or mistyped ones (`FollowsLink`), and that an id nobody
minted is nowhere (`Untouched`). For the refinement, a burn that releases serves an id that was
handed out; every other step that removes a file, or brings its expiry, forfeits a view.

`GuardedUnlessSwept` relates two buckets and a request that is several transactions old.
`GuardInv` says that a private file that is stored has its mark or lost it to the sweeper
(`MarkedOrSwept`); that whoever is about to drop a mark has burnt the file (`BurnedFirst`), and
no file enters the bucket twice; and that an anonymous caller on the way to the burn passed a
gate that found no mark, hence no file (`OpenWhenAnonymous`). A mark that is recorded later
cannot spoil that answer: until the create has answered, nobody has the link
(`OpenAfterReply`, from `FileInv`).

### Accounts (`AccountsProofs`)

| theorem | states |
|---|---|
| `InvHolds`, `TypeCorrect` | `Spec => []Inv`, `Spec => []TypeOK` |
| `AdminsGranted` | `Spec => []AdminsWereGranted` |
| `CodesFollowFactor` | `Spec => []CodesNeedFactor` |
| *with one request at a time:* | |
| `SerialHolds` | `Spec => []SerialInv` |
| `SerialRefinement` | `Spec => ImplementsDirectory` |
| `AdminRemains` (no provider) | `Spec => EnabledAdminRemains` |
| `NobodyLost` | `Spec => NoAccountLost` |
| `NobodyRevived` | `Spec => WriteBackRevivesNobody` |
| `CodesWorkOnce` (transactions succeed, no change of address) | `Spec => []CodeSpentOnce` |

* **Any number of requests.** Nothing about the stored records alone is inductive: any `Write`
  may replace a record by a copy of unknown age. `Inv` therefore asks of every copy in flight
  what it asks of every stored record (`Sound`), and that every request for user management
  was an admin's. An invariant survives the stale write-backs exactly when it speaks of one record
  by itself, or relates it to something that only grows; the properties that relate two
  records, or a record to its past, are those that fail with two requests.
* **One request.** `Serial` says that all slots are one. Then no copy is stale, and
  `SerialInv` says of the request in hand that its copy is one operation of `Directory` away
  from the record (`Fits`), that the new address of a mover is still free and the old record
  still the copy (`Moves`), and that whoever is about to lose the role, the access or the
  account is not the last enabled admin (`Spares`). `Spares` is where the lockout guard's
  look-up, one transaction older than the write, is turned into a fact about the write. The
  refinement and three of the properties follow step by step.
* **Why there is a hypothesis.** `EnabledAdminRemains`, `WriteBackRevivesNobody` and
  `CodeSpentOnce` are violated with two requests (`accounts_lockout`, `accounts_revived`,
  `accounts_code_twice`), and so is `NoAccountLost` (the further disagreements above). `AdminRemains` leaves
  the provider out because its rules may demote the last admin. `CodesWorkOnce` leaves two things
  out: when the code cannot be taken out of the record the sign-in goes on (`StoreError`), and
  a change of address has two records with the same codes, for good if the server stops
  between its transactions. Its invariant `CodeInv` says that the codes in
  records, copies and hands were shown and not used, and that no two people have one.

### Passkeys (`PasskeysProofs`)

| theorem | states |
|---|---|
| `TypedHolds` | `PasskeysSpec => []Typed` (`PasskeysTypeOK`, and a drawn handle is in its request) |
| `KeysUnderHandleHolds` | `PasskeysSpec => []KeysUnderHandle` |
| `SignInIsOwnersHolds` | `PasskeysSpec => []SignInIsOwners` |
| `ClearEndsRegistrationsHolds` | `PasskeysSpec => []ClearEndsRegistrations` |
| `AssertionOnceHolds` | `PasskeysSpec => []AssertionOnce` |

The steps that read a record are first shown to hold a request `Derived` from it, so that each
invariant looks at one shape of step instead of six handlers.

* **Handles** (`HandlesInv`). As in `Accounts`, what is asked of a record is asked of every
  copy, stale or not: its handle was drawn for its account, and its keys were made for that
  handle. Both are about things that only grow (`Grows`), so a stale write cannot break them.
  An authenticator makes a key for the ceremony's handle, and the handle was drawn for whoever
  began the ceremony; with one maker per key, that gives `SignInIsOwners`.
* **Clearing** (`ClearInv`). This relates a record to its past, so it needs that no write was
  lost, and then speaks of *live* copies only, those read after the last write of their record:
  neither a record nor a live copy has the handle of a registration that was voided. A clearing
  leaves no handle and makes every other copy of the record stale, and the next handle is new.
* **Counts** (`CountInv`). The record that has a key has counted every accepted assertion of
  it, and a live copy never goes back on a count; a live sign-in is ahead of it, by the clone
  warning, when the key counts. A key is in one record (`OneRecord`, from `HandlesInv`), so an
  assertion accepted before cannot be ahead again.

### A server with any configuration (`SignInProofs`, `ConfigProofs`, `OIDCFlowProofs`)

| theorem | states |
|---|---|
| `ImplementsPasskeys`, `PasskeysOfAServer` | `Spec => PasskeysSpec`, and so `Spec =>` all four |
| `ServerInvariant`, `ServerTypes` | `Spec => []ServerInv`, `Spec => []TypeOK` |
| `EveryPreset` | `Spec => []EveryPresetWorks` |
| `FilesFitHolds` | `Spec => []FilesFitTheBody` |
| `CallbacksReach` | `Spec => []CallbacksReachTheirProvider` |
| `RulesHold` | `Spec => []RulesAsWritten` |
| `OwnFlow` | `Spec => []SessionForOwnFlow` |
| `CodeKept` | `Spec => []MisdirectedCallbackKeepsCode` |
| `FlowOnce` | `Spec => []FlowSignsInOnce` |

* **Configurations.** `ServerInv` says that only what `Validate` accepted gets past start-up
  (`Started`). Everything else is about pure functions, in the lemmas of `ConfigProofs`: a
  preset that is offered resolves to what it says (`PresetsResolve`); the body limit leaves room
  for the largest file (`FilesFit`); ids that `Validate` tells apart stay apart when normalised, so
  a look-up by callback URL finds the provider that was configured (`IdsApart`,
  `RegistryFinds`); and the trimming and lower-casing that is done once at start-up and once per
  sign-in comes to comparing names (`NormalList`, `EmailListed`, `GroupListed`).
  `RulesMeant` puts these together, one for each rule of `Admit` and `RoleFor`.
* **Flows.** What the server knows of a flow is what a cookie and a URL say, so `FlowInv` ties
  those to each other: a flow is begun once (`FlowsApart`), cookies and URLs are genuine
  (`CookiesGenuine`, `UrlsGenuine`), a callback past the state check is handled for the browser
  that began its flow (`CallbacksOwn`). For `FlowSignsInOnce` it adds that a flow
  that signed in has neither a cookie nor a callback left (`SignedInIsOver`), unless
  two of its callbacks were under way at once (`CrossedOnRecord`): the exception the property
  names.

### Model-checked only

`EventuallyPurged`, which needs fairness, is out of TLAPS's reach and stays with TLC. Every
safety invariant, action property and refinement of a passing run is a theorem. The
properties of the runs that expect a violation are false of the code; for three of them a theorem
says under which hypothesis they hold.

## Plan

1. *Done.* `ViewBudget`, `SecretShare`, `FileShare`, their runs; `SecretShareProofs`,
   `LifetimeProofs`, `FileShareProofs`.
2. *Done.* `Accounts`, its runs; `Directory`; `AccountsProofs`, for any number of requests and
   for one.
3. *Done.* `Config`, `Passkeys`, `OIDCFlow`, `SignIn` and its run.
4. *Done.* `PasskeysProofs`, `ConfigProofs`, `OIDCFlowProofs`, `SignInProofs`.
5. Open: abstract specifications of the passkeys (a set of keys per account, opened and
   revoked) and of the OIDC flow (begun, answered, over) with their refinements. The safety
   properties that they would imply are proved directly by now.

## Not modelled, and why

Of the HTTP guards, `requireSameOrigin` is a comparison of two headers of one request and the
rate limits are a library's; of the server, listening, certificates, metrics and logging
keep no state a property speaks of. bbolt itself is taken at its
promise (serialised, atomic, durable transactions). Cryptography (AES-GCM, TOTP,
WebAuthn signatures, the sealing of records) and the uniqueness of 144-bit random
ids are assumed. The browser application runs elsewhere: the models let a client
send any request at any time.

## Running

    tlc -workers 2 -config SecretShare_faults.cfg MCSecretShare
    tlc -workers 2 -config FileShare_races.cfg MCFileShare
    tlc -workers 2 -config Accounts_serial.cfg MCAccounts
    tlc -workers 2 -config SignIn.cfg MCSignIn
    tlapm SecretShareProofs.tla
    tlapm LifetimeProofs.tla
    tlapm FileShareProofs.tla
    tlapm AccountsProofs.tla
    tlapm PasskeysProofs.tla
    tlapm ConfigProofs.tla
    tlapm OIDCFlowProofs.tla
    tlapm SignInProofs.tla
