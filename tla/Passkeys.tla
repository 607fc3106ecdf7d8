------------------------------ MODULE Passkeys ------------------------------
(***************************************************************************)
(* Passkeys: registering one, signing in with it, and everyone else who    *)
(* writes the record it is kept in.                                        *)
(*                                                                         *)
(* A ceremony is two requests. The first hands out a challenge and seals   *)
(* the ceremony's state into a cookie; the second brings that cookie and   *)
(* what the authenticator made of the challenge. The server keeps no list  *)
(* of ceremonies: nothing but the cookie, which the browser is asked to    *)
(* drop, says that one is over, so a second request may come late, twice   *)
(* or never. In between, as in Accounts, a handler reads a record, changes *)
(* its copy and writes the copy back. Addresses do not change here and     *)
(* records are not deleted.                                                *)
(***************************************************************************)
EXTENDS Naturals

CONSTANTS
  Owners,      \* the accounts, each with a password only its owner gives
  Handles,     \* WebAuthn user handles the server will draw
  NoHandle,    \* a record without one
  Nobody,      \* the owner of a handle not drawn yet
  Keys,        \* credentials that authenticators will make
  Counting,    \* those whose authenticator counts its signatures; others report 0
  MaxCount,    \* bound: signatures of one authenticator
  Challenges,  \* bound: ceremonies begun
  Slots,       \* request slots
  Idle         \* a slot without a request

ASSUME PasskeysAssumption ==
  /\ NoHandle \notin Handles /\ Nobody \notin Owners
  /\ Counting \subseteq Keys
  /\ MaxCount \in Nat

VARIABLES
  accounts,   \* what the records say of passkeys
  pending,    \* per slot: the request that is about to write a record
  regs,       \* registration ceremonies begun: their sealed cookies
  logins,     \* sign-in ceremonies begun: their challenges
  made,       \* authenticators: the credentials, each with its attestation
  counter,    \* authenticators: the signatures so far
  asserted,   \* authenticators: the assertions
  givenTo,    \* history: whose record each handle was drawn for
  signIns,    \* history: which key opened which account
  accepted,   \* history: assertions that signed in, while their key stays registered
  again,      \* history: those that did so twice
  voided,     \* history: registrations begun before an admin cleared the account
  lost        \* history: some write undid another one, or a sign-in was not saved

record == <<accounts, pending, lost>>
browser == <<regs, logins, made, counter, asserted>>
signedIn == <<signIns, accepted, again>>
passkeyVars == <<record, browser, givenTo, signedIn, voided>>

\* keys: Passkeys, with each key's sign count. A key that is not there has count 0.
Account == [enabled : BOOLEAN, handle : Handles \cup {NoHandle},
            keys : SUBSET Keys, count : [Keys -> 0..MaxCount]]

Registration == [ch : Challenges, handle : Handles, by : Owners]
Credential   == [key : Keys, ch : Challenges, handle : Handles, by : Owners]
Assertion    == [key : Keys, ch : Challenges, count : 0..MaxCount]

\* A request that holds a copy of a record it read. stale: it was written since.
Saves   == {"begin", "finish", "delete", "update", "clear"}
Request == [op : Saves, who : Owners, copy : Account, stale : BOOLEAN]
             \cup [op : {"login"}, who : Owners, copy : Account, stale : BOOLEAN, by : Assertion]

NewAccount == [enabled |-> TRUE, handle |-> NoHandle, keys |-> {}, count |-> [k \in Keys |-> 0]]

PasskeysInit ==
  /\ accounts = [o \in Owners |-> NewAccount]
  /\ pending = [s \in Slots |-> Idle]
  /\ regs = {} /\ logins = {} /\ made = {} /\ asserted = {}
  /\ counter = [k \in Keys |-> 0]
  /\ givenTo = [h \in Handles |-> Nobody]
  /\ signIns = {} /\ accepted = {} /\ again = {} /\ voided = {}
  /\ lost = FALSE

\* The handler goes on to write this copy of o's record.
Hold(s, op, o, copy) ==
  pending' = [pending EXCEPT ![s] = [op |-> op, who |-> o, copy |-> copy, stale |-> FALSE]]

\* A challenge is 32 random bytes: never one that was handed out before.
Fresh(ch) == ch \notin logins /\ \A r \in regs : r.ch # ch

Without(account, gone) ==
  [account EXCEPT !.keys = @ \ gone, !.count = [k \in Keys |-> IF k \in gone THEN 0 ELSE @[k]]]

-----------------------------------------------------------------------------
(* Registering a passkey (domain/auth/webauthn.go). localSelfUser has found  *)
(* the account enabled; refusals change nothing and are left out.           *)

\* BeginRegistration for the record's handle; its state goes into the cookie.
IssueRegistration(ch, handle, o) ==
  /\ Fresh(ch)
  /\ regs' = regs \cup {[ch |-> ch, handle |-> handle, by |-> o]}

\* Wrong variant of RegisterBegin: the new handle may be one that another account has.
RegisterBeginAnyHandle(s, o) ==
  /\ pending[s] = Idle /\ accounts[o].enabled
  /\ \/ /\ accounts[o].handle # NoHandle
        /\ \E ch \in Challenges : IssueRegistration(ch, accounts[o].handle, o)
        /\ UNCHANGED <<pending, givenTo>>
     \/ /\ accounts[o].handle = NoHandle
        /\ \E h \in Handles : /\ Hold(s, "begin", o, [accounts[o] EXCEPT !.handle = h])
                              /\ givenTo' = [givenTo EXCEPT ![h] = o]
        /\ UNCHANGED regs
  /\ UNCHANGED <<accounts, lost, logins, made, counter, asserted, signedIn, voided>>

\* PasskeyRegisterBegin, the password being right: the ceremony starts at once if the
\* record has a handle; otherwise one is drawn at random and saved first.
RegisterBegin(s, o) ==
  /\ pending[s] = Idle /\ accounts[o].enabled
  /\ \/ /\ accounts[o].handle # NoHandle
        /\ \E ch \in Challenges : IssueRegistration(ch, accounts[o].handle, o)
        /\ UNCHANGED <<pending, givenTo>>
     \/ /\ accounts[o].handle = NoHandle
        /\ \E h \in Handles : /\ givenTo[h] = Nobody
                              /\ Hold(s, "begin", o, [accounts[o] EXCEPT !.handle = h])
                              /\ givenTo' = [givenTo EXCEPT ![h] = o]
        /\ UNCHANGED regs
  /\ UNCHANGED <<accounts, lost, logins, made, counter, asserted, signedIn, voided>>

\* The authenticator of whoever began the ceremony makes a credential for its handle.
MakeKey(k, r) ==
  /\ r \in regs /\ \A m \in made : m.key # k
  /\ made' = made \cup {[key |-> k, ch |-> r.ch, handle |-> r.handle, by |-> r.by]}
  /\ UNCHANGED <<record, regs, logins, counter, asserted, givenTo, signedIn, voided>>

\* Wrong variant of RegisterFinish: the ceremony's handle is not compared with the record's.
RegisterFinishAnyHandle(s, o, m) ==
  /\ pending[s] = Idle /\ accounts[o].enabled
  /\ m \in made
  /\ Hold(s, "finish", o, [accounts[o] EXCEPT !.keys = @ \cup {m.key}])
  /\ UNCHANGED <<accounts, lost, browser, givenTo, signedIn, voided>>

\* PasskeyRegisterFinish: the cookie opens, its handle is the record's, and the
\* attestation answers its challenge. Coming twice, it appends an entry that no
\* look-up by credential id reaches.
RegisterFinish(s, o, m) ==
  /\ pending[s] = Idle /\ accounts[o].enabled
  /\ m \in made /\ m.handle = accounts[o].handle
  /\ Hold(s, "finish", o, [accounts[o] EXCEPT !.keys = @ \cup {m.key}])
  /\ UNCHANGED <<accounts, lost, browser, givenTo, signedIn, voided>>

\* PasskeyDelete, the password being right and the passkey there.
PasskeyDelete(s, o, k) ==
  /\ pending[s] = Idle /\ accounts[o].enabled
  /\ k \in accounts[o].keys
  /\ Hold(s, "delete", o, Without(accounts[o], {k}))
  /\ UNCHANGED <<accounts, lost, browser, givenTo, signedIn, voided>>

-----------------------------------------------------------------------------
(* Signing in.                                                              *)

\* PasskeyLoginBegin: nobody is named yet.
PasskeyLoginBegin(ch) ==
  /\ Fresh(ch)
  /\ logins' = logins \cup {ch}
  /\ UNCHANGED <<record, regs, made, counter, asserted, givenTo, signedIn, voided>>

\* An authenticator answers, with its next sign count.
Sign(m, ch) ==
  LET n == IF m.key \in Counting THEN counter[m.key] + 1 ELSE 0 IN
  /\ m \in made /\ ch \in logins /\ n <= MaxCount
  /\ counter' = [counter EXCEPT ![m.key] = n]
  /\ asserted' = asserted \cup {[key |-> m.key, ch |-> ch, count |-> n]}
  /\ UNCHANGED <<record, regs, logins, made, givenTo, signedIn, voided>>

\* The library's clone warning: a count that has not advanced, unless both are 0.
CloneWarning(stored, n) == n <= stored /\ (n # 0 \/ stored # 0)

\* The record found by the credential's handle is enabled and has the credential.
Resolves(o, a) ==
  /\ a \in asserted /\ accounts[o].enabled /\ a.key \in accounts[o].keys
  /\ \E m \in made : m.key = a.key /\ m.handle = accounts[o].handle

HoldSignIn(s, o, a) ==
  pending' = [pending EXCEPT
    ![s] = [op |-> "login", who |-> o, stale |-> FALSE, by |-> a,
            copy |-> [accounts[o] EXCEPT !.count[a.key] = a.count]]]

\* Wrong variant of PasskeyLoginFinish: the clone warning is not looked at.
PasskeyLoginFinishUnwarned(s, o, a) ==
  /\ pending[s] = Idle
  /\ Resolves(o, a)
  /\ HoldSignIn(s, o, a)
  /\ UNCHANGED <<accounts, lost, browser, givenTo, signedIn, voided>>

\* PasskeyLoginFinish up to persistPasskeyUse.
PasskeyLoginFinish(s, o, a) ==
  /\ pending[s] = Idle
  /\ Resolves(o, a)
  /\ ~CloneWarning(accounts[o].count[a.key], a.count)
  /\ HoldSignIn(s, o, a)
  /\ UNCHANGED <<accounts, lost, browser, givenTo, signedIn, voided>>

-----------------------------------------------------------------------------
(* The other writers of the record, and the writes.                         *)

\* Wrong variant of Cleared: the handle stays.
ClearedKeepsHandle(account) == Without(account, Keys)

\* clear_passkeys: neither passkeys nor handle are left.
Cleared(account) == [Without(account, Keys) EXCEPT !.handle = NoHandle]

\* Handler.Update of the user management. Without a change it stands for every other
\* handler that writes back a record it read (Accounts).
AdminUpdate(s, o) ==
  /\ pending[s] = Idle
  /\ \E enabled \in BOOLEAN :
       \/ Hold(s, "update", o, [accounts[o] EXCEPT !.enabled = enabled])
       \/ Hold(s, "clear", o, [Cleared(accounts[o]) EXCEPT !.enabled = enabled])
  /\ UNCHANGED <<accounts, lost, browser, givenTo, signedIn, voided>>

\* Upsert of the copy: other requests now hold an older one.
Save(s) ==
  LET o == pending[s].who IN
  /\ accounts' = [accounts EXCEPT ![o] = pending[s].copy]
  /\ pending' = [t \in Slots |->
       IF t = s THEN Idle
       ELSE IF pending[t] # Idle /\ pending[t].who = o THEN [pending[t] EXCEPT !.stale = TRUE]
       ELSE pending[t]]
  /\ lost' = (lost \/ pending[s].stale)

About(s, ops) == pending[s] # Idle /\ pending[s].op \in ops

\* RegisterBegin has saved the new handle.
WriteHandle(s) ==
  /\ About(s, {"begin"})
  /\ Save(s)
  /\ \E ch \in Challenges : IssueRegistration(ch, pending[s].copy.handle, pending[s].who)
  /\ UNCHANGED <<logins, made, counter, asserted, givenTo, signedIn, voided>>

\* Keys that this write takes from the record.
Dropped(s) == accounts[pending[s].who].keys \ pending[s].copy.keys

WriteRecord(s) ==
  /\ About(s, {"finish", "delete", "update", "clear"})
  /\ Save(s)
  /\ accepted' = {a \in accepted : a.key \notin Dropped(s)}
  /\ voided' = IF pending[s].op = "clear"
                 THEN voided \cup {r.ch : r \in {q \in regs : q.by = pending[s].who}}
                 ELSE voided
  /\ UNCHANGED <<browser, givenTo, signIns, again>>

\* The session is minted.
SignedInBy(s) ==
  LET a == pending[s].by IN
  /\ signIns' = signIns \cup {[key |-> a.key, owner |-> pending[s].who]}
  /\ accepted' = accepted \cup {a}
  /\ again' = again \cup ({a} \cap accepted)

\* persistPasskeyUse.
WriteUse(s) ==
  /\ About(s, {"login"})
  /\ Save(s)
  /\ SignedInBy(s)
  /\ UNCHANGED <<browser, givenTo, voided>>

\* A write fails: the request ends, but a sign-in goes on without having saved anything.
WriteError(s) ==
  /\ pending[s] # Idle
  /\ pending' = [pending EXCEPT ![s] = Idle]
  /\ IF pending[s].op = "login" THEN lost' = TRUE /\ SignedInBy(s)
                                ELSE UNCHANGED <<lost, signedIn>>
  /\ UNCHANGED <<accounts, browser, givenTo, voided>>

PasskeysNext ==
  \/ \E s \in Slots, o \in Owners :
       \/ RegisterBegin(s, o) \/ AdminUpdate(s, o)
       \/ \E m \in made : RegisterFinish(s, o, m)
       \/ \E k \in Keys : PasskeyDelete(s, o, k)
       \/ \E a \in asserted : PasskeyLoginFinish(s, o, a)
  \/ \E s \in Slots : WriteHandle(s) \/ WriteRecord(s) \/ WriteUse(s) \/ WriteError(s)
  \/ \E ch \in Challenges : PasskeyLoginBegin(ch) \/ \E m \in made : Sign(m, ch)
  \/ \E k \in Keys, r \in regs : MakeKey(k, r)

PasskeysSpec == PasskeysInit /\ [][PasskeysNext]_passkeyVars

-----------------------------------------------------------------------------
PasskeysTypeOK ==
  /\ accounts \in [Owners -> Account]
  /\ pending \in [Slots -> Request \cup {Idle}]
  /\ regs \subseteq Registration /\ logins \subseteq Challenges
  /\ made \subseteq Credential /\ counter \in [Keys -> 0..MaxCount] /\ asserted \subseteq Assertion
  /\ givenTo \in [Handles -> Owners \cup {Nobody}]
  /\ signIns \subseteq [key : Keys, owner : Owners]
  /\ accepted \subseteq Assertion /\ again \subseteq Assertion
  /\ voided \subseteq Challenges /\ lost \in BOOLEAN

\* A passkey opens the account whose password was given when it was registered, whichever
\* sessions bring the ceremony's second request and whichever writes cross
\* (PasskeyRegisterBegin, PasskeyRegisterFinish, PasskeyLoginFinish).
SignInIsOwners ==
  \A i \in signIns, m \in made : m.key = i.key => m.by = i.owner

\* The passkeys of a record were made for the handle stored beside them, so signing in
\* with one finds the record it is in: no write-back separates the two.
KeysUnderHandle ==
  \A o \in Owners : \A k \in accounts[o].keys :
    \E m \in made : m.key = k /\ m.handle = accounts[o].handle

\* A sign-in that is sent again, cookie and assertion, is refused where the authenticator
\* counts, as long as no write was lost and the key stays registered (CloneWarning
\* against the count persistPasskeyUse saved).
AssertionOnce == ~lost => \A a \in again : a.key \notin Counting

\* Clearing somebody's passkeys also ends the registrations under way: no ceremony begun
\* before it adds, or brings back, a passkey, unless a write was lost (Handler.Update).
ClearEndsRegistrations ==
  ~lost => \A o \in Owners, m \in made : m.key \in accounts[o].keys => m.ch \notin voided

-----------------------------------------------------------------------------
(* What a comment says and the code does not do.                             *)

\* domain/auth/webauthn.go:61: the ceremony cookie is single use. Nothing but the browser
\* drops it, so a key that does not count (or whose count was not saved) signs in twice.
CeremonySingleUse == again = {}

=============================================================================
