--------------------------- MODULE PasskeysProofs ---------------------------
(***************************************************************************)
(* Proofs about Passkeys, for any number of accounts, slots, keys and      *)
(* ceremonies.                                                             *)
(*                                                                         *)
(* A handler reads a record, derives a copy, and writes it later, so the   *)
(* proofs ask of a copy what they ask of a record (HandlesInv), and of a   *)
(* copy that nobody overtook how it compares with the record (ClearInv,    *)
(* CountInv).                                                              *)
(***************************************************************************)
EXTENDS Passkeys, TLAPS

-----------------------------------------------------------------------------
(* Types.                                                                  *)

\* Taking keys from a record leaves a record.
LEMMA ClearedType ==
  ASSUME NEW a \in Account, NEW gone
  PROVE  /\ Without(a, gone) \in Account
         /\ Cleared(a) \in Account
<1>1. [k \in Keys |-> IF k \in gone THEN 0 ELSE a.count[k]] \in [Keys -> 0..MaxCount]
  BY PasskeysAssumption DEF Account
<1>2. [k \in Keys |-> IF k \in Keys THEN 0 ELSE a.count[k]] \in [Keys -> 0..MaxCount]
  BY PasskeysAssumption DEF Account
<1>3. Without(a, gone) \in Account /\ Without(a, Keys) \in Account
  BY <1>1, <1>2 DEF Account, Without
<1> QED BY <1>3 DEF Account, Cleared

\* A write leaves records and requests.
LEMMA SaveType ==
  ASSUME PasskeysTypeOK, NEW s \in Slots, pending[s] # Idle, Save(s)
  PROVE  /\ pending[s] \in Request
         /\ accounts' \in [Owners -> Account]
         /\ pending' \in [Slots -> Request \cup {Idle}]
         /\ lost' \in BOOLEAN
<1>1. pending[s] \in Request
  BY DEF PasskeysTypeOK
<1>2. /\ pending[s].who \in Owners /\ pending[s].copy \in Account
      /\ pending[s].stale \in BOOLEAN
  BY <1>1 DEF Request
<1>3. ASSUME NEW t \in Slots, pending[t] # Idle
      PROVE  [pending[t] EXCEPT !.stale = TRUE] \in Request
  <2>1. pending[t] \in Request
    BY <1>3 DEF PasskeysTypeOK
  <2>2. CASE pending[t] \in [op : Saves, who : Owners, copy : Account, stale : BOOLEAN]
    BY <2>2 DEF Request
  <2>3. CASE pending[t] \in [op : {"login"}, who : Owners, copy : Account,
                             stale : BOOLEAN, by : Assertion]
    BY <2>3 DEF Request
  <2> QED BY <2>1, <2>2, <2>3 DEF Request
<1>4. pending' \in [Slots -> Request \cup {Idle}]
  BY <1>3 DEF PasskeysTypeOK, Save
<1>5. accounts' \in [Owners -> Account]
  BY <1>2 DEF PasskeysTypeOK, Save
<1> QED BY <1>1, <1>2, <1>4, <1>5 DEF Save, PasskeysTypeOK

\* A challenge is issued for a registration.
LEMMA IssueType ==
  ASSUME PasskeysTypeOK, NEW ch \in Challenges, NEW h \in Handles, NEW o \in Owners,
         IssueRegistration(ch, h, o)
  PROVE  regs' \subseteq Registration
BY DEF PasskeysTypeOK, IssueRegistration, Registration

\* A sign-in under way answers an assertion.
LEMMA LoginType ==
  ASSUME PasskeysTypeOK, NEW s \in Slots, pending[s] # Idle, pending[s].op = "login"
  PROVE  pending[s].by \in Assertion
BY DEF PasskeysTypeOK, Request, Saves

-----------------------------------------------------------------------------
(* What a handler has just read: the request it becomes, next to the       *)
(* record.                                                                 *)

Derived(q) ==
  LET rec == accounts[q.who] IN
  /\ q \in Request /\ q.stale = FALSE
  /\ \/ /\ q.op = "begin" /\ rec.handle = NoHandle
        /\ q.copy.handle \in Handles /\ givenTo[q.copy.handle] = Nobody
        /\ q.copy.keys = rec.keys /\ q.copy.count = rec.count
     \/ q.op = "clear" /\ q.copy.handle = NoHandle /\ q.copy.keys = {}
     \/ /\ q.op \in {"finish", "delete", "update"} /\ q.copy.handle = rec.handle
        /\ \A k \in q.copy.keys :
             k \in rec.keys \/ \E m \in made : m.key = k /\ m.handle = rec.handle
        /\ \A k \in q.copy.keys \cap rec.keys : q.copy.count[k] = rec.count[k]
     \/ /\ q.op = "login" /\ q.copy.handle = rec.handle /\ q.copy.keys = rec.keys
        /\ q.by \in asserted /\ q.by.key \in rec.keys
        /\ ~CloneWarning(rec.count[q.by.key], q.by.count)
        /\ q.copy.count = [rec.count EXCEPT ![q.by.key] = q.by.count]

Holds(s, q) == pending[s] = Idle /\ pending' = [pending EXCEPT ![s] = q]

\* The steps that read a record and change nothing yet.
ReadStep(s, o) ==
  \/ \E m \in made : RegisterFinish(s, o, m)
  \/ \E k \in Keys : PasskeyDelete(s, o, k)
  \/ AdminUpdate(s, o)
  \/ \E a \in asserted : PasskeyLoginFinish(s, o, a)

\* Each of them holds a request derived from the record of o.
LEMMA ReadsRecord ==
  ASSUME PasskeysTypeOK, NEW s \in Slots, NEW o \in Owners, ReadStep(s, o)
  PROVE  /\ \E q \in Request : Derived(q) /\ q.op # "begin" /\ q.who = o /\ Holds(s, q)
         /\ UNCHANGED <<accounts, lost, browser, givenTo, signedIn, voided>>
<1> DEFINE rec == accounts[o]
<1>0. /\ rec \in Account /\ pending[s] = Idle
      /\ UNCHANGED <<accounts, lost, browser, givenTo, signedIn, voided>>
  BY DEF PasskeysTypeOK, ReadStep, RegisterFinish, PasskeyDelete, AdminUpdate, PasskeyLoginFinish
<1>1. ASSUME NEW m \in made, RegisterFinish(s, o, m)
      PROVE  \E q \in Request : Derived(q) /\ q.op # "begin" /\ q.who = o /\ Holds(s, q)
  <2> DEFINE q == [op |-> "finish", who |-> o, stale |-> FALSE,
                   copy |-> [rec EXCEPT !.keys = @ \cup {m.key}]]
  <2>1. m.key \in Keys /\ m.handle = rec.handle
    BY <1>1 DEF PasskeysTypeOK, Credential, RegisterFinish
  <2>2. q.copy \in Account
    BY <1>0, <2>1 DEF Account
  <2>3. q \in Request
    BY <2>2 DEF Request, Saves
  <2>4. /\ q.copy.handle = rec.handle /\ q.copy.keys = rec.keys \cup {m.key}
        /\ q.copy.count = rec.count
    BY <1>0 DEF Account
  <2>5. Derived(q)
    BY <2>1, <2>3, <2>4 DEF Derived
  <2>6. Holds(s, q)
    BY <1>1 DEF RegisterFinish, Hold, Holds
  <2> QED BY <2>3, <2>5, <2>6
<1>2. ASSUME NEW k \in Keys, PasskeyDelete(s, o, k)
      PROVE  \E q \in Request : Derived(q) /\ q.op # "begin" /\ q.who = o /\ Holds(s, q)
  <2> DEFINE q == [op |-> "delete", who |-> o, stale |-> FALSE, copy |-> Without(rec, {k})]
  <2>1. q \in Request
    BY <1>0, ClearedType DEF Request, Saves
  <2>2. /\ q.copy.handle = rec.handle /\ q.copy.keys = rec.keys \ {k}
        /\ \A j \in q.copy.keys : q.copy.count[j] = rec.count[j]
    BY <1>0 DEF Account, Without
  <2>3. Derived(q)
    BY <2>1, <2>2 DEF Derived
  <2>4. Holds(s, q)
    BY <1>2 DEF PasskeyDelete, Hold, Holds
  <2> QED BY <2>1, <2>3, <2>4
<1>3. ASSUME AdminUpdate(s, o)
      PROVE  \E q \in Request : Derived(q) /\ q.op # "begin" /\ q.who = o /\ Holds(s, q)
  <2>1. PICK enabled \in BOOLEAN :
          \/ Hold(s, "update", o, [rec EXCEPT !.enabled = enabled])
          \/ Hold(s, "clear", o, [Cleared(rec) EXCEPT !.enabled = enabled])
    BY <1>3 DEF AdminUpdate
  <2>2. CASE Hold(s, "update", o, [rec EXCEPT !.enabled = enabled])
    <3> DEFINE q == [op |-> "update", who |-> o, stale |-> FALSE,
                     copy |-> [rec EXCEPT !.enabled = enabled]]
    <3>1. q \in Request
      BY <1>0, [rec EXCEPT !.enabled = enabled] \in Account DEF Request, Saves, Account
    <3>2. q.copy.handle = rec.handle /\ q.copy.keys = rec.keys /\ q.copy.count = rec.count
      BY <1>0 DEF Account
    <3>3. Derived(q)
      BY <3>1, <3>2 DEF Derived
    <3> QED BY <1>0, <2>2, <3>1, <3>3 DEF Hold, Holds
  <2>3. CASE Hold(s, "clear", o, [Cleared(rec) EXCEPT !.enabled = enabled])
    <3> DEFINE q == [op |-> "clear", who |-> o, stale |-> FALSE,
                     copy |-> [Cleared(rec) EXCEPT !.enabled = enabled]]
    <3>1. Cleared(rec) \in Account
      BY <1>0, ClearedType
    <3>2. q.copy \in Account
      BY <3>1 DEF Account
    <3>3. q \in Request
      BY <3>2 DEF Request, Saves
    <3>4. q.copy.handle = NoHandle /\ q.copy.keys = {}
      BY <1>0 DEF Cleared, Without, Account
    <3>5. Derived(q)
      BY <3>3, <3>4 DEF Derived
    <3> QED BY <1>0, <2>3, <3>3, <3>5 DEF Hold, Holds
  <2> QED BY <2>1, <2>2, <2>3
<1>4. ASSUME NEW a \in asserted, PasskeyLoginFinish(s, o, a)
      PROVE  \E q \in Request : Derived(q) /\ q.op # "begin" /\ q.who = o /\ Holds(s, q)
  <2> DEFINE q == [op |-> "login", who |-> o, stale |-> FALSE, by |-> a,
                   copy |-> [rec EXCEPT !.count[a.key] = a.count]]
  <2>1. /\ a \in Assertion /\ a.key \in Keys /\ a.count \in 0..MaxCount
        /\ a.key \in rec.keys /\ ~CloneWarning(rec.count[a.key], a.count)
    BY <1>4 DEF PasskeysTypeOK, Assertion, PasskeyLoginFinish, Resolves
  <2>2. /\ q.copy \in Account /\ q.copy.handle = rec.handle /\ q.copy.keys = rec.keys
        /\ q.copy.count = [rec.count EXCEPT ![a.key] = a.count]
    BY <1>0, <2>1 DEF Account
  <2>3. q \in Request
    BY <2>1, <2>2 DEF Request
  <2>4. Derived(q)
    BY <2>1, <2>2, <2>3 DEF Derived
  <2>5. Holds(s, q)
    BY <1>4 DEF PasskeyLoginFinish, HoldSignIn, Holds
  <2> QED BY <2>3, <2>4, <2>5
<1> QED BY <1>0, <1>1, <1>2, <1>3, <1>4 DEF ReadStep

\* RegisterBegin issues a challenge for the handle there is, or holds a copy with a new one.
Draws(s, o) ==
  \E q \in Request :
    /\ Derived(q) /\ q.op = "begin" /\ q.who = o /\ Holds(s, q)
    /\ givenTo' = [givenTo EXCEPT ![q.copy.handle] = o]
    /\ UNCHANGED regs

Issues(o) ==
  /\ accounts[o].handle \in Handles
  /\ \E ch \in Challenges : IssueRegistration(ch, accounts[o].handle, o)
  /\ UNCHANGED <<pending, givenTo>>

\* It does one or the other, and nothing else.
LEMMA BeginReadsRecord ==
  ASSUME PasskeysTypeOK, NEW s \in Slots, NEW o \in Owners, RegisterBegin(s, o)
  PROVE  /\ Issues(o) \/ Draws(s, o)
         /\ UNCHANGED <<accounts, lost, logins, made, counter, asserted, signedIn, voided>>
<1> DEFINE rec == accounts[o]
<1>0. /\ rec \in Account /\ pending[s] = Idle
      /\ UNCHANGED <<accounts, lost, logins, made, counter, asserted, signedIn, voided>>
  BY DEF PasskeysTypeOK, RegisterBegin
<1>1. CASE rec.handle # NoHandle
  BY <1>0, <1>1 DEF RegisterBegin, Issues, Account
<1>2. CASE rec.handle = NoHandle
  <2>1. PICK h \in Handles : /\ givenTo[h] = Nobody
                             /\ Hold(s, "begin", o, [rec EXCEPT !.handle = h])
                             /\ givenTo' = [givenTo EXCEPT ![h] = o]
                             /\ UNCHANGED regs
    BY <1>2 DEF RegisterBegin
  <2> DEFINE q == [op |-> "begin", who |-> o, stale |-> FALSE, copy |-> [rec EXCEPT !.handle = h]]
  <2>2. /\ q.copy \in Account /\ q.copy.handle = h
        /\ q.copy.keys = rec.keys /\ q.copy.count = rec.count
    BY <1>0 DEF Account
  <2>3. q \in Request
    BY <2>2 DEF Request, Saves
  <2>4. Derived(q) /\ Holds(s, q)
    BY <1>0, <1>2, <2>1, <2>2, <2>3 DEF Derived, Hold, Holds
  <2> QED BY <1>0, <2>1, <2>2, <2>3, <2>4 DEF Draws
<1> QED BY <1>0, <1>1, <1>2

-----------------------------------------------------------------------------
(* Every variable keeps its type. A drawn handle is in its request until   *)
(* it is saved, which the ceremony it starts relies on.                    *)

BeginsNamed == \A s \in Slots : About(s, {"begin"}) => pending[s].copy.handle # NoHandle
Typed == PasskeysTypeOK /\ BeginsNamed

\* What a write leaves in the slots: this one is idle, and copies of the record are stale.
LEMMA SaveKeeps ==
  ASSUME NEW s \in Slots, Save(s), PasskeysTypeOK, pending[s] # Idle
  PROVE  \A t \in Slots : pending'[t] # Idle =>
           /\ pending[t] # Idle /\ t # s
           /\ pending'[t].op = pending[t].op /\ pending'[t].who = pending[t].who
           /\ pending'[t].copy = pending[t].copy
           /\ pending[t].op = "login" => pending'[t].by = pending[t].by
           /\ pending'[t].stale = FALSE =>
                pending[t].who # pending[s].who /\ pending'[t] = pending[t]
<1> SUFFICES ASSUME NEW t \in Slots, pending'[t] # Idle
             PROVE  /\ pending[t] # Idle /\ t # s
                    /\ pending'[t].op = pending[t].op /\ pending'[t].who = pending[t].who
                    /\ pending'[t].copy = pending[t].copy
                    /\ pending[t].op = "login" => pending'[t].by = pending[t].by
                    /\ pending'[t].stale = FALSE =>
                         pending[t].who # pending[s].who /\ pending'[t] = pending[t]
  OBVIOUS
<1>1. pending[t] # Idle /\ t # s
  BY DEF Save
<1>2. CASE pending[t].who # pending[s].who
  BY <1>1, <1>2 DEF Save
<1>3. CASE pending[t].who = pending[s].who
  <2>1. pending'[t] = [pending[t] EXCEPT !.stale = TRUE]
    BY <1>1, <1>3 DEF Save
  <2>2. pending[t] \in Request
    BY <1>1 DEF PasskeysTypeOK
  <2>3. CASE pending[t] \in [op : Saves, who : Owners, copy : Account, stale : BOOLEAN]
    BY <1>1, <2>1, <2>3 DEF Saves
  <2>4. CASE pending[t] \in [op : {"login"}, who : Owners, copy : Account,
                             stale : BOOLEAN, by : Assertion]
    BY <1>1, <2>1, <2>4
  <2> QED BY <2>2, <2>3, <2>4 DEF Request
<1> QED BY <1>2, <1>3

\* The types hold at the start.
LEMMA TypedInit == PasskeysInit => Typed
<1>1. 0 \in 0..MaxCount
  BY PasskeysAssumption
<1>2. NewAccount \in Account
  BY <1>1 DEF NewAccount, Account
<1> QED BY <1>1, <1>2 DEF PasskeysInit, PasskeysTypeOK, Typed, BeginsNamed, About

\* No step, of any number of requests, takes them away.
LEMMA TypedNext == Typed /\ [PasskeysNext]_passkeyVars => Typed'
<1> SUFFICES ASSUME Typed, [PasskeysNext]_passkeyVars PROVE Typed'
  OBVIOUS
<1> USE DEF Typed, record, browser, signedIn
<1>1. ASSUME NEW s \in Slots, NEW o \in Owners, RegisterBegin(s, o) PROVE Typed'
  <2>1. UNCHANGED <<accounts, lost, logins, made, counter, asserted, signedIn, voided>>
    BY <1>1, BeginReadsRecord
  <2>2. CASE Issues(o)
    <3>1. regs' \subseteq Registration
      BY <2>2, IssueType DEF Issues
    <3> QED BY <2>1, <2>2, <3>1 DEF Issues, PasskeysTypeOK, BeginsNamed, About
  <2>3. CASE Draws(s, o)
    <3>1. PICK q \in Request : /\ Derived(q) /\ q.op = "begin" /\ q.who = o /\ Holds(s, q)
                               /\ givenTo' = [givenTo EXCEPT ![q.copy.handle] = o]
                               /\ UNCHANGED regs
      BY <2>3 DEF Draws
    <3>2. pending' \in [Slots -> Request \cup {Idle}]
      BY <3>1 DEF Holds, PasskeysTypeOK
    <3>3. givenTo' \in [Handles -> Owners \cup {Nobody}]
      BY <3>1 DEF PasskeysTypeOK
    <3>4. q.copy.handle # NoHandle
      BY <3>1, PasskeysAssumption DEF Derived
    <3>5. BeginsNamed'
      BY <3>1, <3>4 DEF Holds, BeginsNamed, About, PasskeysTypeOK
    <3> QED BY <2>1, <3>1, <3>2, <3>3, <3>5 DEF PasskeysTypeOK
  <2> QED BY <1>1, <2>2, <2>3, BeginReadsRecord
<1>2. ASSUME NEW s \in Slots, NEW o \in Owners, ReadStep(s, o) PROVE Typed'
  <2>1. PICK q \in Request : q.op # "begin" /\ Holds(s, q)
    BY <1>2, ReadsRecord
  <2>2. pending' \in [Slots -> Request \cup {Idle}] /\ BeginsNamed'
    BY <2>1 DEF Holds, PasskeysTypeOK, BeginsNamed, About
  <2>3. UNCHANGED <<accounts, lost, browser, givenTo, signedIn, voided>>
    BY <1>2, ReadsRecord
  <2> QED BY <2>2, <2>3 DEF PasskeysTypeOK
<1>3. ASSUME NEW s \in Slots, pending[s] # Idle, Save(s)
      PROVE  /\ pending[s] \in Request /\ accounts' \in [Owners -> Account]
             /\ pending' \in [Slots -> Request \cup {Idle}] /\ lost' \in BOOLEAN
             /\ BeginsNamed'
  <2>1. BeginsNamed'
    BY <1>3, SaveKeeps DEF BeginsNamed, About
  <2> QED BY <1>3, <2>1, SaveType
<1>4. ASSUME NEW s \in Slots, WriteHandle(s) PROVE Typed'
  <2>1. pending[s] # Idle /\ Save(s)
    BY <1>4 DEF WriteHandle, About
  <2>2. PICK ch \in Challenges : IssueRegistration(ch, pending[s].copy.handle, pending[s].who)
    BY <1>4 DEF WriteHandle
  <2>3. pending[s].who \in Owners /\ pending[s].copy.handle \in Handles
    BY <1>3, <1>4, <2>1 DEF Request, Account, BeginsNamed, WriteHandle
  <2>4. regs' \subseteq Registration
    BY <2>2, <2>3, IssueType
  <2> QED BY <1>3, <1>4, <2>1, <2>4 DEF WriteHandle, PasskeysTypeOK
<1>5. ASSUME NEW s \in Slots, WriteRecord(s) PROVE Typed'
  <2>1. pending[s] # Idle /\ Save(s)
    BY <1>5 DEF WriteRecord, About
  <2>2. voided' \subseteq Challenges
    BY <1>5 DEF WriteRecord, PasskeysTypeOK, Registration
  <2> QED BY <1>3, <1>5, <2>1, <2>2 DEF WriteRecord, PasskeysTypeOK
<1>6. ASSUME NEW s \in Slots, pending[s] # Idle, pending[s].op = "login", SignedInBy(s)
      PROVE  /\ signIns' \subseteq [key : Keys, owner : Owners]
             /\ accepted' \subseteq Assertion /\ again' \subseteq Assertion
  <2>1. pending[s].by \in Assertion /\ pending[s].by.key \in Keys
    BY <1>6, LoginType DEF Assertion
  <2>2. pending[s].who \in Owners
    BY <1>6 DEF PasskeysTypeOK, Request
  <2> QED BY <1>6, <2>1, <2>2 DEF SignedInBy, PasskeysTypeOK
<1>7. ASSUME NEW s \in Slots, WriteUse(s) PROVE Typed'
  <2>1. pending[s] # Idle /\ pending[s].op = "login" /\ Save(s) /\ SignedInBy(s)
    BY <1>7 DEF WriteUse, About
  <2> QED BY <1>3, <1>6, <1>7, <2>1 DEF WriteUse, PasskeysTypeOK
<1>8. ASSUME NEW s \in Slots, WriteError(s) PROVE Typed'
  <2>1. /\ pending' \in [Slots -> Request \cup {Idle}] /\ BeginsNamed'
        /\ UNCHANGED <<accounts, browser, givenTo, voided>>
    BY <1>8 DEF WriteError, PasskeysTypeOK, BeginsNamed, About
  <2>2. CASE pending[s].op = "login"
    BY <1>6, <1>8, <2>1, <2>2 DEF WriteError, PasskeysTypeOK
  <2>3. CASE pending[s].op # "login"
    BY <1>8, <2>1, <2>3 DEF WriteError, PasskeysTypeOK
  <2> QED BY <2>2, <2>3
<1>9. ASSUME NEW ch \in Challenges, PasskeyLoginBegin(ch) PROVE Typed'
  BY <1>9 DEF PasskeyLoginBegin, PasskeysTypeOK, BeginsNamed, About
<1>10. ASSUME NEW ch \in Challenges, NEW m \in made, Sign(m, ch) PROVE Typed'
  <2> DEFINE n == IF m.key \in Counting THEN counter[m.key] + 1 ELSE 0
  <2>1. m.key \in Keys /\ n \in 0..MaxCount
    BY <1>10, PasskeysAssumption DEF Sign, PasskeysTypeOK, Credential
  <2>2. counter' = [counter EXCEPT ![m.key] = n]
        /\ asserted' = asserted \cup {[key |-> m.key, ch |-> ch, count |-> n]}
    BY <1>10 DEF Sign
  <2>3. counter' \in [Keys -> 0..MaxCount] /\ asserted' \subseteq Assertion
    <3> HIDE DEF n
    <3> QED BY <2>1, <2>2 DEF PasskeysTypeOK, Assertion
  <2> QED BY <1>10, <2>3 DEF Sign, PasskeysTypeOK, BeginsNamed, About
<1>11. ASSUME NEW k \in Keys, NEW r \in regs, MakeKey(k, r) PROVE Typed'
  BY <1>11 DEF MakeKey, PasskeysTypeOK, Credential, Registration, BeginsNamed, About
<1>12. CASE UNCHANGED passkeyVars
  BY <1>12 DEF passkeyVars, PasskeysTypeOK, BeginsNamed, About
<1> QED BY <1>1, <1>2, <1>4, <1>5, <1>7, <1>8, <1>9, <1>10, <1>11, <1>12 DEF PasskeysNext, ReadStep

\* Every variable keeps its type, for any number of accounts, slots, keys and ceremonies.
THEOREM TypedHolds == PasskeysSpec => []Typed
<1> QED BY TypedInit, TypedNext, PTL DEF PasskeysSpec

-----------------------------------------------------------------------------
(* Handles and the keys made for them. What a record, or a copy of it that *)
(* is about to be written, says stays true: a handle is drawn once, and    *)
(* what an authenticator made it has made.                                 *)

Sound(o, rec) ==
  /\ rec.handle # NoHandle => givenTo[rec.handle] = o
  /\ \A k \in rec.keys : \E m \in made : m.key = k /\ m.handle = rec.handle

SoundRecords == \A o \in Owners : Sound(o, accounts[o])
SoundCopies == \A s \in Slots : pending[s] # Idle => Sound(pending[s].who, pending[s].copy)
LoginsHaveKey == \A s \in Slots : About(s, {"login"}) => pending[s].by.key \in pending[s].copy.keys

SoundCeremonies ==
  /\ \A r \in regs : givenTo[r.handle] = r.by
  /\ \A m \in made : givenTo[m.handle] = m.by
  /\ \A m, n \in made : m.key = n.key => m = n

SignInsMade == \A i \in signIns : \E m \in made : m.key = i.key

HandlesInv == /\ Typed /\ SoundRecords /\ SoundCopies /\ LoginsHaveKey /\ SoundCeremonies
              /\ SignInsMade /\ SignInIsOwners

\* What no step takes back.
Grows == /\ made \subseteq made'
         /\ \A h \in Handles : givenTo[h] \in Owners => givenTo'[h] = givenTo[h]

\* So what is sound stays sound.
LEMMA SoundStays ==
  ASSUME PasskeysTypeOK, Grows
  PROVE  \A o \in Owners, rec \in Account : Sound(o, rec) => Sound(o, rec)'
BY PasskeysAssumption DEF Grows, Sound, Account, PasskeysTypeOK

\* A request derived from a sound record is sound, a drawn handle being given to its account.
LEMMA DerivedSound ==
  ASSUME PasskeysTypeOK, SoundRecords, NEW q \in Request, Derived(q)
  PROVE  /\ q.op # "begin" => Sound(q.who, q.copy)
         /\ q.op = "begin" => q.copy.handle \in Handles /\ q.copy.keys = {}
         /\ q.op = "login" => q.by.key \in q.copy.keys
<1> DEFINE rec == accounts[q.who]
<1>1. q.who \in Owners /\ rec \in Account /\ q.copy \in Account
  BY DEF PasskeysTypeOK, Request
<1>2. Sound(q.who, rec)
  BY <1>1 DEF SoundRecords
<1>3. rec.handle = NoHandle => rec.keys = {}
  BY <1>2, PasskeysAssumption DEF Sound, PasskeysTypeOK, Credential
<1>4. q.op = "login" => q.copy.handle = rec.handle /\ q.copy.keys = rec.keys
                        /\ q.by.key \in rec.keys
  BY DEF Derived
<1>5. q.op = "begin" => q.copy.handle \in Handles /\ q.copy.keys = rec.keys
                        /\ rec.handle = NoHandle
  BY DEF Derived
<1>6. CASE q.op = "clear"
  BY <1>6 DEF Derived, Sound
<1>7. CASE q.op \in {"finish", "delete", "update"}
  BY <1>2, <1>7 DEF Derived, Sound
<1>8. CASE q.op = "login"
  BY <1>2, <1>4, <1>8 DEF Sound
<1> QED BY <1>3, <1>4, <1>5, <1>6, <1>7, <1>8 DEF Derived

\* The copies after a request has been added.
LEMMA CopiesHeld ==
  ASSUME HandlesInv, Grows, NEW s \in Slots, NEW q \in Request, Holds(s, q),
         Sound(q.who, q.copy)', q.op = "login" => q.by.key \in q.copy.keys
  PROVE  SoundCopies' /\ LoginsHaveKey'
<1>1. \A t \in Slots : pending[t] # Idle =>
        pending[t].who \in Owners /\ pending[t].copy \in Account
  BY DEF HandlesInv, Typed, PasskeysTypeOK, Request
<1>2. \A t \in Slots : t # s => pending'[t] = pending[t]
  BY DEF Holds, HandlesInv, Typed, PasskeysTypeOK
<1>3. pending'[s] = q
  BY DEF Holds, HandlesInv, Typed, PasskeysTypeOK
<1>4. ASSUME NEW t \in Slots, pending'[t] # Idle
      PROVE  Sound(pending[t].who, pending[t].copy)'
  <2>1. CASE t = s
    BY <1>3, <2>1 DEF Sound
  <2>2. CASE t # s
    <3>1. Sound(pending[t].who, pending[t].copy)
      BY <1>2, <1>4, <2>2 DEF HandlesInv, SoundCopies
    <3> DEFINE who == pending[t].who  copy == pending[t].copy
    <3>2. /\ copy.handle # NoHandle => givenTo'[copy.handle] = who
          /\ \A k \in copy.keys : \E m \in made' : m.key = k /\ m.handle = copy.handle
      BY <1>1, <1>2, <1>4, <2>2, <3>1, PasskeysAssumption
      DEF Sound, Grows, Account, HandlesInv, Typed, PasskeysTypeOK
    <3> QED BY <1>2, <2>2, <3>2 DEF Sound
  <2> QED BY <2>1, <2>2
<1> QED BY <1>2, <1>3, <1>4 DEF HandlesInv, SoundCopies, LoginsHaveKey, About

\* The copies in the slots when nothing is added to them.
LEMMA CopiesKept ==
  ASSUME HandlesInv, Grows,
         \A t \in Slots : pending'[t] # Idle =>
           /\ pending[t] # Idle
           /\ pending'[t].op = pending[t].op /\ pending'[t].who = pending[t].who
           /\ pending'[t].copy = pending[t].copy
           /\ pending[t].op = "login" => pending'[t].by = pending[t].by
  PROVE  SoundCopies' /\ LoginsHaveKey'
<1>1. ASSUME NEW t \in Slots, pending'[t] # Idle
      PROVE  Sound(pending[t].who, pending[t].copy)'
  <2> DEFINE who == pending[t].who  copy == pending[t].copy
  <2>1. who \in Owners /\ copy \in Account /\ Sound(who, copy)
    BY <1>1 DEF HandlesInv, Typed, PasskeysTypeOK, Request, SoundCopies
  <2>2. /\ copy.handle # NoHandle => givenTo'[copy.handle] = who
        /\ \A k \in copy.keys : \E m \in made' : m.key = k /\ m.handle = copy.handle
    BY <2>1 DEF Sound, Grows, Account
  <2> QED BY <1>1, <2>2 DEF Sound
<1> QED BY <1>1 DEF HandlesInv, SoundCopies, LoginsHaveKey, About

\* The records, when none is written.
LEMMA RecordsKept ==
  ASSUME HandlesInv, Grows, UNCHANGED accounts
  PROVE  SoundRecords'
<1>1. ASSUME NEW o \in Owners PROVE Sound(o, accounts[o])'
  <2> DEFINE rec == accounts[o]
  <2>1. rec \in Account /\ Sound(o, rec)
    BY DEF HandlesInv, Typed, PasskeysTypeOK, SoundRecords
  <2>2. /\ rec.handle # NoHandle => givenTo'[rec.handle] = o
        /\ \A k \in rec.keys : \E m \in made' : m.key = k /\ m.handle = rec.handle
    BY <2>1 DEF Sound, Grows, Account
  <2> QED BY <2>2 DEF Sound
<1> QED BY <1>1 DEF SoundRecords

\* A write makes a record of a sound copy.
LEMMA SavesSound ==
  ASSUME HandlesInv, UNCHANGED <<made, givenTo>>, NEW s \in Slots, pending[s] # Idle, Save(s)
  PROVE  SoundRecords' /\ SoundCopies' /\ LoginsHaveKey'
<1>1. Grows
  BY DEF Grows
<1>2. SoundCopies' /\ LoginsHaveKey'
  BY <1>1, SaveKeeps, CopiesKept DEF HandlesInv, Typed
<1>3. SoundRecords'
  <2>1. Sound(pending[s].who, pending[s].copy)
    BY DEF HandlesInv, SoundCopies
  <2>2. ASSUME NEW o \in Owners PROVE Sound(o, accounts'[o])
    BY <2>1, <2>2 DEF Save, HandlesInv, Typed, PasskeysTypeOK, SoundRecords
  <2> QED BY <2>2 DEF SoundRecords, Sound
<1> QED BY <1>2, <1>3

\* A sign-in opens the account of whoever made the key.
LEMMA SignsInOwner ==
  ASSUME HandlesInv, NEW s \in Slots, About(s, {"login"}), SignedInBy(s), UNCHANGED made
  PROVE  SignInsMade' /\ SignInIsOwners'
<1> DEFINE q == pending[s]
<1>1. q.who \in Owners /\ q.copy \in Account /\ q.by.key \in q.copy.keys /\ Sound(q.who, q.copy)
  BY DEF HandlesInv, Typed, PasskeysTypeOK, Request, SoundCopies, LoginsHaveKey, About
<1>2. PICK m \in made : m.key = q.by.key /\ m.handle = q.copy.handle
  BY <1>1 DEF Sound
<1>3. m.handle \in Handles
  BY DEF HandlesInv, Typed, PasskeysTypeOK, Credential
<1>4. m.by = q.who
  BY <1>1, <1>2, <1>3, PasskeysAssumption DEF Sound, HandlesInv, SoundCeremonies
<1>5. signIns' = signIns \cup {[key |-> q.by.key, owner |-> q.who]}
  BY DEF SignedInBy
<1>6. ASSUME NEW i \in signIns', NEW n \in made, n.key = i.key PROVE n.by = i.owner
  <2>1. CASE i \in signIns
    BY <1>6, <2>1 DEF HandlesInv, SignInIsOwners
  <2>2. CASE i = [key |-> q.by.key, owner |-> q.who]
    <3>1. n = m
      BY <1>2, <1>6, <2>2 DEF HandlesInv, SoundCeremonies
    <3> QED BY <1>4, <2>2, <3>1
  <2> QED BY <1>5, <2>1, <2>2
<1>7. ASSUME NEW i \in signIns' PROVE \E n \in made : n.key = i.key
  BY <1>2, <1>5 DEF HandlesInv, SignInsMade
<1> QED BY <1>6, <1>7 DEF SignInsMade, SignInIsOwners

\* The handle invariant holds at the start, no record having a handle.
LEMMA HandlesInit == PasskeysInit => HandlesInv
<1> SUFFICES ASSUME PasskeysInit PROVE HandlesInv
  OBVIOUS
<1>1. \A o \in Owners : accounts[o].handle = NoHandle /\ accounts[o].keys = {}
  BY DEF PasskeysInit, NewAccount
<1> QED BY <1>1, TypedInit DEF PasskeysInit, HandlesInv, SoundRecords, Sound, SoundCopies,
  LoginsHaveKey, About, SoundCeremonies, SignInsMade, SignInIsOwners

\* Every step keeps the handle invariant: reads derive sound copies, writes store them.
LEMMA HandlesNext == HandlesInv /\ [PasskeysNext]_passkeyVars => HandlesInv'
<1> SUFFICES ASSUME HandlesInv, [PasskeysNext]_passkeyVars PROVE HandlesInv'
  OBVIOUS
<1> USE DEF record, browser, signedIn
<1>0. Typed' /\ PasskeysTypeOK
  BY TypedNext DEF HandlesInv, Typed
\* Steps that leave the ceremonies or the sign-ins alone.
<1>a. UNCHANGED <<regs, made, givenTo>> => SoundCeremonies'
  BY DEF HandlesInv, SoundCeremonies
<1>b. UNCHANGED <<made, signIns>> => SignInsMade' /\ SignInIsOwners'
  BY DEF HandlesInv, SignInsMade, SignInIsOwners
<1>c. UNCHANGED <<made, givenTo>> => Grows
  BY DEF Grows
<1>d. UNCHANGED pending /\ Grows => SoundCopies' /\ LoginsHaveKey'
  BY CopiesKept
<1>1. ASSUME NEW s \in Slots, NEW o \in Owners, RegisterBegin(s, o) PROVE HandlesInv'
  <2>1. UNCHANGED <<accounts, made, signIns>>
    BY <1>1, <1>0, BeginReadsRecord
  <2>2. CASE Issues(o)
    <3>1. accounts[o].handle \in Handles /\ UNCHANGED <<pending, givenTo>>
      BY <2>2 DEF Issues
    <3>2. givenTo[accounts[o].handle] = o
      BY <3>1, PasskeysAssumption DEF HandlesInv, SoundRecords, Sound
    <3>3. SoundCeremonies'
      BY <2>1, <2>2, <3>1, <3>2 DEF Issues, IssueRegistration, HandlesInv, SoundCeremonies
    <3> QED BY <1>0, <1>b, <1>c, <1>d, <2>1, <3>1, <3>3, RecordsKept DEF HandlesInv
  <2>3. CASE Draws(s, o)
    <3>1. PICK q \in Request : /\ Derived(q) /\ q.op = "begin" /\ q.who = o /\ Holds(s, q)
                               /\ givenTo' = [givenTo EXCEPT ![q.copy.handle] = o]
                               /\ UNCHANGED regs
      BY <2>3 DEF Draws
    <3>2. /\ q.copy.handle \in Handles /\ givenTo[q.copy.handle] = Nobody /\ q.copy.keys = {}
      BY <1>0, <3>1, DerivedSound DEF HandlesInv, Derived
    <3>3. Grows
      BY <1>0, <2>1, <3>1, <3>2, PasskeysAssumption DEF Grows, PasskeysTypeOK
    <3>4. Sound(q.who, q.copy)'
      BY <1>0, <3>1, <3>2 DEF Sound, PasskeysTypeOK
    <3>5. SoundCopies' /\ LoginsHaveKey'
      BY <3>1, <3>3, <3>4, CopiesHeld
    <3>6. SoundCeremonies'
      <4>1. \A r \in regs : r.handle \in Handles /\ r.by \in Owners
        BY <1>0 DEF PasskeysTypeOK, Registration
      <4>2. \A m \in made : m.handle \in Handles /\ m.by \in Owners
        BY <1>0 DEF PasskeysTypeOK, Credential
      <4> QED BY <2>1, <3>1, <3>3, <4>1, <4>2 DEF Grows, HandlesInv, SoundCeremonies
    <3> QED BY <1>0, <1>b, <2>1, <3>3, <3>5, <3>6, RecordsKept DEF HandlesInv
  <2> QED BY <1>0, <1>1, <2>2, <2>3, BeginReadsRecord
<1>2. ASSUME NEW s \in Slots, NEW o \in Owners, ReadStep(s, o) PROVE HandlesInv'
  <2>1. UNCHANGED <<accounts, regs, made, givenTo, signIns>>
    BY <1>0, <1>2, ReadsRecord
  <2>2. PICK q \in Request : Derived(q) /\ q.op # "begin" /\ Holds(s, q)
    BY <1>0, <1>2, ReadsRecord
  <2>3. Sound(q.who, q.copy)' /\ (q.op = "login" => q.by.key \in q.copy.keys)
    BY <1>0, <2>1, <2>2, DerivedSound DEF HandlesInv, Sound
  <2>4. SoundCopies' /\ LoginsHaveKey'
    BY <1>c, <2>1, <2>2, <2>3, CopiesHeld
  <2> QED BY <1>0, <1>a, <1>b, <1>c, <2>1, <2>4, RecordsKept DEF HandlesInv
<1>3. ASSUME NEW s \in Slots, WriteHandle(s) PROVE HandlesInv'
  <2>1. pending[s] # Idle /\ Save(s) /\ UNCHANGED <<made, givenTo, signIns>>
    BY <1>3 DEF WriteHandle, About
  <2>2. PICK ch \in Challenges : IssueRegistration(ch, pending[s].copy.handle, pending[s].who)
    BY <1>3 DEF WriteHandle
  <2>3. givenTo[pending[s].copy.handle] = pending[s].who
    BY <1>3, <2>1 DEF WriteHandle, HandlesInv, Typed, BeginsNamed, SoundCopies, Sound
  <2>4. SoundCeremonies'
    BY <2>1, <2>2, <2>3 DEF IssueRegistration, HandlesInv, SoundCeremonies
  <2> QED BY <1>0, <1>b, <2>1, <2>4, SavesSound DEF HandlesInv
<1>4. ASSUME NEW s \in Slots, WriteRecord(s) PROVE HandlesInv'
  <2>1. /\ pending[s] # Idle /\ Save(s)
        /\ UNCHANGED <<regs, made, givenTo, signIns>>
    BY <1>4 DEF WriteRecord, About
  <2> QED BY <1>0, <1>a, <1>b, <2>1, SavesSound DEF HandlesInv
<1>5. ASSUME NEW s \in Slots, WriteUse(s) PROVE HandlesInv'
  <2>1. /\ pending[s] # Idle /\ About(s, {"login"}) /\ Save(s) /\ SignedInBy(s)
        /\ UNCHANGED <<regs, made, givenTo>>
    BY <1>5 DEF WriteUse, About
  <2> QED BY <1>0, <1>a, <2>1, SavesSound, SignsInOwner DEF HandlesInv
<1>6. ASSUME NEW s \in Slots, WriteError(s) PROVE HandlesInv'
  <2>1. /\ UNCHANGED <<accounts, regs, made, givenTo>>
        /\ pending' = [pending EXCEPT ![s] = Idle]
    BY <1>6 DEF WriteError
  <2>2. SoundCopies' /\ LoginsHaveKey'
    BY <1>0, <1>c, <2>1, CopiesKept DEF PasskeysTypeOK
  <2>3. SignInsMade' /\ SignInIsOwners'
    <3>1. CASE pending[s].op = "login"
      BY <1>6, <2>1, <3>1, SignsInOwner DEF WriteError, About
    <3>2. CASE pending[s].op # "login"
      BY <1>6, <1>b, <2>1, <3>2 DEF WriteError
    <3> QED BY <3>1, <3>2
  <2> QED BY <1>0, <1>a, <1>c, <2>1, <2>2, <2>3, RecordsKept DEF HandlesInv
<1>7. ASSUME NEW ch \in Challenges, PasskeyLoginBegin(ch) PROVE HandlesInv'
  BY <1>0, <1>7, <1>a, <1>b, <1>c, <1>d, RecordsKept DEF PasskeyLoginBegin, HandlesInv
<1>8. ASSUME NEW ch \in Challenges, NEW m \in made, Sign(m, ch) PROVE HandlesInv'
  BY <1>0, <1>8, <1>a, <1>b, <1>c, <1>d, RecordsKept DEF Sign, HandlesInv
<1>9. ASSUME NEW k \in Keys, NEW r \in regs, MakeKey(k, r) PROVE HandlesInv'
  <2> DEFINE m == [key |-> k, ch |-> r.ch, handle |-> r.handle, by |-> r.by]
  <2>1. /\ \A n \in made : n.key # k
        /\ made' = made \cup {m} /\ UNCHANGED <<accounts, pending, regs, givenTo, signIns>>
    BY <1>9 DEF MakeKey
  <2>2. Grows
    BY <2>1 DEF Grows
  <2>3. SoundCeremonies'
    BY <2>1 DEF HandlesInv, SoundCeremonies
  <2>4. SignInsMade'
    BY <2>1 DEF HandlesInv, SignInsMade
  <2>5. SignInIsOwners'
    BY <2>1 DEF HandlesInv, SignInsMade, SignInIsOwners
  <2> QED BY <1>0, <1>d, <2>1, <2>2, <2>3, <2>4, <2>5, RecordsKept DEF HandlesInv
<1>10. CASE UNCHANGED passkeyVars
  BY <1>0, <1>10, <1>a, <1>b, <1>c, <1>d, RecordsKept DEF passkeyVars, HandlesInv
<1> QED BY <1>1, <1>2, <1>3, <1>4, <1>5, <1>6, <1>7, <1>8, <1>9, <1>10 DEF PasskeysNext, ReadStep

\* The passkeys of a record were made for the handle beside them, for any number of accounts,
\* requests and ceremonies (PasskeyRegisterBegin and Finish, and the writers of the record).
THEOREM KeysUnderHandleHolds == PasskeysSpec => []KeysUnderHandle
<1>1. HandlesInv => KeysUnderHandle
  BY DEF HandlesInv, SoundRecords, Sound, KeysUnderHandle
<1> QED BY <1>1, HandlesInit, HandlesNext, PTL DEF PasskeysSpec

\* A passkey opens the account whose owner's password began its registration, whichever
\* requests come late, twice or with writes between them (PasskeyLoginFinish).
THEOREM SignInIsOwnersHolds == PasskeysSpec => []SignInIsOwners
<1>1. HandlesInv => SignInIsOwners
  BY DEF HandlesInv
<1> QED BY <1>1, HandlesInit, HandlesNext, PTL DEF PasskeysSpec

-----------------------------------------------------------------------------
(* Cleared accounts. As long as no write was lost, no record, nor a copy   *)
(* that is still current, has a handle of a registration that was begun    *)
(* before a clearing.                                                      *)

VoidedHandle(h) == \E r \in regs : r.handle = h /\ r.ch \in voided

Ceremonies ==
  /\ \A r, q \in regs : r.ch = q.ch => r = q
  /\ \A ch \in voided : \E r \in regs : r.ch = ch
  /\ \A m \in made : \E r \in regs : r.ch = m.ch /\ r.handle = m.handle

Live(s) == pending[s] # Idle /\ pending[s].stale = FALSE

NoneVoided ==
  ~lost => /\ \A o \in Owners : ~VoidedHandle(accounts[o].handle)
           /\ \A s \in Slots : Live(s) => ~VoidedHandle(pending[s].copy.handle)

ClearsHandle == \A s \in Slots : About(s, {"clear"}) => pending[s].copy.handle = NoHandle

ClearInv == HandlesInv /\ Ceremonies /\ NoneVoided /\ ClearsHandle

\* A challenge is new, so issuing it voids nothing and adds no second ceremony for one.
LEMMA IssueVoidsNothing ==
  ASSUME Ceremonies, NEW ch, NEW h, NEW o, IssueRegistration(ch, h, o), UNCHANGED <<made, voided>>
  PROVE  Ceremonies' /\ \A g : VoidedHandle(g)' => VoidedHandle(g)
<1>1. regs' = regs \cup {[ch |-> ch, handle |-> h, by |-> o]} /\ \A r \in regs : r.ch # ch
  BY DEF IssueRegistration, Fresh
<1>2. ch \notin voided
  BY <1>1 DEF Ceremonies
<1>3. Ceremonies'
  BY <1>1 DEF Ceremonies
<1>4. ASSUME NEW g, VoidedHandle(g)' PROVE VoidedHandle(g)
  BY <1>1, <1>2, <1>4 DEF VoidedHandle
<1> QED BY <1>3, <1>4

\* A handle that nobody has is in no ceremony.
LEMMA NewHandleNotVoided ==
  ASSUME HandlesInv, NEW h \in Handles \cup {NoHandle}, h = NoHandle \/ givenTo[h] = Nobody
  PROVE  ~VoidedHandle(h)
BY PasskeysAssumption
DEF VoidedHandle, HandlesInv, SoundCeremonies, Typed, PasskeysTypeOK, Registration

\* A handler's copy has its record's handle, or none, or a new one.
LEMMA DerivedNotVoided ==
  ASSUME ClearInv, NEW q \in Request, Derived(q), ~lost
  PROVE  ~VoidedHandle(q.copy.handle)
<1>1. \/ q.copy.handle = accounts[q.who].handle
      \/ q.copy.handle = NoHandle
      \/ q.copy.handle \in Handles /\ givenTo[q.copy.handle] = Nobody
  BY DEF Derived
<1>2. q.who \in Owners
  BY DEF Request
<1> QED BY <1>1, <1>2, NewHandleNotVoided DEF ClearInv, NoneVoided

\* The records and the live copies after a request has been added.
LEMMA NoneVoidedHeld ==
  ASSUME ClearInv, NEW s \in Slots, NEW q \in Request, Derived(q), Holds(s, q),
         UNCHANGED <<accounts, regs, voided, lost>>
  PROVE  NoneVoided' /\ ClearsHandle'
<1>1. \A h : VoidedHandle(h)' => VoidedHandle(h)
  BY DEF VoidedHandle
<1>2. \A t \in Slots : t # s => pending'[t] = pending[t]
  BY DEF Holds, ClearInv, HandlesInv, Typed, PasskeysTypeOK
<1>3. pending'[s] = q
  BY DEF Holds, ClearInv, HandlesInv, Typed, PasskeysTypeOK
<1>4. ~lost => ~VoidedHandle(q.copy.handle)
  BY DerivedNotVoided
<1>5. NoneVoided'
  BY <1>1, <1>2, <1>3, <1>4 DEF ClearInv, NoneVoided, Live
<1>6. ClearsHandle'
  BY <1>2, <1>3 DEF ClearInv, ClearsHandle, About, Derived
<1> QED BY <1>5, <1>6

\* When nothing is added to the slots and no handle becomes voided.
LEMMA NoneVoidedKept ==
  ASSUME ClearInv, UNCHANGED accounts, ~lost' => ~lost,
         \A h : VoidedHandle(h)' => VoidedHandle(h),
         \A t \in Slots : pending'[t] # Idle => pending'[t] = pending[t]
  PROVE  NoneVoided' /\ ClearsHandle'
BY DEF ClearInv, NoneVoided, Live, ClearsHandle, About

\* A write of a live copy voids neither its own handle nor those of the other accounts.
LEMMA NoneVoidedSaved ==
  ASSUME ClearInv, NEW s \in Slots, pending[s] # Idle, Save(s),
         \A h : h = pending[s].copy.handle /\ ~VoidedHandle(h) => ~VoidedHandle(h)',
         \A o \in Owners : \A h : o # pending[s].who /\ ~VoidedHandle(h)
                                   /\ (h = NoHandle \/ givenTo[h] = o) => ~VoidedHandle(h)'
  PROVE  NoneVoided' /\ ClearsHandle'
<1>1. ClearsHandle'
  BY SaveKeeps DEF ClearInv, HandlesInv, Typed, ClearsHandle, About
<1>2. ASSUME ~lost'
      PROVE  /\ \A o \in Owners : ~VoidedHandle(accounts[o].handle)'
             /\ \A t \in Slots : Live(t)' => ~VoidedHandle(pending[t].copy.handle)'
  <2>1. /\ pending[s] \in Request /\ pending[s].who \in Owners
        /\ ~lost /\ pending[s].stale = FALSE
    BY <1>2 DEF Save, ClearInv, HandlesInv, Typed, PasskeysTypeOK, Request
  <2>2. ASSUME NEW o \in Owners PROVE ~VoidedHandle(accounts[o].handle)'
    <3>1. CASE o = pending[s].who
      <4>1. ~VoidedHandle(pending[s].copy.handle)
        BY <2>1 DEF ClearInv, NoneVoided, Live
      <4> DEFINE h == pending[s].copy.handle
      <4>2. accounts'[o].handle = h
        BY <3>1 DEF Save, ClearInv, HandlesInv, Typed, PasskeysTypeOK
      <4>3. \A g : g = h => ~VoidedHandle(g)'
        BY <4>1
      <4> QED BY <4>2, <4>3 DEF VoidedHandle
    <3>2. CASE o # pending[s].who
      <4> DEFINE h == accounts[o].handle
      <4>1. ~VoidedHandle(h) /\ (h = NoHandle \/ givenTo[h] = o)
        BY <2>1 DEF ClearInv, NoneVoided, HandlesInv, SoundRecords, Sound
      <4>2. accounts'[o].handle = h
        BY <3>2 DEF Save, ClearInv, HandlesInv, Typed, PasskeysTypeOK
      <4>3. \A g : g = h => ~VoidedHandle(g)'
        BY <3>2, <4>1
      <4> QED BY <4>2, <4>3 DEF VoidedHandle
    <3> QED BY <3>1, <3>2
  <2>3. ASSUME NEW t \in Slots, Live(t)' PROVE ~VoidedHandle(pending[t].copy.handle)'
    <3> DEFINE h == pending[t].copy.handle
    <3>1. pending[t].who # pending[s].who /\ pending'[t] = pending[t] /\ pending[t] # Idle
      BY <2>3, SaveKeeps DEF Live, ClearInv, HandlesInv, Typed
    <3>2. Live(t) /\ pending[t].who \in Owners
      BY <2>3, <3>1 DEF Live, ClearInv, HandlesInv, Typed, PasskeysTypeOK, Request
    <3>3. ~VoidedHandle(h) /\ (h = NoHandle \/ givenTo[h] = pending[t].who)
      BY <2>1, <3>2 DEF Live, ClearInv, NoneVoided, HandlesInv, SoundCopies, Sound
    <3>4. \A g : g = h => ~VoidedHandle(g)'
      BY <3>1, <3>2, <3>3
    <3> QED BY <3>1, <3>4 DEF VoidedHandle
  <2> QED BY <2>2, <2>3 DEF VoidedHandle
<1>3. NoneVoided'
  BY <1>2 DEF NoneVoided
<1> QED BY <1>1, <1>3

\* A write that voids nothing.
LEMMA NoneVoidedWritten ==
  ASSUME ClearInv, NEW s \in Slots, pending[s] # Idle, Save(s),
         \A h : VoidedHandle(h)' => VoidedHandle(h)
  PROVE  NoneVoided' /\ ClearsHandle'
<1>1. \A h : h = pending[s].copy.handle /\ ~VoidedHandle(h) => ~VoidedHandle(h)'
  OBVIOUS
<1>2. \A o \in Owners : \A h : o # pending[s].who /\ ~VoidedHandle(h)
                                /\ (h = NoHandle \/ givenTo[h] = o) => ~VoidedHandle(h)'
  OBVIOUS
<1> QED BY <1>1, <1>2, NoneVoidedSaved

\* Nothing is voided at the start.
LEMMA ClearInit == PasskeysInit => ClearInv
<1> QED BY HandlesInit DEF PasskeysInit, ClearInv, Ceremonies, NoneVoided, VoidedHandle, Live,
  ClearsHandle, About

\* Every step keeps it: a clearing voids only handles that no record, and no live copy, has.
LEMMA ClearNext == ClearInv /\ [PasskeysNext]_passkeyVars => ClearInv'
<1> SUFFICES ASSUME ClearInv, [PasskeysNext]_passkeyVars PROVE ClearInv'
  OBVIOUS
<1> USE DEF record, browser, signedIn
<1>0. HandlesInv' /\ HandlesInv /\ PasskeysTypeOK
  BY HandlesNext DEF ClearInv, HandlesInv, Typed
<1>a. UNCHANGED <<regs, made, voided>> => Ceremonies' /\ \A h : VoidedHandle(h)' => VoidedHandle(h)
  BY DEF ClearInv, Ceremonies, VoidedHandle
<1>1. ASSUME NEW s \in Slots, NEW o \in Owners, RegisterBegin(s, o) PROVE ClearInv'
  <2>1. UNCHANGED <<accounts, lost, made, voided>>
    BY <1>0, <1>1, BeginReadsRecord
  <2>2. CASE Issues(o)
    <3>1. Ceremonies' /\ \A h : VoidedHandle(h)' => VoidedHandle(h)
      BY <2>1, <2>2, IssueVoidsNothing DEF ClearInv, Issues
    <3> QED BY <1>0, <2>1, <2>2, <3>1, NoneVoidedKept DEF ClearInv, Issues
  <2>3. CASE Draws(s, o)
    <3>1. PICK q \in Request : Derived(q) /\ Holds(s, q) /\ UNCHANGED regs
      BY <2>3 DEF Draws
    <3> QED BY <1>0, <1>a, <2>1, <3>1, NoneVoidedHeld DEF ClearInv
  <2> QED BY <1>0, <1>1, <2>2, <2>3, BeginReadsRecord
<1>2. ASSUME NEW s \in Slots, NEW o \in Owners, ReadStep(s, o) PROVE ClearInv'
  <2>1. UNCHANGED <<accounts, lost, regs, made, voided>>
    BY <1>0, <1>2, ReadsRecord
  <2>2. PICK q \in Request : Derived(q) /\ Holds(s, q)
    BY <1>0, <1>2, ReadsRecord
  <2> QED BY <1>0, <1>a, <2>1, <2>2, NoneVoidedHeld DEF ClearInv
<1>3. ASSUME NEW s \in Slots, WriteHandle(s) PROVE ClearInv'
  <2>1. pending[s] # Idle /\ Save(s) /\ UNCHANGED <<made, voided>>
    BY <1>3 DEF WriteHandle, About
  <2>2. Ceremonies' /\ \A h : VoidedHandle(h)' => VoidedHandle(h)
    BY <1>3, <2>1, IssueVoidsNothing DEF ClearInv, WriteHandle
  <2> QED BY <1>0, <2>1, <2>2, NoneVoidedWritten DEF ClearInv
<1>4. ASSUME NEW s \in Slots, WriteRecord(s) PROVE ClearInv'
  <2> DEFINE o == pending[s].who
  <2>1. pending[s] # Idle /\ Save(s) /\ UNCHANGED <<regs, made>>
    BY <1>4 DEF WriteRecord, About
  <2>2. CASE pending[s].op # "clear"
    <3>1. UNCHANGED voided
      BY <1>4, <2>2 DEF WriteRecord
    <3> QED BY <1>0, <1>a, <2>1, <3>1, NoneVoidedWritten DEF ClearInv
  <2>3. CASE pending[s].op = "clear"
    <3>1. voided' = voided \cup {r.ch : r \in {q \in regs : q.by = o}}
      BY <1>4, <2>3 DEF WriteRecord
    <3>2. Ceremonies'
      BY <2>1, <3>1 DEF ClearInv, Ceremonies
    <3>3. ~VoidedHandle(NoHandle)'
      BY <1>0, <2>1, PasskeysAssumption DEF VoidedHandle, PasskeysTypeOK, Registration
    <3>4. pending[s].copy.handle = NoHandle
      BY <2>1, <2>3 DEF ClearInv, ClearsHandle, About
    <3>5. ASSUME NEW p \in Owners, NEW h, p # o, ~VoidedHandle(h), h = NoHandle \/ givenTo[h] = p
          PROVE  ~VoidedHandle(h)'
      <4>1. SUFFICES ASSUME NEW r \in regs, r.handle = h, r.ch \in voided' PROVE FALSE
        BY <2>1 DEF VoidedHandle
      <4>2. r.ch \notin voided
        BY <3>5, <4>1 DEF VoidedHandle
      <4>3. r.by = o
        BY <3>1, <4>1, <4>2 DEF ClearInv, Ceremonies
      <4>4. r.handle \in Handles /\ givenTo[r.handle] = r.by
        BY <1>0 DEF PasskeysTypeOK, Registration, HandlesInv, SoundCeremonies
      <4> QED BY <3>5, <4>1, <4>3, <4>4, PasskeysAssumption
    <3>6. \A h : h = pending[s].copy.handle /\ ~VoidedHandle(h) => ~VoidedHandle(h)'
      BY <3>3, <3>4 DEF VoidedHandle
    <3>7. \A p \in Owners : \A h : p # pending[s].who /\ ~VoidedHandle(h)
                                    /\ (h = NoHandle \/ givenTo[h] = p) => ~VoidedHandle(h)'
      BY <3>5
    <3>8. NoneVoided' /\ ClearsHandle'
      BY <2>1, <3>6, <3>7, NoneVoidedSaved
    <3> QED BY <1>0, <3>2, <3>8 DEF ClearInv
  <2> QED BY <2>2, <2>3
<1>5. ASSUME NEW s \in Slots, WriteUse(s) PROVE ClearInv'
  <2>1. pending[s] # Idle /\ Save(s) /\ UNCHANGED <<regs, made, voided>>
    BY <1>5 DEF WriteUse, About
  <2> QED BY <1>0, <1>a, <2>1, NoneVoidedWritten DEF ClearInv
<1>6. ASSUME NEW s \in Slots, WriteError(s) PROVE ClearInv'
  <2>1. /\ UNCHANGED <<accounts, regs, made, voided>> /\ (~lost' => ~lost)
        /\ pending' = [pending EXCEPT ![s] = Idle]
    BY <1>6 DEF WriteError
  <2>2. \A t \in Slots : pending'[t] # Idle => pending'[t] = pending[t]
    BY <1>0, <2>1 DEF PasskeysTypeOK
  <2> QED BY <1>0, <1>a, <2>1, <2>2, NoneVoidedKept DEF ClearInv
<1>7. ASSUME NEW ch \in Challenges, PasskeyLoginBegin(ch) PROVE ClearInv'
  BY <1>0, <1>7, <1>a, NoneVoidedKept DEF PasskeyLoginBegin, ClearInv
<1>8. ASSUME NEW ch \in Challenges, NEW m \in made, Sign(m, ch) PROVE ClearInv'
  BY <1>0, <1>8, <1>a, NoneVoidedKept DEF Sign, ClearInv
<1>9. ASSUME NEW k \in Keys, NEW r \in regs, MakeKey(k, r) PROVE ClearInv'
  <2>1. UNCHANGED <<accounts, pending, lost, regs, voided>>
    BY <1>9 DEF MakeKey
  <2>2. Ceremonies' /\ \A h : VoidedHandle(h)' => VoidedHandle(h)
    BY <1>9 DEF MakeKey, ClearInv, Ceremonies, VoidedHandle
  <2> QED BY <1>0, <2>1, <2>2, NoneVoidedKept DEF ClearInv
<1>10. CASE UNCHANGED passkeyVars
  BY <1>0, <1>10, <1>a, NoneVoidedKept DEF passkeyVars, ClearInv
<1> QED BY <1>1, <1>2, <1>3, <1>4, <1>5, <1>6, <1>7, <1>8, <1>9, <1>10 DEF PasskeysNext, ReadStep

\* Clearing an account's passkeys ends the registrations under way: unless a write was lost,
\* no key of a ceremony begun before it is in any record (Handler.Update, RegisterFinish).
THEOREM ClearEndsRegistrationsHolds == PasskeysSpec => []ClearEndsRegistrations
<1>1. ClearInv => ClearEndsRegistrations
  <2> SUFFICES ASSUME ClearInv, ~lost, NEW o \in Owners, NEW m \in made,
                      m.key \in accounts[o].keys
               PROVE  m.ch \notin voided
    BY DEF ClearEndsRegistrations
  <2>1. m.handle = accounts[o].handle
    BY DEF ClearInv, HandlesInv, SoundRecords, Sound, SoundCeremonies
  <2>2. PICK r \in regs : r.ch = m.ch /\ r.handle = m.handle
    BY DEF ClearInv, Ceremonies
  <2> QED BY <2>1, <2>2 DEF ClearInv, NoneVoided, VoidedHandle
<1> QED BY <1>1, ClearInit, ClearNext, PTL DEF PasskeysSpec

-----------------------------------------------------------------------------
(* Sign counts. As long as no write was lost, the record that has a key    *)
(* has counted every sign-in with it, and a live copy does not go back on  *)
(* that.                                                                   *)

\* A copy keeps its record's counts, and a sign-in advances that of its key.
Ahead(q) ==
  LET rec == accounts[q.who] IN
  /\ \A k \in q.copy.keys \cap rec.keys : q.copy.count[k] >= rec.count[k]
  /\ q.op \in {"begin", "login"} => q.copy.keys = rec.keys
  /\ q.op = "login" => /\ q.copy.count[q.by.key] = q.by.count
                       /\ q.by.key \in Counting => q.by.count > rec.count[q.by.key]

Counted(a) ==
  \E o \in Owners : a.key \in accounts[o].keys /\ accounts[o].count[a.key] >= a.count

CountsAdvance ==
  /\ \A a \in asserted : a.key \in Counting => a.count > 0
  /\ ~lost => /\ \A s \in Slots : Live(s) => Ahead(pending[s])
              /\ \A a \in accepted : a.key \in Counting => Counted(a)
              /\ AssertionOnce

CountInv == HandlesInv /\ CountsAdvance

\* A key is in one record.
LEMMA OneRecord ==
  ASSUME HandlesInv, NEW o \in Owners, NEW p \in Owners,
         NEW k \in accounts[o].keys, k \in accounts[p].keys
  PROVE  o = p
<1>1. /\ \E m \in made : m.key = k /\ m.handle = accounts[o].handle
      /\ \E n \in made : n.key = k /\ n.handle = accounts[p].handle
  BY DEF HandlesInv, SoundRecords, Sound
<1>2. accounts[o].handle = accounts[p].handle /\ accounts[o].handle # NoHandle
  BY <1>1, PasskeysAssumption
  DEF HandlesInv, SoundCeremonies, Typed, PasskeysTypeOK, Credential
<1> QED BY <1>2 DEF HandlesInv, SoundRecords, Sound

\* What a handler has just read is no further than what it will write.
LEMMA DerivedAhead ==
  ASSUME HandlesInv, CountsAdvance, NEW q \in Request, Derived(q)
  PROVE  Ahead(q)
<1> DEFINE rec == accounts[q.who]
<1>1. rec \in Account /\ q.who \in Owners /\ \A k \in Keys : rec.count[k] \in 0..MaxCount
  BY DEF HandlesInv, Typed, PasskeysTypeOK, Request, Account
<1>2. rec.keys \subseteq Keys
  BY <1>1 DEF Account
<1>3. CASE q.op = "begin"
  BY <1>1, <1>2, <1>3, PasskeysAssumption DEF Derived, Ahead
<1>4. CASE q.op = "clear"
  BY <1>4 DEF Derived, Ahead
<1>5. CASE q.op \in {"finish", "delete", "update"}
  BY <1>1, <1>2, <1>5, PasskeysAssumption DEF Derived, Ahead
<1>6. CASE q.op = "login"
  <2> DEFINE a == q.by
  <2>1. /\ q.copy.keys = rec.keys /\ a \in asserted /\ a.key \in rec.keys
        /\ ~CloneWarning(rec.count[a.key], a.count)
        /\ q.copy.count = [rec.count EXCEPT ![a.key] = a.count]
    BY <1>6 DEF Derived
  <2>2. a.key \in Keys /\ a.count \in 0..MaxCount /\ rec.count[a.key] \in 0..MaxCount
    BY <1>1, <2>1 DEF HandlesInv, Typed, PasskeysTypeOK, Assertion
  <2>3. a.count > rec.count[a.key] \/ (a.count = 0 /\ rec.count[a.key] = 0)
    BY <2>1, <2>2, PasskeysAssumption DEF CloneWarning
  <2>4. a.key \in Counting => a.count > rec.count[a.key]
    BY <2>1, <2>2, <2>3, PasskeysAssumption DEF CountsAdvance
  <2>5. q.copy.count[a.key] = a.count /\ \A k \in Keys \ {a.key} : q.copy.count[k] = rec.count[k]
    BY <1>1, <2>1, <2>2 DEF Account
  <2>6. \A k \in rec.keys : q.copy.count[k] >= rec.count[k]
    BY <1>1, <1>2, <2>2, <2>3, <2>5, PasskeysAssumption
  <2> QED BY <1>6, <2>1, <2>4, <2>5, <2>6 DEF Ahead
<1> QED BY <1>3, <1>4, <1>5, <1>6 DEF Derived

\* The counts after a request has been added.
LEMMA CountsHeld ==
  ASSUME CountInv, NEW s \in Slots, NEW q \in Request, Derived(q), Holds(s, q),
         UNCHANGED <<accounts, asserted, accepted, again, lost>>
  PROVE  CountsAdvance'
<1>1. \A t \in Slots : t # s => pending'[t] = pending[t]
  BY DEF Holds, CountInv, HandlesInv, Typed, PasskeysTypeOK
<1>2. pending'[s] = q
  BY DEF Holds, CountInv, HandlesInv, Typed, PasskeysTypeOK
<1>3. Ahead(q)
  BY DerivedAhead DEF CountInv
<1>4. ASSUME ~lost, NEW t \in Slots, Live(t)' PROVE Ahead(pending[t])'
  BY <1>1, <1>2, <1>3, <1>4 DEF CountInv, CountsAdvance, Live, Ahead
<1> QED BY <1>4 DEF CountInv, CountsAdvance, Counted, AssertionOnce

\* When nothing is added to the slots and no record is written.
LEMMA CountsKept ==
  ASSUME CountInv, UNCHANGED <<accounts, accepted, again, lost>>,
         \A a \in asserted' : a \in asserted \/ (a.key \in Counting => a.count > 0),
         \A t \in Slots : pending'[t] # Idle => pending'[t] = pending[t]
  PROVE  CountsAdvance'
<1>1. ASSUME ~lost, NEW t \in Slots, Live(t)' PROVE Ahead(pending[t])'
  BY <1>1 DEF CountInv, CountsAdvance, Live, Ahead
<1> QED BY <1>1 DEF CountInv, CountsAdvance, Counted, AssertionOnce

\* A write of a live copy: it counts what the record had counted of the keys it keeps.
LEMMA CountsSaved ==
  ASSUME CountInv, NEW s \in Slots, pending[s] # Idle, Save(s), ~lost'
  PROVE  /\ Live(s) /\ ~lost /\ Ahead(pending[s])
         /\ \A t \in Slots : Live(t)' => Ahead(pending[t])'
         /\ \A a \in accepted : a.key \in Counting /\ a.key \notin Dropped(s) => Counted(a)'
<1> DEFINE q == pending[s]
<1>1. /\ q \in Request /\ q.who \in Owners /\ Live(s) /\ ~lost /\ q.copy \in Account
  BY DEF Save, Live, CountInv, HandlesInv, Typed, PasskeysTypeOK, Request
<1>2. Ahead(q)
  BY <1>1 DEF CountInv, CountsAdvance
<1>3. accounts'[q.who] = q.copy /\ \A o \in Owners : o # q.who => accounts'[o] = accounts[o]
  BY <1>1 DEF Save, CountInv, HandlesInv, Typed, PasskeysTypeOK
<1>4. ASSUME NEW t \in Slots, Live(t)' PROVE Ahead(pending[t])'
  <2>1. pending[t].who # q.who /\ pending'[t] = pending[t] /\ Live(t)
    BY <1>4, SaveKeeps DEF Live, CountInv, HandlesInv, Typed
  <2>2. pending[t].who \in Owners /\ Ahead(pending[t])
    BY <1>1, <2>1 DEF Live, CountInv, CountsAdvance, HandlesInv, Typed, PasskeysTypeOK, Request
  <2> QED BY <1>3, <2>1, <2>2 DEF Ahead
<1>5. ASSUME NEW a \in accepted, a.key \in Counting, a.key \notin Dropped(s) PROVE Counted(a)'
  <2>1. PICK o \in Owners : a.key \in accounts[o].keys /\ accounts[o].count[a.key] >= a.count
    BY <1>1, <1>5 DEF CountInv, CountsAdvance, Counted
  <2>2. CASE o # q.who
    BY <1>3, <2>1, <2>2 DEF Counted
  <2>3. CASE o = q.who
    <3>1. a.key \in q.copy.keys
      BY <1>5, <2>1, <2>3 DEF Dropped
    <3>2. q.copy.count[a.key] >= accounts[o].count[a.key]
      BY <1>2, <2>1, <2>3, <3>1 DEF Ahead
    <3>3. /\ a.key \in Keys /\ a.count \in Nat /\ accounts[o].count[a.key] \in Nat
          /\ q.copy.count[a.key] \in Nat
      BY <1>1, PasskeysAssumption
      DEF CountInv, HandlesInv, Typed, PasskeysTypeOK, Assertion, Account
    <3>4. q.copy.count[a.key] >= a.count
      BY <2>1, <3>2, <3>3
    <3> QED BY <1>1, <1>3, <3>1, <3>4 DEF Counted
  <2> QED BY <2>2, <2>3
<1> QED BY <1>1, <1>2, <1>4, <1>5

\* A counting key's sign-in that saves its use is new, and is counted from then on.
LEMMA SignInCounted ==
  ASSUME CountInv, NEW s \in Slots, About(s, {"login"}), Save(s), SignedInBy(s), ~lost',
         UNCHANGED asserted
  PROVE  CountsAdvance'
<1> DEFINE q == pending[s]
           a == q.by
<1>1. /\ Live(s) /\ ~lost /\ Ahead(q)
      /\ \A t \in Slots : Live(t)' => Ahead(pending[t])'
      /\ \A b \in accepted : b.key \in Counting /\ b.key \notin Dropped(s) => Counted(b)'
  BY CountsSaved DEF About
<1>2. /\ q.op = "login" /\ q.who \in Owners /\ q.copy \in Account
      /\ a \in Assertion /\ a.key \in q.copy.keys
  BY LoginType DEF CountInv, HandlesInv, Typed, PasskeysTypeOK, Request, LoginsHaveKey, About
<1>3. a.key \in accounts[q.who].keys /\ Dropped(s) = {}
  BY <1>1, <1>2 DEF Ahead, Dropped
<1>4. a.key \in Keys /\ a.count \in Nat /\ accounts[q.who].count[a.key] \in Nat
  BY <1>2, PasskeysAssumption DEF CountInv, HandlesInv, Typed, PasskeysTypeOK, Assertion, Account
<1>5. a.key \in Counting => a \notin accepted
  <2> SUFFICES ASSUME a.key \in Counting, a \in accepted PROVE FALSE
    OBVIOUS
  <2>1. PICK o \in Owners : a.key \in accounts[o].keys /\ accounts[o].count[a.key] >= a.count
    BY <1>1 DEF CountInv, CountsAdvance, Counted
  <2>2. o = q.who
    BY <1>2, <1>3, <2>1, OneRecord DEF CountInv
  <2>3. a.count > accounts[q.who].count[a.key]
    BY <1>1, <1>2 DEF Ahead
  <2> QED BY <1>4, <2>1, <2>2, <2>3
<1>6. \A b : b = a => Counted(b)'
  <2>1. accounts'[q.who] = q.copy
    BY <1>2 DEF Save, CountInv, HandlesInv, Typed, PasskeysTypeOK
  <2>2. q.copy.count[a.key] = a.count
    BY <1>1, <1>2 DEF Ahead
  <2>3. accounts'[q.who].count[a.key] >= a.count /\ a.key \in accounts'[q.who].keys
    BY <1>2, <1>4, <2>1, <2>2
  <2> QED BY <1>2, <2>3 DEF Counted
<1>7. accepted' = accepted \cup {a} /\ again' = again \cup ({a} \cap accepted)
  BY DEF SignedInBy
<1>8. \A b \in accepted' : b.key \in Counting => Counted(b)'
  BY <1>1, <1>3, <1>6, <1>7 DEF Counted
<1>9. AssertionOnce'
  BY <1>1, <1>5, <1>7 DEF AssertionOnce, CountInv, CountsAdvance
<1> QED BY <1>1, <1>8, <1>9 DEF CountInv, CountsAdvance

\* Nothing is signed at the start.
LEMMA CountInit == PasskeysInit => CountInv
<1> QED BY HandlesInit DEF PasskeysInit, CountInv, CountsAdvance, Live, AssertionOnce

\* Every step keeps the counts, or loses a write.
LEMMA CountNext == CountInv /\ [PasskeysNext]_passkeyVars => CountInv'
<1> SUFFICES ASSUME CountInv, [PasskeysNext]_passkeyVars PROVE CountInv'
  OBVIOUS
<1> USE DEF record, browser, signedIn
<1>0. HandlesInv' /\ HandlesInv /\ PasskeysTypeOK
  BY HandlesNext DEF CountInv, HandlesInv, Typed
<1>1. ASSUME NEW s \in Slots, NEW o \in Owners, RegisterBegin(s, o) PROVE CountInv'
  <2>1. UNCHANGED <<accounts, lost, asserted, accepted, again>>
    BY <1>0, <1>1, BeginReadsRecord
  <2>2. CASE Issues(o)
    BY <1>0, <2>1, <2>2, CountsKept DEF CountInv, Issues
  <2>3. CASE Draws(s, o)
    BY <1>0, <2>1, <2>3, CountsHeld DEF CountInv, Draws
  <2> QED BY <1>0, <1>1, <2>2, <2>3, BeginReadsRecord
<1>2. ASSUME NEW s \in Slots, NEW o \in Owners, ReadStep(s, o) PROVE CountInv'
  <2>1. UNCHANGED <<accounts, lost, asserted, accepted, again>>
    BY <1>0, <1>2, ReadsRecord
  <2>2. PICK q \in Request : Derived(q) /\ Holds(s, q)
    BY <1>0, <1>2, ReadsRecord
  <2> QED BY <1>0, <2>1, <2>2, CountsHeld DEF CountInv
\* Writes: nothing is said of the counts once a write was lost.
<1>a. ASSUME lost', UNCHANGED asserted PROVE CountsAdvance'
  BY <1>a DEF CountInv, CountsAdvance
<1>3. ASSUME NEW s \in Slots, WriteHandle(s) PROVE CountInv'
  <2>1. pending[s] # Idle /\ Save(s) /\ UNCHANGED <<asserted, accepted, again>>
    BY <1>3 DEF WriteHandle, About
  <2>2. ASSUME ~lost' PROVE CountsAdvance'
    <3>1. Dropped(s) = {}
      BY <1>3, <2>1, <2>2, CountsSaved DEF WriteHandle, About, Ahead, Dropped
    <3> QED BY <2>1, <2>2, <3>1, CountsSaved DEF CountInv, CountsAdvance, AssertionOnce
  <2> QED BY <1>0, <1>a, <2>1, <2>2 DEF CountInv
<1>4. ASSUME NEW s \in Slots, WriteRecord(s) PROVE CountInv'
  <2>1. /\ pending[s] # Idle /\ Save(s) /\ UNCHANGED <<asserted, again>>
        /\ accepted' = {a \in accepted : a.key \notin Dropped(s)}
    BY <1>4 DEF WriteRecord, About
  <2>2. ASSUME ~lost' PROVE CountsAdvance'
    BY <2>1, <2>2, CountsSaved DEF CountInv, CountsAdvance, AssertionOnce
  <2> QED BY <1>0, <1>a, <2>1, <2>2 DEF CountInv
<1>5. ASSUME NEW s \in Slots, WriteUse(s) PROVE CountInv'
  <2>1. About(s, {"login"}) /\ Save(s) /\ SignedInBy(s) /\ UNCHANGED asserted
    BY <1>5 DEF WriteUse
  <2> QED BY <1>0, <1>a, <2>1, SignInCounted DEF CountInv
<1>6. ASSUME NEW s \in Slots, WriteError(s) PROVE CountInv'
  <2>1. /\ UNCHANGED <<accounts, asserted>>
        /\ pending' = [pending EXCEPT ![s] = Idle]
    BY <1>6 DEF WriteError
  <2>2. CASE pending[s].op = "login"
    BY <1>0, <1>6, <1>a, <2>1, <2>2 DEF WriteError, CountInv
  <2>3. CASE pending[s].op # "login"
    <3>1. \A t \in Slots : pending'[t] # Idle => pending'[t] = pending[t]
      BY <1>0, <2>1 DEF PasskeysTypeOK
    <3>2. CountsAdvance'
      BY <1>6, <2>1, <2>3, <3>1, CountsKept DEF WriteError
    <3> QED BY <1>0, <3>2 DEF CountInv
  <2> QED BY <2>2, <2>3
<1>7. ASSUME NEW ch \in Challenges, PasskeyLoginBegin(ch) PROVE CountInv'
  BY <1>0, <1>7, CountsKept DEF PasskeyLoginBegin, CountInv
<1>8. ASSUME NEW ch \in Challenges, NEW m \in made, Sign(m, ch) PROVE CountInv'
  <2> DEFINE n == IF m.key \in Counting THEN counter[m.key] + 1 ELSE 0
  <2>1. m.key \in Keys /\ (m.key \in Counting => n > 0)
    BY <1>0, PasskeysAssumption DEF PasskeysTypeOK, Credential
  <2>2. /\ asserted' = asserted \cup {[key |-> m.key, ch |-> ch, count |-> n]}
        /\ UNCHANGED <<accounts, pending, accepted, again, lost>>
    BY <1>8 DEF Sign
  <2>3. \A a \in asserted' : a \in asserted \/ (a.key \in Counting => a.count > 0)
    <3> HIDE DEF n
    <3> QED BY <2>1, <2>2
  <2>4. CountsAdvance'
    BY <2>2, <2>3, CountsKept
  <2> QED BY <1>0, <2>4 DEF CountInv
<1>9. ASSUME NEW k \in Keys, NEW r \in regs, MakeKey(k, r) PROVE CountInv'
  BY <1>0, <1>9, CountsKept DEF MakeKey, CountInv
<1>10. CASE UNCHANGED passkeyVars
  BY <1>0, <1>10, CountsKept DEF passkeyVars, CountInv
<1> QED BY <1>1, <1>2, <1>3, <1>4, <1>5, <1>6, <1>7, <1>8, <1>9, <1>10 DEF PasskeysNext, ReadStep

\* An assertion of a counting authenticator signs in once, unless a write was lost or the
\* key was taken off in between (CloneWarning and persistPasskeyUse).
THEOREM AssertionOnceHolds == PasskeysSpec => []AssertionOnce
<1>1. CountInv => AssertionOnce
  BY DEF CountInv, CountsAdvance, AssertionOnce
<1> QED BY <1>1, CountInit, CountNext, PTL DEF PasskeysSpec

=============================================================================
