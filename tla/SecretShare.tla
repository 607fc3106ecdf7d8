----------------------------- MODULE SecretShare -----------------------------
(***************************************************************************)
(* The life of a shared secret, at the granularity of bbolt transactions.  *)
(*                                                                         *)
(* Three buckets hold what the server knows of a secret: secrets (the      *)
(* ciphertext and its expiry), views (the remaining budget of a multi-view *)
(* secret, with a copy of the ciphertext) and visibility (the ids that     *)
(* need a session). No transaction spans two buckets. The HTTP handlers    *)
(* and three background sweepers each run a sequence of transactions, and  *)
(* those sequences interleave in every way; one action here is one         *)
(* transaction together with the in-memory work up to the next one.        *)
(*                                                                         *)
(* A crash loses every request in flight and the sweepers' lists, never a  *)
(* committed transaction. A store error makes one transaction have no      *)
(* effect and takes the error path of the code around it.                  *)
(***************************************************************************)
EXTENDS Integers

CONSTANTS
  Ids,         \* identifiers a client can put in a URL
  Mistyped,    \* one of them, which NewID never returned
  Clients,     \* request slots; each runs one HTTP request at a time
  AuthEnabled, \* config auth.enabled
  GateAll,     \* config auth.gate = "all"
  MaxViews,    \* config secrets.max_views
  MaxTTL,      \* config secrets.max_ttl, in clock ticks
  Horizon,     \* bound: the clock stops here, and every secret expires before
  MaxCrashes,  \* bound: crashes of the server
  MaxErrors    \* bound: store transactions that fail

ASSUME ConfigAssumption ==
  /\ Mistyped \in Ids
  /\ AuthEnabled \in BOOLEAN
  /\ GateAll \in BOOLEAN
  /\ MaxViews \in Int
  /\ MaxTTL \in Nat
  /\ Horizon \in Nat
  /\ MaxCrashes \in Nat
  /\ MaxErrors \in Nat

VARIABLES
  now,        \* the wall clock
  minted,     \* what the create request that minted an id asked for
  secrets,    \* bucket: ids whose ciphertext is stored
  views,      \* bucket: remaining views, 0 for an id without a record
  visibility, \* bucket: ids marked private
  req,        \* the request each slot is running
  visSweep,   \* the visibility sweeper: ids listed, and the id to delete
  viewSweep,  \* the views sweeper: the same
  crashes, errors,  \* used up parts of MaxCrashes and MaxErrors
  handedOut,  \* history: ids whose 201 response was sent
  guarded,    \* history: ids whose SetPrivate committed
  released    \* history: number of reveals given the ciphertext, per id

buckets == <<secrets, views, visibility>>
sweepers == <<visSweep, viewSweep>>
bounds  == <<now, crashes, errors>>
history == <<handedOut, guarded, released>>
vars == <<now, minted, secrets, views, visibility, req, visSweep, viewSweep,
          crashes, errors, handedOut, guarded, released>>

\* maxViews: the operator ceiling, at least 1 (1 disables multi-view).
Ceiling == IF MaxViews > 1 THEN MaxViews ELSE 1

\* resolveTTL: the lifetimes it can return; it refuses any other request
\* before anything is stored (the configured default is one of these).
Lifetimes == 1..MaxTTL

\* The request body and the clock fix these fields for good. An id that was
\* never minted has views = 0.
Shares   == [views : 0..Ceiling, private : BOOLEAN, expires : 0..Horizon]
Unminted == [views |-> 0, private |-> FALSE, expires |-> 0]

\* IsExpired: strictly after the expiry instant.
Expired(id) == now > minted[id].expires

\* Who asks for a link: its holders, or someone who got it wrong.
Links    == handedOut \cup {Mistyped}
Sessions == IF AuthEnabled THEN BOOLEAN ELSE {FALSE}

CreateSteps == {"views", "visibility", "reply"}
MetaSteps   == {"lookup", "metaReap", "annotate"}
RevealSteps == {"consume", "peek", "reap", "burn", "drop"}
Steps       == {"idle"} \cup CreateSteps \cup MetaSteps \cup RevealSteps

\* late: the request reached the server after the secret had expired.
\* exists: what a meta response is going to say.
Requests == [at : Steps, id : Ids, session : BOOLEAN, late : BOOLEAN, exists : BOOLEAN]
Request(at, id, session, late) ==
  [at |-> at, id |-> id, session |-> session, late |-> late, exists |-> FALSE]
Idle == Request("idle", Mistyped, FALSE, FALSE)

\* todo: ids listed and not yet looked up; gone: the id found to be an orphan.
Sweeps  == [todo : SUBSET Ids, gone : SUBSET Ids]
Resting == [todo |-> {}, gone |-> {}]

Init ==
  /\ now = 0 /\ crashes = 0 /\ errors = 0
  /\ minted = [id \in Ids |-> Unminted]
  /\ secrets = {} /\ visibility = {}
  /\ views = [id \in Ids |-> 0]
  /\ req = [c \in Clients |-> Idle]
  /\ visSweep = Resting /\ viewSweep = Resting
  /\ handedOut = {} /\ guarded = {}
  /\ released = [id \in Ids |-> 0]

GoTo(c, step) == req' = [req EXCEPT ![c].at = step]
Finish(c)     == req' = [req EXCEPT ![c] = Idle]

-----------------------------------------------------------------------------
(* POST /api/secrets: captureVisibility(captureViews(Create)). The caller   *)
(* has passed authGate; the id is known to nobody until the response.       *)

\* Handler.Create up to and including Store.Create. NewID draws 144 random
\* bits: an id is minted once.
Create(c, id, n, private, ttl) ==
  /\ req[c] = Idle
  /\ id # Mistyped /\ minted[id] = Unminted /\ id \notin secrets
  /\ now + ttl < Horizon
  /\ minted' = [minted EXCEPT ![id] =
                  [views |-> n, private |-> private, expires |-> now + ttl]]
  /\ secrets' = secrets \cup {id}
  /\ req' = [req EXCEPT ![c] = Request("views", id, FALSE, FALSE)]
  /\ UNCHANGED <<views, visibility, sweepers, bounds, history>>

\* Wrong variant of RecordViews: one view too many is recorded.
RecordViewsOffByOne(c) ==
  LET id == req[c].id IN
  /\ req[c].at = "views"
  /\ views' = IF minted[id].views > 1
                THEN [views EXCEPT ![id] = minted[id].views + 1] ELSE views
  /\ GoTo(c, "visibility")
  /\ UNCHANGED <<minted, secrets, visibility, sweepers, bounds, history>>

\* Wrong variant of RecordViews: the middleware answers a one-view create itself.
RecordViewsReplies(c) ==
  LET id == req[c].id IN
  /\ req[c].at = "views"
  /\ views' = IF minted[id].views > 1
                THEN [views EXCEPT ![id] = minted[id].views] ELSE views
  /\ GoTo(c, IF minted[id].views > 1 THEN "visibility" ELSE "reply")
  /\ UNCHANGED <<minted, secrets, visibility, sweepers, bounds, history>>

\* captureViews after c.Next: the budget of a multi-view secret.
RecordViews(c) ==
  LET id == req[c].id IN
  /\ req[c].at = "views"
  /\ views' = IF minted[id].views > 1
                THEN [views EXCEPT ![id] = minted[id].views] ELSE views
  /\ GoTo(c, "visibility")
  /\ UNCHANGED <<minted, secrets, visibility, sweepers, bounds, history>>

\* captureVisibility after c.Next: a no-op for a public secret and without auth.
RecordVisibility(c) ==
  LET id == req[c].id
      marked == IF AuthEnabled /\ minted[id].private THEN {id} ELSE {} IN
  /\ req[c].at = "visibility"
  /\ visibility' = visibility \cup marked
  /\ guarded' = guarded \cup marked
  /\ GoTo(c, "reply")
  /\ UNCHANGED <<minted, secrets, views, sweepers, bounds, handedOut, released>>

\* The 201 response is flushed, and the creator has the link.
Reply(c) ==
  /\ req[c].at = "reply"
  /\ handedOut' = handedOut \cup {req[c].id}
  /\ Finish(c)
  /\ UNCHANGED <<minted, buckets, sweepers, bounds, guarded, released>>

-----------------------------------------------------------------------------
(* GET /api/secrets/:id/meta and POST /api/secrets/:id/reveal.              *)

\* revealGate: does it let this caller through? (A caller it stops gets 401.)
MayOpen(id, session) ==
  \/ ~AuthEnabled
  \/ session
  \/ ~GateAll /\ id \notin visibility

\* A request arrives and passes the gate: to "lookup" for meta, to "consume"
\* for reveal.
Arrive(c, id, session, step) ==
  /\ req[c] = Idle
  /\ MayOpen(id, session)
  /\ req' = [req EXCEPT ![c] = Request(step, id, session, Expired(id))]
  /\ UNCHANGED <<minted, buckets, sweepers, bounds, history>>

\* Wrong variant of Lookup: every secret found is reaped, expired or not.
LookupReapsAll(c) ==
  LET id == req[c].id IN
  /\ req[c].at = "lookup"
  /\ req' = [req EXCEPT ![c].at = IF id \in secrets THEN "metaReap" ELSE "annotate",
                        ![c].exists = id \in secrets /\ ~Expired(id)]
  /\ UNCHANGED <<minted, buckets, sweepers, bounds, history>>

\* Handler.Meta: GetMeta, then the expiry check.
Lookup(c) ==
  LET id == req[c].id IN
  /\ req[c].at = "lookup"
  /\ req' = [req EXCEPT ![c] =
       [@ EXCEPT !.at = IF id \in secrets /\ Expired(id) THEN "metaReap" ELSE "annotate",
                 !.exists = id \in secrets /\ ~Expired(id)]]
  /\ UNCHANGED <<minted, buckets, sweepers, bounds, history>>

\* Handler.Meta: the lazy Delete of an expired secret.
MetaReap(c) ==
  /\ req[c].at = "metaReap"
  /\ secrets' = secrets \ {req[c].id}
  /\ GoTo(c, "annotate")
  /\ UNCHANGED <<minted, views, visibility, sweepers, bounds, history>>

\* annotateViewsMeta after c.Next: Remaining is read, and the response sent.
Annotate(c) ==
  /\ req[c].at = "annotate"
  /\ Finish(c)
  /\ UNCHANGED <<minted, buckets, sweepers, bounds, history>>

\* Wrong variant of ServeView: dropVisibilityOnBurn is mounted in front of
\* multiViewReveal and so runs after every view.
ServeViewUnmarks(c) ==
  LET id == req[c].id IN
  /\ req[c].at = "consume"
  /\ views[id] > 1
  /\ views' = [views EXCEPT ![id] = @ - 1]
  /\ visibility' = visibility \ {id}
  /\ released' = [released EXCEPT ![id] = @ + 1]
  /\ Finish(c)
  /\ UNCHANGED <<minted, secrets, sweepers, bounds, handedOut, guarded>>

\* Wrong variant of ServeView: the decremented record is not written back.
ServeViewForgets(c) ==
  LET id == req[c].id IN
  /\ req[c].at = "consume"
  /\ views[id] > 1
  /\ released' = [released EXCEPT ![id] = @ + 1]
  /\ Finish(c)
  /\ UNCHANGED <<minted, buckets, sweepers, bounds, handedOut, guarded>>

\* multiViewReveal: Consume leaves at least one view, so its copy is served.
ServeView(c) ==
  LET id == req[c].id IN
  /\ req[c].at = "consume"
  /\ views[id] > 1
  /\ views' = [views EXCEPT ![id] = @ - 1]
  /\ released' = [released EXCEPT ![id] = @ + 1]
  /\ Finish(c)
  /\ UNCHANGED <<minted, secrets, visibility, sweepers, bounds, handedOut, guarded>>

\* Wrong variant of PassToReveal: the last view leaves its record behind.
PassToRevealKeeps(c) ==
  LET id == req[c].id IN
  /\ req[c].at = "consume"
  /\ views[id] \in {0, 1}
  /\ GoTo(c, "peek")
  /\ UNCHANGED <<minted, buckets, sweepers, bounds, history>>

\* multiViewReveal: no record, or its last view (which deletes it). On to Reveal.
PassToReveal(c) ==
  LET id == req[c].id IN
  /\ req[c].at = "consume"
  /\ views[id] \in {0, 1}
  /\ views' = [views EXCEPT ![id] = 0]
  /\ GoTo(c, "peek")
  /\ UNCHANGED <<minted, secrets, visibility, sweepers, bounds, history>>

\* Wrong variant of Peek: no expiry check before the burn.
PeekNoExpiry(c) ==
  /\ req[c].at = "peek"
  /\ GoTo(c, "burn")
  /\ UNCHANGED <<minted, buckets, sweepers, bounds, history>>

\* Handler.Reveal: GetMeta, then the expiry check.
Peek(c) ==
  LET id == req[c].id IN
  /\ req[c].at = "peek"
  /\ GoTo(c, IF id \in secrets /\ Expired(id) THEN "reap" ELSE "burn")
  /\ UNCHANGED <<minted, buckets, sweepers, bounds, history>>

\* Handler.Reveal: Delete of an expired secret, and 404.
Reap(c) ==
  /\ req[c].at = "reap"
  /\ secrets' = secrets \ {req[c].id}
  /\ Finish(c)
  /\ UNCHANGED <<minted, views, visibility, sweepers, bounds, history>>

\* Wrong variant of Burn: the read and the delete are not one transaction.
BurnReadsOnly(c) ==
  LET id == req[c].id IN
  /\ req[c].at = "burn"
  /\ id \in secrets
  /\ released' = [released EXCEPT ![id] = @ + 1]
  /\ GoTo(c, "drop")
  /\ UNCHANGED <<minted, buckets, sweepers, bounds, handedOut, guarded>>

\* Handler.Reveal: GetAndBurn finds the secret.
Burn(c) ==
  LET id == req[c].id IN
  /\ req[c].at = "burn"
  /\ id \in secrets
  /\ secrets' = secrets \ {id}
  /\ released' = [released EXCEPT ![id] = @ + 1]
  /\ GoTo(c, "drop")
  /\ UNCHANGED <<minted, views, visibility, sweepers, bounds, handedOut, guarded>>

\* Handler.Reveal: GetAndBurn finds nothing, and 404.
BurnNothing(c) ==
  /\ req[c].at = "burn"
  /\ req[c].id \notin secrets
  /\ Finish(c)
  /\ UNCHANGED <<minted, buckets, sweepers, bounds, history>>

\* dropVisibilityOnBurn after c.Next returned 200.
DropVisibility(c) ==
  /\ req[c].at = "drop"
  /\ visibility' = visibility \ {req[c].id}
  /\ Finish(c)
  /\ UNCHANGED <<minted, secrets, views, sweepers, bounds, history>>

-----------------------------------------------------------------------------
(* The background sweepers.                                                 *)

\* secrets.StartSweeper: DeleteExpired(time.Now()) is one transaction.
SecretSweep ==
  /\ \E id \in secrets : Expired(id)
  /\ secrets' = {id \in secrets : ~Expired(id)}
  /\ UNCHANGED <<minted, views, visibility, req, sweepers, bounds, history>>

\* startVisibilitySweeper: List.
VisibilityList ==
  /\ visSweep = Resting /\ visibility # {}
  /\ visSweep' = [todo |-> visibility, gone |-> {}]
  /\ UNCHANGED <<minted, buckets, req, viewSweep, bounds, history>>

\* Wrong variant of VisibilityLookup: the id is looked up in the views bucket.
VisibilityLookupInViews(id) ==
  /\ visSweep.gone = {} /\ id \in visSweep.todo
  /\ visSweep' = [todo |-> visSweep.todo \ {id},
                  gone |-> IF views[id] = 0 THEN {id} ELSE {}]
  /\ UNCHANGED <<minted, buckets, req, viewSweep, bounds, history>>

\* startVisibilitySweeper: GetMeta of the next id listed.
VisibilityLookup(id) ==
  /\ visSweep.gone = {} /\ id \in visSweep.todo
  /\ visSweep' = [todo |-> visSweep.todo \ {id}, gone |-> {id} \ secrets]
  /\ UNCHANGED <<minted, buckets, req, viewSweep, bounds, history>>

\* startVisibilitySweeper: Delete of the orphan.
VisibilityDelete ==
  /\ visSweep.gone # {}
  /\ visibility' = visibility \ visSweep.gone
  /\ visSweep' = [visSweep EXCEPT !.gone = {}]
  /\ UNCHANGED <<minted, secrets, views, req, viewSweep, bounds, history>>

\* startViewsSweeper: List.
ViewsList ==
  /\ viewSweep = Resting /\ \E id \in Ids : views[id] > 0
  /\ viewSweep' = [todo |-> {id \in Ids : views[id] > 0}, gone |-> {}]
  /\ UNCHANGED <<minted, buckets, req, visSweep, bounds, history>>

\* Wrong variant of ViewsLookup: the nil check is inverted.
ViewsLookupInverted(id) ==
  /\ viewSweep.gone = {} /\ id \in viewSweep.todo
  /\ viewSweep' = [todo |-> viewSweep.todo \ {id}, gone |-> {id} \cap secrets]
  /\ UNCHANGED <<minted, buckets, req, visSweep, bounds, history>>

\* startViewsSweeper: GetMeta of the next id listed.
ViewsLookup(id) ==
  /\ viewSweep.gone = {} /\ id \in viewSweep.todo
  /\ viewSweep' = [todo |-> viewSweep.todo \ {id}, gone |-> {id} \ secrets]
  /\ UNCHANGED <<minted, buckets, req, visSweep, bounds, history>>

\* startViewsSweeper: Delete of the orphan.
ViewsDelete ==
  /\ viewSweep.gone # {}
  /\ views' = [id \in Ids |-> IF id \in viewSweep.gone THEN 0 ELSE views[id]]
  /\ viewSweep' = [viewSweep EXCEPT !.gone = {}]
  /\ UNCHANGED <<minted, secrets, visibility, req, visSweep, bounds, history>>

-----------------------------------------------------------------------------
(* Time, errors and crashes.                                                *)

Tick ==
  /\ now < Horizon
  /\ now' = now + 1
  /\ UNCHANGED <<minted, buckets, req, sweepers, crashes, errors, history>>

\* Where a handler goes when its next transaction fails. Writes whose error is
\* logged or dropped let it continue; any other error is a 500 response.
AfterError(step) ==
  CASE step = "views"      -> "visibility"
    [] step = "visibility" -> "reply"
    [] step = "metaReap"   -> "annotate"
    [] OTHER               -> "idle"

StoreError(c) ==
  /\ req[c].at \notin {"idle", "reply"}
  /\ errors < MaxErrors
  /\ errors' = errors + 1
  /\ req' = [req EXCEPT ![c] = IF AfterError(req[c].at) = "idle" THEN Idle
                               ELSE [@ EXCEPT !.at = AfterError(req[c].at)]]
  /\ UNCHANGED <<minted, buckets, sweepers, now, crashes, history>>

\* A sweeper whose lookup or delete fails goes on to its next id.
SkipNext(s, s2) ==
  \/ /\ s.gone = {}
     /\ \E id \in s.todo : s2 = [s EXCEPT !.todo = @ \ {id}]
  \/ /\ s.gone # {}
     /\ s2 = [s EXCEPT !.gone = {}]

VisibilitySweepError ==
  /\ errors < MaxErrors
  /\ errors' = errors + 1
  /\ SkipNext(visSweep, visSweep')
  /\ UNCHANGED <<minted, buckets, req, viewSweep, now, crashes, history>>

ViewsSweepError ==
  /\ errors < MaxErrors
  /\ errors' = errors + 1
  /\ SkipNext(viewSweep, viewSweep')
  /\ UNCHANGED <<minted, buckets, req, visSweep, now, crashes, history>>

\* The process dies and starts again on the same database file.
Crash ==
  /\ crashes < MaxCrashes
  /\ crashes' = crashes + 1
  /\ req' = [c \in Clients |-> Idle]
  /\ visSweep' = Resting /\ viewSweep' = Resting
  /\ UNCHANGED <<minted, buckets, now, errors, history>>

-----------------------------------------------------------------------------
CreateNext(c) ==
  \/ \E id \in Ids, n \in 1..Ceiling, private \in BOOLEAN, ttl \in Lifetimes :
       Create(c, id, n, private, ttl)
  \/ RecordViews(c) \/ RecordVisibility(c) \/ Reply(c)

OpenNext(c) ==
  \/ \E id \in Links, session \in Sessions, step \in {"lookup", "consume"} :
       Arrive(c, id, session, step)
  \/ Lookup(c) \/ MetaReap(c) \/ Annotate(c)
  \/ ServeView(c) \/ PassToReveal(c)
  \/ Peek(c) \/ Reap(c) \/ Burn(c) \/ BurnNothing(c) \/ DropVisibility(c)

VisibilitySweepNext ==
  VisibilityList \/ (\E id \in Ids : VisibilityLookup(id)) \/ VisibilityDelete

ViewsSweepNext ==
  ViewsList \/ (\E id \in Ids : ViewsLookup(id)) \/ ViewsDelete

Next ==
  \/ \E c \in Clients : CreateNext(c) \/ OpenNext(c) \/ StoreError(c)
  \/ SecretSweep \/ VisibilitySweepNext \/ ViewsSweepNext
  \/ VisibilitySweepError \/ ViewsSweepError
  \/ Tick \/ Crash

Spec == Init /\ [][Next]_vars

\* The tickers keep firing while the server runs, and time passes. Nothing is
\* assumed of the handlers.
Fairness ==
  /\ WF_vars(Tick)
  /\ WF_vars(SecretSweep)
  /\ WF_vars(VisibilitySweepNext)
  /\ WF_vars(ViewsSweepNext)

FairSpec == Spec /\ Fairness

-----------------------------------------------------------------------------
(* Properties.                                                              *)

\* Every variable keeps its type.
TypeOK ==
  /\ now \in 0..Horizon /\ crashes \in 0..MaxCrashes /\ errors \in 0..MaxErrors
  /\ minted \in [Ids -> Shares]
  /\ secrets \subseteq Ids /\ visibility \subseteq Ids
  /\ views \in [Ids -> 0..Ceiling]
  /\ req \in [Clients -> Requests]
  /\ visSweep \in Sweeps /\ viewSweep \in Sweeps
  /\ handedOut \subseteq Ids /\ guarded \subseteq Ids
  /\ released \in [Ids -> Nat]

\* A secret never yields its ciphertext more often than its creator allowed
\* (once, for a plain one), whatever reveals race through the two transactions
\* Views.Consume and Secrets.GetAndBurn, and whichever of them fail
\* (README.md:16, multiview.go:62 "never to extra views").
WithinBudget == \A id \in Ids : released[id] <= minted[id].views

\* A secret that is marked private stays marked for as long as it is stored:
\* neither the visibility sweeper's check-then-delete nor the clean-up after a
\* reveal drops the mark early (middleware.go:97-101, routes.go:84-87).
MarkedWhileStored == guarded \cap secrets \subseteq visibility

\* A private secret is marked by the time anybody has its link, whatever crashes and
\* sweeps come in between; only a store transaction that failed can leave it public
\* (middleware.go:101-102 "the secret simply stays public").
PrivateOnceHandedOut ==
  AuthEnabled /\ errors = 0 =>
    \A id \in handedOut \cap secrets : minted[id].private => id \in visibility

\* While views remain recorded, the secret they belong to goes away only by
\* expiring: no reveal burns a secret whose budget is not used up
\* (multiview.go:14-19).
NoViewsCutShort ==
  \A id \in Ids : views[id] > 0 /\ id \notin secrets => Expired(id)

\* Client c's step hands the ciphertext to its caller.
Reveals(c) ==
  /\ req[c].at \in {"consume", "burn"}
  /\ req'[c] # req[c]
  /\ released'[req[c].id] > released[req[c].id]

\* The ciphertext of a stored secret that is marked private goes only to a
\* caller with a session; with gate = all every ciphertext does
\* (middleware.go:63-70). The gate runs several transactions before the release.
PrivateNeedsSession ==
  [][\A c \in Clients :
       Reveals(c) /\ AuthEnabled /\ (GateAll \/ req[c].id \in guarded \cap secrets)
         => req[c].session]_vars

\* A reveal that arrives after the expiry never reaches the burn of a live
\* record: the peek turns it away, however the sweeper is delayed
\* (secrets/handler.go:98-104).
LateRevealNeverBurns ==
  [][\A c \in Clients : Reveals(c) /\ req[c].at = "burn" => ~req[c].late]_vars

\* A secret that has not expired leaves its bucket only when a reveal takes its
\* ciphertext: the lazy deletes of meta and reveal act on an earlier check, and
\* must not hit a live secret (secrets/handler.go:73-90).
LiveSecretLeavesOnlyByReveal ==
  [][\A id \in secrets \ secrets' :
       Expired(id) \/ \E c \in Clients : req[c].id = id /\ Reveals(c)]_vars

\* Every id is eventually purged from all three buckets for good, orphans left
\* by crashes and slow creates included (serve.go:98-103).
EventuallyPurged ==
  \A id \in Ids :
    <>[](id \notin secrets /\ views[id] = 0 /\ id \notin visibility)

\* Refinement: the views that can still be had. A budget record serves all its
\* views but the last, which the secret itself serves.
Obtainable(id) ==
  IF id \in secrets
    THEN IF views[id] > 0 THEN views[id] ELSE 1
    ELSE IF views[id] > 0 THEN views[id] - 1 ELSE 0

OfferedViews == [id \in Ids |-> IF id \in handedOut THEN minted[id].views ELSE 0]
LeftViews    == [id \in Ids |-> IF id \in handedOut THEN Obtainable(id) ELSE 0]

Budget == INSTANCE ViewBudget WITH
  MaxViews <- Ceiling, offered <- OfferedViews, left <- LeftViews

\* The two buckets and their separate transactions implement one atomic counter
\* per link: every ciphertext released is one view of the budget, and no
\* failure, crash or sweep ever gives a view back.
ImplementsViewBudget == Budget!Spec

-----------------------------------------------------------------------------
(* What the documentation says and the code does not do.                    *)

\* README.md:5-6: a secret is deleted on expiry. No caller who arrives after the
\* expiry is given the ciphertext.
NothingReleasedLate == [][\A c \in Clients : Reveals(c) => ~req[c].late]_vars

\* middleware.go:68-70: an anonymous caller of a private secret gets 401.
PrivateNeverAnonymous ==
  [][\A c \in Clients : Reveals(c) /\ req[c].id \in guarded => req[c].session]_vars

\* secrets/handler.go:74-75: missing, burned and expired all read identically:
\* a meta response that says exists:false carries no views_remaining.
GoneReadsIdentically ==
  \A c \in Clients :
    req[c].at = "annotate" /\ ~req[c].exists => views[req[c].id] = 0

\* secrets/store.go:125: DeleteExpired purges every secret whose expiry is at or
\* before now.
SweepTakesAtOrBeforeNow ==
  [][SecretSweep => \A id \in secrets' : minted[id].expires > now]_vars

=============================================================================
