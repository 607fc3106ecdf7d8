------------------------------ MODULE FileShare ------------------------------
(***************************************************************************)
(* The life of a shared encrypted file. Files have a bucket and a sweeper  *)
(* of their own, and a burn that checks the expiry inside its transaction; *)
(* they share the visibility bucket, the reveal gate and the visibility    *)
(* sweeper with the secrets (module SecretShare). One action is one bbolt  *)
(* transaction with the in-memory work up to the next.                     *)
(*                                                                         *)
(* Meta requests change nothing for a file and are left out.               *)
(***************************************************************************)
EXTENDS Naturals

CONSTANTS
  Ids,         \* file identifiers a client can put in a URL
  Mistyped,    \* one of them, which NewID never returned
  Clients,     \* request slots; each runs one HTTP request at a time
  AuthEnabled, \* config auth.enabled
  GateAll,     \* config auth.gate = "all"
  MaxTTL,      \* config secrets.max_ttl, which files share, in clock ticks
  Horizon,     \* bound: the clock stops here, and every file expires before
  MaxCrashes,  \* bound: crashes of the server
  MaxErrors    \* bound: store transactions that fail

ASSUME FileConfigAssumption ==
  /\ Mistyped \in Ids
  /\ AuthEnabled \in BOOLEAN /\ GateAll \in BOOLEAN
  /\ MaxTTL \in Nat /\ Horizon \in Nat
  /\ MaxCrashes \in Nat /\ MaxErrors \in Nat

VARIABLES
  now,        \* the wall clock
  expires,    \* ExpiresAt of each id, 0 for one that was never minted
  files,      \* bucket: ids whose ciphertext is stored
  visibility, \* bucket: ids marked private
  req,        \* the request each slot is running
  visSweep,   \* the visibility sweeper: ids listed, and the id to delete
  crashes, errors,  \* used up parts of MaxCrashes and MaxErrors
  handedOut,  \* history: ids whose response was sent
  guarded,    \* history: ids whose SetPrivate committed
  swept,      \* history: ids whose mark the visibility sweeper deleted
  released    \* history: number of reveals given the ciphertext, per id

bounds  == <<now, crashes, errors>>
history == <<handedOut, guarded, swept, released>>
vars == <<now, expires, files, visibility, req, visSweep, crashes, errors, history>>

\* The ids in the secrets bucket: file ids are drawn apart from secret ids.
SecretIds == {}

\* Request slots: what the handler does next, for which id and caller.
\* private: the X-Share-Private header of a create request.
Steps    == {"idle", "visibility", "reply", "burn", "drop"}
Requests == [at : Steps, id : Ids, session : BOOLEAN, private : BOOLEAN]
Request(at, id, session, private) ==
  [at |-> at, id |-> id, session |-> session, private |-> private]
Idle == Request("idle", Mistyped, FALSE, FALSE)

Sweeps  == [todo : SUBSET Ids, gone : SUBSET Ids]
Resting == [todo |-> {}, gone |-> {}]

\* IsExpired: strictly after the expiry instant.
Expired(id) == now > expires[id]

Links    == handedOut \cup {Mistyped}
Sessions == IF AuthEnabled THEN BOOLEAN ELSE {FALSE}

Init ==
  /\ now = 0 /\ crashes = 0 /\ errors = 0
  /\ expires = [id \in Ids |-> 0]
  /\ files = {} /\ visibility = {}
  /\ req = [c \in Clients |-> Idle]
  /\ visSweep = Resting
  /\ handedOut = {} /\ guarded = {} /\ swept = {}
  /\ released = [id \in Ids |-> 0]

GoTo(c, step) == req' = [req EXCEPT ![c].at = step]
Finish(c)     == req' = [req EXCEPT ![c] = Idle]

-----------------------------------------------------------------------------
(* POST /api/files: captureFileVisibility(Create).                          *)

\* Handler.Create up to and including Store.Create, which overwrites: nothing
\* but the 144 random bits of NewID keeps ids apart. A body or a TTL out of
\* range is refused before.
Create(c, id, private, ttl) ==
  /\ req[c] = Idle
  /\ id # Mistyped /\ expires[id] = 0
  /\ now + ttl < Horizon
  /\ expires' = [expires EXCEPT ![id] = now + ttl]
  /\ files' = files \cup {id}
  /\ req' = [req EXCEPT ![c] = Request("visibility", id, FALSE, private)]
  /\ UNCHANGED <<visibility, visSweep, bounds, history>>

\* captureFileVisibility after c.Next: a no-op for a public file or without auth.
RecordVisibility(c) ==
  LET marked == IF AuthEnabled /\ req[c].private THEN {req[c].id} ELSE {} IN
  /\ req[c].at = "visibility"
  /\ visibility' = visibility \cup marked
  /\ guarded' = guarded \cup marked
  /\ GoTo(c, "reply")
  /\ UNCHANGED <<expires, files, visSweep, bounds, handedOut, swept, released>>

\* The response is flushed, and the creator has the link.
Reply(c) ==
  /\ req[c].at = "reply"
  /\ handedOut' = handedOut \cup {req[c].id}
  /\ Finish(c)
  /\ UNCHANGED <<expires, files, visibility, visSweep, bounds, guarded, swept, released>>

-----------------------------------------------------------------------------
(* POST /api/files/:id/reveal.                                              *)

\* revealGate: does it let this caller through?
MayOpen(id, session) ==
  ~AuthEnabled \/ session \/ (~GateAll /\ id \notin visibility)

\* Wrong variant of Arrive: the mark is dropped on the way in, before the burn.
ArriveUnmarks(c, id, session) ==
  /\ req[c] = Idle
  /\ MayOpen(id, session)
  /\ visibility' = visibility \ {id}
  /\ req' = [req EXCEPT ![c] = Request("burn", id, session, FALSE)]
  /\ UNCHANGED <<expires, files, visSweep, bounds, history>>

Arrive(c, id, session) ==
  /\ req[c] = Idle
  /\ MayOpen(id, session)
  /\ req' = [req EXCEPT ![c] = Request("burn", id, session, FALSE)]
  /\ UNCHANGED <<expires, files, visibility, visSweep, bounds, history>>

\* Wrong variant of Burn: the expiry is not checked.
BurnAnyAge(c) ==
  LET id == req[c].id IN
  /\ req[c].at = "burn"
  /\ files' = files \ {id}
  /\ IF id \in files
       THEN /\ released' = [released EXCEPT ![id] = @ + 1]
            /\ GoTo(c, "drop")
       ELSE /\ UNCHANGED released
            /\ Finish(c)
  /\ UNCHANGED <<expires, visibility, visSweep, bounds, handedOut, guarded, swept>>

\* Wrong variant of Burn: the read and the delete are not one transaction.
BurnReadsOnly(c) ==
  LET id == req[c].id IN
  /\ req[c].at = "burn"
  /\ IF id \in files /\ ~Expired(id)
       THEN /\ released' = [released EXCEPT ![id] = @ + 1]
            /\ GoTo(c, "drop")
       ELSE /\ UNCHANGED released
            /\ Finish(c)
  /\ UNCHANGED <<expires, files, visibility, visSweep, bounds, handedOut, guarded, swept>>

\* Handler.Reveal: GetAndBurn deletes the record, and returns it unless it has
\* expired; without it the response is 404.
Burn(c) ==
  LET id == req[c].id IN
  /\ req[c].at = "burn"
  /\ files' = files \ {id}
  /\ IF id \in files /\ ~Expired(id)
       THEN /\ released' = [released EXCEPT ![id] = @ + 1]
            /\ GoTo(c, "drop")
       ELSE /\ UNCHANGED released
            /\ Finish(c)
  /\ UNCHANGED <<expires, visibility, visSweep, bounds, handedOut, guarded, swept>>

\* dropVisibilityOnBurn after c.Next returned 200.
DropVisibility(c) ==
  /\ req[c].at = "drop"
  /\ visibility' = visibility \ {req[c].id}
  /\ Finish(c)
  /\ UNCHANGED <<expires, files, visSweep, bounds, history>>

-----------------------------------------------------------------------------
(* The background sweepers.                                                 *)

\* Wrong variant of FileSweep: the comparison is the wrong way round.
FileSweepInverted ==
  /\ \E id \in files : ~Expired(id)
  /\ files' = {id \in files : Expired(id)}
  /\ UNCHANGED <<expires, visibility, req, visSweep, bounds, history>>

\* files.StartSweeper: DeleteExpired(time.Now()) is one transaction.
FileSweep ==
  /\ \E id \in files : Expired(id)
  /\ files' = {id \in files : ~Expired(id)}
  /\ UNCHANGED <<expires, visibility, req, visSweep, bounds, history>>

\* startVisibilitySweeper: List.
VisibilityList ==
  /\ visSweep = Resting /\ visibility # {}
  /\ visSweep' = [todo |-> visibility, gone |-> {}]
  /\ UNCHANGED <<expires, files, visibility, req, bounds, history>>

\* startVisibilitySweeper: the next id is looked up among the secrets.
VisibilityLookup(id) ==
  /\ visSweep.gone = {} /\ id \in visSweep.todo
  /\ visSweep' = [todo |-> visSweep.todo \ {id}, gone |-> {id} \ SecretIds]
  /\ UNCHANGED <<expires, files, visibility, req, bounds, history>>

\* Wrong variant of VisibilityDelete: nothing is deleted.
VisibilityDeleteNothing ==
  /\ visSweep.gone # {}
  /\ visSweep' = [visSweep EXCEPT !.gone = {}]
  /\ UNCHANGED <<expires, files, visibility, req, bounds, history>>

\* startVisibilitySweeper: Delete of the id that was not found.
VisibilityDelete ==
  /\ visSweep.gone # {}
  /\ visibility' = visibility \ visSweep.gone
  /\ swept' = swept \cup visSweep.gone
  /\ visSweep' = [visSweep EXCEPT !.gone = {}]
  /\ UNCHANGED <<expires, files, req, bounds, handedOut, guarded, released>>

-----------------------------------------------------------------------------
(* Time, errors and crashes.                                                *)

Tick ==
  /\ now < Horizon
  /\ now' = now + 1
  /\ UNCHANGED <<expires, files, visibility, req, visSweep, crashes, errors, history>>

\* A failing SetPrivate is logged; a failing burn is a 500; a failing clean-up
\* is ignored.
StoreError(c) ==
  /\ req[c].at \in {"visibility", "burn", "drop"}
  /\ errors < MaxErrors
  /\ errors' = errors + 1
  /\ IF req[c].at = "visibility" THEN GoTo(c, "reply") ELSE Finish(c)
  /\ UNCHANGED <<expires, files, visibility, visSweep, now, crashes, history>>

\* A failing look-up or Delete of the visibility sweeper leaves the id to the
\* next tick. (A failing List leaves them all, and changes nothing.)
VisibilitySweepError ==
  /\ errors < MaxErrors
  /\ errors' = errors + 1
  /\ IF visSweep.gone = {}
       THEN \E id \in visSweep.todo : visSweep' = [visSweep EXCEPT !.todo = @ \ {id}]
       ELSE visSweep' = [visSweep EXCEPT !.gone = {}]
  /\ UNCHANGED <<expires, files, visibility, req, now, crashes, history>>

\* The process dies and starts again on the same database file.
Crash ==
  /\ crashes < MaxCrashes
  /\ crashes' = crashes + 1
  /\ req' = [c \in Clients |-> Idle]
  /\ visSweep' = Resting
  /\ UNCHANGED <<expires, files, visibility, now, errors, history>>

-----------------------------------------------------------------------------
Requesting(c) ==
  \/ \E id \in Ids, private \in BOOLEAN, ttl \in 1..MaxTTL : Create(c, id, private, ttl)
  \/ RecordVisibility(c) \/ Reply(c)
  \/ \E id \in Links, session \in Sessions : Arrive(c, id, session)
  \/ Burn(c) \/ DropVisibility(c)
  \/ StoreError(c)

VisibilitySweepNext ==
  VisibilityList \/ (\E id \in Ids : VisibilityLookup(id)) \/ VisibilityDelete

Next ==
  \/ \E c \in Clients : Requesting(c)
  \/ FileSweep \/ VisibilitySweepNext \/ VisibilitySweepError
  \/ Tick \/ Crash

Spec == Init /\ [][Next]_vars

\* The tickers keep firing while the server runs, and time passes.
Fairness == WF_vars(Tick) /\ WF_vars(FileSweep) /\ WF_vars(VisibilitySweepNext)

FairSpec == Spec /\ Fairness

-----------------------------------------------------------------------------
(* Properties.                                                              *)

\* Every variable keeps its type.
TypeOK ==
  /\ now \in 0..Horizon /\ crashes \in 0..MaxCrashes /\ errors \in 0..MaxErrors
  /\ expires \in [Ids -> 0..Horizon]
  /\ files \subseteq Ids /\ visibility \subseteq Ids
  /\ req \in [Clients -> Requests]
  /\ visSweep \in Sweeps
  /\ handedOut \subseteq Ids /\ guarded \subseteq Ids /\ swept \subseteq Ids
  /\ released \in [Ids -> 0..1]

\* Client c's step hands the ciphertext to its caller.
Reveals(c) ==
  /\ req[c].at = "burn" /\ req'[c] # req[c]
  /\ released'[req[c].id] > released[req[c].id]

\* Only the visibility sweeper parts a stored file from its mark (see the end of
\* the module). With that aside, a private file is given to callers with a session
\* only: a create marks it before anybody holds the link, a racing reveal drops the
\* mark after its burn, and no answer of the gate outlives the mark it rests on
\* (middleware.go:68-70, 133-176).
GuardedUnlessSwept ==
  [][\A c \in Clients : Reveals(c) /\ req[c].id \in guarded \ swept => req[c].session]_vars

\* A file that has not expired leaves its bucket only into a caller's hands,
\* one caller: the sweeper and the clean-up of another reveal never take it.
LiveFileLeavesOnlyByReveal ==
  [][\A id \in files \ files' :
       Expired(id) \/ \E c \in Clients : req[c].id = id /\ Reveals(c)]_vars

\* Every file and every mark is eventually purged for good, those of creates
\* that crashed half-way included.
EventuallyPurged == \A id \in Ids : <>[](id \notin files /\ id \notin visibility)

\* Files are strictly one-time (routes.go:95-96): they implement the view budget
\* with a single view, which is lost at the expiry, whether or not the sweeper has
\* been there (files/store.go:74-75).
OfferedViews == [id \in Ids |-> IF id \in handedOut THEN 1 ELSE 0]
LeftViews    ==
  [id \in Ids |-> IF id \in handedOut \cap files /\ ~Expired(id) THEN 1 ELSE 0]
Budget == INSTANCE ViewBudget WITH
  MaxViews <- 1, offered <- OfferedViews, left <- LeftViews

\* Every file released is the one view of its link, taken before the expiry, and no
\* view ever comes back.
ImplementsViewBudget == Budget!Spec

-----------------------------------------------------------------------------
(* What the documentation says and the code does not do.                    *)

\* middleware.go:68-70 and routes.go:93-94 "same gates": a private file is not
\* given to a caller without a session while its record is stored.
PrivateFileNeedsSession ==
  [][\A c \in Clients : Reveals(c) /\ req[c].id \in guarded => req[c].session]_vars

=============================================================================
