--------------------------- MODULE FileShareProofs ---------------------------
(***************************************************************************)
(* Proofs about FileShare, for every choice of its constants: any number   *)
(* of files and of concurrent requests, of crashes and failing             *)
(* transactions, and any clock.                                            *)
(***************************************************************************)
EXTENDS FileShare, TLAPS

Creating(c) == req[c].at \in {"visibility", "reply"}
Opening(c)  == req[c].at \in {"burn", "drop"}

\* An id that was never minted is nowhere.
Untouched ==
  \A id \in Ids : expires[id] = 0 =>
    id \notin files /\ id \notin handedOut /\ released[id] = 0

\* Until its create request answers, nobody else knows an id.
Unknown ==
  \A c \in Clients : Creating(c) =>
    /\ req[c].id \notin handedOut
    /\ expires[req[c].id] # 0
    /\ released[req[c].id] = 0

\* An id is being created by one request only.
SoleCreator ==
  \A c, d \in Clients : Creating(c) /\ Creating(d) /\ req[c].id = req[d].id => c = d

\* Requests that open a link were given it, or mistyped one.
FollowsLink == \A c \in Clients : Opening(c) => req[c].id \in Links

\* A file that was read is no longer stored. The type of released rests on it.
ReadOnce == \A id \in files : released[id] = 0

FileInv ==
  /\ TypeOK
  /\ expires[Mistyped] = 0
  /\ Untouched
  /\ Unknown
  /\ SoleCreator
  /\ FollowsLink
  /\ ReadOnce

-----------------------------------------------------------------------------
(* Requests.                                                                *)

LEMMA IdleType == Idle \in Requests
  BY FileConfigAssumption DEF Idle, Request, Requests, Steps

LEMMA RequestTypes ==
  ASSUME TypeOK, NEW c \in Clients
  PROVE  /\ req[c] \in Requests /\ req[c].id \in Ids /\ req[c].at \in Steps
         /\ req[c].private \in BOOLEAN
  BY DEF TypeOK, Requests

\* What GoTo and Finish do to the requests in flight.
LEMMA GoToEffect ==
  ASSUME TypeOK, NEW c \in Clients, NEW step \in Steps, GoTo(c, step)
  PROVE  /\ req' \in [Clients -> Requests]
         /\ req'[c].at = step /\ req'[c].id = req[c].id
         /\ \A d \in Clients \ {c} : req'[d] = req[d]
  BY DEF GoTo, TypeOK, Requests

LEMMA FinishEffect ==
  ASSUME TypeOK, NEW c \in Clients, Finish(c)
  PROVE  /\ req' \in [Clients -> Requests]
         /\ req'[c] = Idle /\ req'[c].at = "idle"
         /\ \A d \in Clients \ {c} : req'[d] = req[d]
  BY IdleType DEF Finish, TypeOK, Idle, Request

-----------------------------------------------------------------------------
(* Type correctness. It needs ReadOnce: released counts to one.             *)

LEMMA FileInit == Init => FileInv
  <1> SUFFICES ASSUME Init PROVE FileInv
    OBVIOUS
  <1>1. TypeOK
    BY FileConfigAssumption, IdleType DEF Init, TypeOK, Sweeps, Resting
  <1>2. \A c \in Clients : ~Creating(c) /\ ~Opening(c)
    BY DEF Init, Idle, Request, Creating, Opening
  <1> QED
    BY <1>1, <1>2, FileConfigAssumption
       DEF Init, FileInv, Untouched, Unknown, SoleCreator, FollowsLink, ReadOnce

LEMMA TypeNext == FileInv /\ [Next]_vars => TypeOK'
  <1> SUFFICES ASSUME FileInv, [Next]_vars PROVE TypeOK'
    OBVIOUS
  <1> USE FileConfigAssumption DEF bounds, history
  <1>0. TypeOK
    BY DEF FileInv
  <1>1. ASSUME NEW c \in Clients, NEW id \in Ids, NEW private \in BOOLEAN,
               NEW ttl \in 1..MaxTTL, Create(c, id, private, ttl)
        PROVE  TypeOK'
    <2>1. Request("visibility", id, FALSE, private) \in Requests
      BY DEF Request, Requests, Steps
    <2>2. now + ttl \in 0..Horizon
      BY <1>0, <1>1 DEF Create, TypeOK
    <2> QED BY <1>0, <1>1, <2>1, <2>2 DEF Create, TypeOK
  <1>2. ASSUME NEW c \in Clients, RecordVisibility(c)
        PROVE  TypeOK'
    <2>1. req' \in [Clients -> Requests]
      BY <1>0, <1>2, GoToEffect DEF RecordVisibility, Steps
    <2> QED BY <1>0, <1>2, <2>1, RequestTypes DEF RecordVisibility, TypeOK
  <1>3. ASSUME NEW c \in Clients, Reply(c)
        PROVE  TypeOK'
    <2>1. req' \in [Clients -> Requests]
      BY <1>0, <1>3, FinishEffect DEF Reply
    <2> QED BY <1>0, <1>3, <2>1, RequestTypes DEF Reply, TypeOK
  <1>4. ASSUME NEW c \in Clients, NEW id \in Links, NEW session \in Sessions,
               Arrive(c, id, session)
        PROVE  TypeOK'
    <2>1. Request("burn", id, session, FALSE) \in Requests
      BY <1>0 DEF Request, Requests, Steps, Links, Sessions, TypeOK
    <2> QED BY <1>0, <1>4, <2>1 DEF Arrive, TypeOK
  <1>5. ASSUME NEW c \in Clients, Burn(c)
        PROVE  TypeOK'
    <2>1. req' \in [Clients -> Requests]
      BY <1>0, <1>5, GoToEffect, FinishEffect DEF Burn, Steps
    <2>2. released' \in [Ids -> 0..1]
      BY <1>0, <1>5 DEF Burn, TypeOK, FileInv, ReadOnce
    <2> QED BY <1>0, <1>5, <2>1, <2>2 DEF Burn, TypeOK
  <1>6. ASSUME NEW c \in Clients, DropVisibility(c)
        PROVE  TypeOK'
    <2>1. req' \in [Clients -> Requests]
      BY <1>0, <1>6, FinishEffect DEF DropVisibility
    <2> QED BY <1>0, <1>6, <2>1 DEF DropVisibility, TypeOK
  <1>7. ASSUME NEW c \in Clients, StoreError(c)
        PROVE  TypeOK'
    <2>1. req' \in [Clients -> Requests]
      BY <1>0, <1>7, GoToEffect, FinishEffect DEF StoreError, Steps
    <2> QED BY <1>0, <1>7, <2>1 DEF StoreError, TypeOK
  <1>8. CASE FileSweep \/ Tick \/ Crash
    BY <1>0, <1>8, IdleType DEF FileSweep, Tick, Crash, TypeOK, Sweeps, Resting
  <1>9. CASE VisibilitySweepNext \/ VisibilitySweepError
    BY <1>0, <1>9 DEF VisibilitySweepNext, VisibilityList, VisibilityDelete, VisibilityLookup,
                      VisibilitySweepError, TypeOK, Sweeps
  <1>10. CASE UNCHANGED vars
    BY <1>0, <1>10 DEF vars, TypeOK
  <1> QED
    BY <1>1, <1>2, <1>3, <1>4, <1>5, <1>6, <1>7, <1>8, <1>9, <1>10
       DEF Next, Requesting

-----------------------------------------------------------------------------
(* The inductive invariant.                                                 *)

\* A step that at most loses files, and time.
Lossy ==
  UNCHANGED <<expires, handedOut, released>> /\ files' \subseteq files /\ now <= now'

\* Only three actions are more than that.
LEMMA StepKinds ==
  ASSUME TypeOK, [Next]_vars
  PROVE  \/ Lossy
         \/ \E c \in Clients :
              \/ \E id \in Ids, private \in BOOLEAN, ttl \in 1..MaxTTL :
                   Create(c, id, private, ttl)
              \/ Reply(c) \/ Burn(c)
  <1> USE DEF bounds, history
  <1>0. now <= now /\ now <= now + 1
    BY DEF TypeOK
  <1>1. ASSUME NEW c \in Clients, Requesting(c), ~Reply(c), ~Burn(c),
               ~\E id \in Ids, private \in BOOLEAN, ttl \in 1..MaxTTL :
                   Create(c, id, private, ttl)
        PROVE  Lossy
    BY <1>0, <1>1 DEF Requesting, RecordVisibility, Arrive, DropVisibility, StoreError, Lossy
  <1>2. ASSUME FileSweep \/ VisibilitySweepNext \/ VisibilitySweepError \/ Tick \/ Crash
               \/ UNCHANGED vars
        PROVE  Lossy
    BY <1>0, <1>2 DEF FileSweep, VisibilitySweepNext, VisibilityList, VisibilityLookup,
                      VisibilityDelete, VisibilitySweepError, Tick, Crash, vars, Lossy
  <1> QED BY <1>1, <1>2 DEF Next

\* Which requests a step starts or moves on.
LEMMA RequestsInFlight ==
  ASSUME FileInv, [Next]_vars,
         ~\E c \in Clients, id \in Ids, private \in BOOLEAN, ttl \in 1..MaxTTL :
            Create(c, id, private, ttl)
  PROVE  \A d \in Clients :
           /\ Creating(d)' => Creating(d) /\ req'[d].id = req[d].id
           /\ Opening(d)' => req'[d].id \in Links
  <1> USE DEF bounds, history
  <1>0. TypeOK
    BY DEF FileInv
  <1> SUFFICES ASSUME NEW d \in Clients
               PROVE  /\ Creating(d)' => Creating(d) /\ req'[d].id = req[d].id
                      /\ Opening(d)' => req'[d].id \in Links
    OBVIOUS
  <1>1. CASE req'[d] = req[d]
    BY <1>1 DEF Creating, Opening, FileInv, FollowsLink
  <1>2. CASE req'[d].at = "idle"
    BY <1>2 DEF Creating, Opening
  <1>3. CASE RecordVisibility(d) \/ (StoreError(d) /\ req[d].at = "visibility")
    <2>1. req'[d].at = "reply" /\ req'[d].id = req[d].id /\ req[d].at = "visibility"
      BY <1>0, <1>3, GoToEffect DEF RecordVisibility, StoreError, Steps
    <2> QED BY <2>1 DEF Creating, Opening
  <1>4. ASSUME NEW id \in Links, NEW session \in Sessions, Arrive(d, id, session)
        PROVE  req'[d].at = "burn" /\ req'[d].id \in Links
    BY <1>0, <1>4 DEF Arrive, Request, TypeOK
  <1>5. CASE Burn(d)
    <2>1. GoTo(d, "drop") \/ Finish(d)
      BY <1>5 DEF Burn
    <2>2. CASE GoTo(d, "drop")
      <3>1. req'[d].at = "drop" /\ req'[d].id = req[d].id
        BY <1>0, <2>2, GoToEffect DEF Steps
      <3> QED BY <1>5, <3>1 DEF Burn, Creating, Opening, FileInv, FollowsLink
    <2> QED BY <1>0, <1>2, <2>1, <2>2, FinishEffect
  <1>6. ASSUME Reply(d) \/ DropVisibility(d) \/ (StoreError(d) /\ req[d].at # "visibility")
        PROVE  req'[d].at = "idle"
    BY <1>0, <1>6, FinishEffect DEF Reply, DropVisibility, StoreError
  <1>7. ASSUME NEW c \in Clients \ {d}, Requesting(c)
        PROVE  req'[d] = req[d]
    BY <1>0, <1>7
       DEF Requesting, Create, RecordVisibility, Reply, Arrive, Burn, DropVisibility,
           StoreError, GoTo, Finish, TypeOK
  <1>8. ASSUME FileSweep \/ VisibilitySweepNext \/ VisibilitySweepError \/ Tick \/ Crash
               \/ UNCHANGED vars
        PROVE  req'[d] = req[d] \/ req'[d].at = "idle"
    BY <1>8 DEF FileSweep, VisibilitySweepNext, VisibilityList, VisibilityLookup,
                VisibilityDelete, VisibilitySweepError, Tick, Crash, vars, Idle, Request
  <1>9. CASE Requesting(d)
    <2>1. ASSUME NEW id \in Links, NEW session \in Sessions, Arrive(d, id, session)
          PROVE  ~Creating(d)' /\ req'[d].id \in Links
      BY <1>4, <2>1 DEF Creating
    <2> QED BY <1>2, <1>3, <1>5, <1>6, <1>9, <2>1 DEF Requesting
  <1> QED BY <1>1, <1>2, <1>7, <1>8, <1>9 DEF Next

LEMMA LossyNext ==
  ASSUME FileInv, [Next]_vars, Lossy
  PROVE  FileInv'
  <1>0. TypeOK'
    BY TypeNext
  <1>1. ~\E c \in Clients, id \in Ids, private \in BOOLEAN, ttl \in 1..MaxTTL :
           Create(c, id, private, ttl)
    <2> SUFFICES ASSUME NEW c \in Clients, NEW id \in Ids, NEW private \in BOOLEAN,
                        NEW ttl \in 1..MaxTTL, Create(c, id, private, ttl)
                 PROVE  FALSE
      OBVIOUS
    <2> QED BY FileConfigAssumption DEF Create, Lossy, FileInv, TypeOK
  <1>2. \A d \in Clients : /\ Creating(d)' => Creating(d) /\ req'[d].id = req[d].id
                           /\ Opening(d)' => req'[d].id \in Links
    BY <1>1, RequestsInFlight
  <1>3. Untouched' /\ ReadOnce' /\ expires'[Mistyped] = 0
    BY DEF Lossy, FileInv, Untouched, ReadOnce
  <1>4. Unknown' /\ SoleCreator'
    BY <1>2 DEF Lossy, FileInv, Unknown, SoleCreator
  <1>5. FollowsLink'
    BY <1>2 DEF Lossy, FollowsLink, Links
  <1> QED BY <1>0, <1>3, <1>4, <1>5 DEF FileInv

LEMMA CreateNext ==
  ASSUME FileInv, [Next]_vars, NEW c \in Clients, NEW id \in Ids, NEW private \in BOOLEAN,
         NEW ttl \in 1..MaxTTL, Create(c, id, private, ttl)
  PROVE  FileInv'
  <1> USE DEF bounds, history
  <1>0. TypeOK /\ TypeOK'
    BY TypeNext DEF FileInv
  <1>1. /\ id # Mistyped /\ expires[id] = 0 /\ expires'[id] # 0
        /\ \A other \in Ids \ {id} : expires'[other] = expires[other]
        /\ files' = files \cup {id}
        /\ UNCHANGED <<handedOut, released>>
    BY <1>0, FileConfigAssumption DEF Create, TypeOK
  <1>2. /\ req'[c].at = "visibility" /\ req'[c].id = id
        /\ \A d \in Clients \ {c} : req'[d] = req[d]
    BY <1>0 DEF Create, Request, TypeOK
  <1>3. id \notin files /\ id \notin handedOut /\ released[id] = 0
    BY <1>1 DEF FileInv, Untouched
  <1>4. \A d \in Clients : Creating(d) => req[d].id # id
    BY <1>1 DEF FileInv, Unknown
  <1>5. Untouched' /\ ReadOnce' /\ expires'[Mistyped] = 0
    BY <1>1, <1>3, FileConfigAssumption DEF FileInv, Untouched, ReadOnce
  <1>6. Unknown'
    BY <1>0, <1>1, <1>2, <1>3, <1>4, RequestTypes DEF FileInv, Unknown, Creating
  <1>7. SoleCreator'
    BY <1>2, <1>4 DEF FileInv, SoleCreator, Creating
  <1>8. FollowsLink'
    BY <1>1, <1>2 DEF FileInv, FollowsLink, Opening, Links
  <1> QED BY <1>0, <1>5, <1>6, <1>7, <1>8 DEF FileInv

LEMMA ReplyNext ==
  ASSUME FileInv, [Next]_vars, NEW c \in Clients, Reply(c)
  PROVE  FileInv'
  <1> USE DEF bounds, history
  <1>0. TypeOK /\ TypeOK' /\ req[c].id \in Ids
    BY TypeNext, RequestTypes DEF FileInv
  <1>1. /\ Creating(c) /\ req'[c].at = "idle"
        /\ \A d \in Clients \ {c} : req'[d] = req[d]
        /\ handedOut' = handedOut \cup {req[c].id}
        /\ UNCHANGED <<expires, files, released>>
    BY <1>0, FinishEffect DEF Reply, Creating
  <1>2. expires[req[c].id] # 0 /\ req[c].id \notin handedOut
    BY <1>1 DEF FileInv, Unknown
  <1>3. Untouched' /\ ReadOnce' /\ expires'[Mistyped] = 0
    BY <1>1, <1>2 DEF FileInv, Untouched, ReadOnce
  <1>4. Unknown' /\ SoleCreator'
    BY <1>1 DEF FileInv, Unknown, SoleCreator, Creating
  <1>5. FollowsLink'
    BY <1>1 DEF FileInv, FollowsLink, Opening, Links
  <1> QED BY <1>0, <1>3, <1>4, <1>5 DEF FileInv

\* A burn that finds a file serves a link somebody was given.
LEMMA BurnServesLink ==
  ASSUME FileInv, NEW c \in Clients, Burn(c), req[c].id \in files
  PROVE  req[c].id \in handedOut /\ req[c].id \in Ids
  <1>1. req[c].id \in Links /\ req[c].id \in Ids
    BY RequestTypes DEF Burn, FileInv, FollowsLink, Opening
  <1> QED BY <1>1, FileConfigAssumption DEF FileInv, Untouched, Links

LEMMA BurnNext ==
  ASSUME FileInv, [Next]_vars, NEW c \in Clients, Burn(c), ~Lossy
  PROVE  FileInv'
  <1> USE DEF bounds, history
  <1> DEFINE id == req[c].id
  <1>0. TypeOK /\ TypeOK'
    BY TypeNext DEF FileInv
  <1>1. /\ id \in files /\ files' = files \ {id}
        /\ released' = [released EXCEPT ![id] = @ + 1]
        /\ UNCHANGED <<expires, handedOut>>
    BY <1>0 DEF Burn, Lossy, TypeOK
  <1>2. id \in handedOut /\ id \in Ids
    BY <1>1, BurnServesLink
  <1>3. \A other \in Ids \ {id} : released'[other] = released[other]
    BY <1>0, <1>1 DEF TypeOK
  <1>4. \A d \in Clients : /\ Creating(d)' => Creating(d) /\ req'[d].id = req[d].id
                           /\ Opening(d)' => req'[d].id \in Links
    <2>1. ASSUME NEW d \in Clients, NEW other \in Ids, NEW private \in BOOLEAN,
                 NEW ttl \in 1..MaxTTL, Create(d, other, private, ttl)
          PROVE  FALSE
      BY <1>1, <1>2, <2>1 DEF Create
    <2> QED BY <2>1, RequestsInFlight
  <1>5. Untouched' /\ ReadOnce' /\ expires'[Mistyped] = 0
    BY <1>0, <1>1, <1>2, <1>3 DEF FileInv, Untouched, ReadOnce, TypeOK
  <1>6. Unknown' /\ SoleCreator'
    BY <1>0, <1>1, <1>2, <1>3, <1>4, RequestTypes DEF FileInv, Unknown, SoleCreator
  <1>7. FollowsLink'
    BY <1>1, <1>4 DEF FollowsLink, Links
  <1> QED BY <1>0, <1>5, <1>6, <1>7 DEF FileInv

LEMMA FileNext == FileInv /\ [Next]_vars => FileInv'
  BY StepKinds, LossyNext, CreateNext, ReplyNext, BurnNext DEF FileInv

\* The inductive invariant holds in every reachable state.
THEOREM FileInvariant == Spec => []FileInv
  BY FileInit, FileNext, PTL DEF Spec

\* Every variable keeps its type. In particular no file is ever read twice.
THEOREM FileTypes == Spec => []TypeOK
  <1>1. FileInv => TypeOK
    BY DEF FileInv
  <1> QED BY <1>1, FileInvariant, PTL

-----------------------------------------------------------------------------
(* What takes a file out of its bucket.                                     *)

\* The one release: a burn that found a live file.
LEMMA OnlyBurnReleases ==
  ASSUME FileInv, [Next]_vars, NEW id \in Ids, released'[id] > released[id]
  PROVE  \E d \in Clients : Burn(d) /\ req[d].id = id /\ id \in files /\ ~Expired(id)
  <1> USE DEF bounds, history
  <1>0. TypeOK /\ released[id] \in Nat
    BY DEF FileInv, TypeOK
  <1>1. ASSUME released' = released PROVE FALSE
    BY <1>0, <1>1
  <1>2. PICK d \in Clients : Burn(d)
    BY <1>0, <1>1, StepKinds DEF Lossy, Create, Reply
  <1> QED BY <1>0, <1>1, <1>2 DEF Burn, TypeOK

\* A live file leaves its bucket only into the hands of one caller.
THEOREM OnlyRevealsTakeLiveFiles == Spec => LiveFileLeavesOnlyByReveal
  <1> DEFINE Step == \A id \in files \ files' :
                       Expired(id) \/ \E c \in Clients : req[c].id = id /\ Reveals(c)
  <1>1. FileInv /\ [Next]_vars => Step
    <2> SUFFICES ASSUME FileInv, [Next]_vars, NEW id \in files \ files', ~Expired(id)
                 PROVE  \E c \in Clients : req[c].id = id /\ Reveals(c)
      OBVIOUS
    <2> USE DEF bounds, history
    <2>0. TypeOK /\ id \in Ids
      BY DEF FileInv, TypeOK
    <2>1. PICK c \in Clients : Burn(c)
      BY DEF Next, Requesting, Create, RecordVisibility, Reply, Arrive, DropVisibility,
             StoreError, FileSweep, VisibilitySweepNext, VisibilityList, VisibilityLookup,
             VisibilityDelete, VisibilitySweepError, Tick, Crash, vars
    <2>2. /\ req[c].id = id /\ req[c].at = "burn"
          /\ released' = [released EXCEPT ![id] = @ + 1] /\ GoTo(c, "drop")
      BY <2>1 DEF Burn
    <2>3. released'[id] > released[id]
      BY <2>0, <2>2 DEF TypeOK
    <2>4. req'[c].at = "drop"
      BY <2>0, <2>2, GoToEffect DEF Steps
    <2> QED BY <2>2, <2>3, <2>4 DEF Reveals
  <1> HIDE DEF Step
  <1>2. Spec => [][Step]_vars
    BY <1>1, FileInvariant, PTL DEF Spec
  <1> QED BY <1>2 DEF Step, LiveFileLeavesOnlyByReveal

-----------------------------------------------------------------------------
(* The mark of a private file.                                              *)

\* A stored private file has its mark, unless the sweeper took it.
MarkedOrSwept ==
  \A id \in guarded : /\ AuthEnabled /\ expires[id] # 0
                      /\ id \in files => id \in visibility \cup swept

\* The clean-up of a mark comes after the burn.
BurnedFirst == \A c \in Clients : req[c].at = "drop" => req[c].id \notin files

\* What the gate answered an anonymous caller is true until the burn.
OpenWhenAnonymous ==
  \A c \in Clients :
    /\ req[c].at = "burn" /\ ~req[c].session
    /\ req[c].id \in guarded \ swept
    => req[c].id \notin files

GuardInv == MarkedOrSwept /\ BurnedFirst /\ OpenWhenAnonymous

\* Nobody opens a link before its creator has it.
LEMMA OpenAfterReply ==
  ASSUME FileInv, NEW c \in Clients, NEW id \in Ids, id # Mistyped, id \notin handedOut
  PROVE  Opening(c) => req[c].id # id
  BY DEF FileInv, FollowsLink, Links

\* A step that stores no file, marks none and drops no mark of a stored file keeps
\* what is known of the requests that it leaves alone or ends.
LEMMA GuardKept ==
  ASSUME TypeOK, GuardInv, UNCHANGED <<expires, guarded>>,
         files' \subseteq files, swept \subseteq swept',
         \A id \in files' \cap visibility : id \in visibility' \cup swept',
         \A c \in Clients : \/ req'[c] = req[c]
                            \/ req'[c].at \notin {"burn", "drop"}
                            \/ req'[c].at = "drop" /\ req'[c].id \notin files'
                            \/ /\ req'[c].at = "burn"
                               /\ \/ req'[c].session
                                  \/ req'[c].id \notin guarded' \ swept'
                                  \/ req'[c].id \notin files'
  PROVE  GuardInv'
  <1>1. MarkedOrSwept'
    BY DEF GuardInv, MarkedOrSwept, TypeOK
  <1>2. BurnedFirst' /\ OpenWhenAnonymous'
    BY DEF GuardInv, BurnedFirst, OpenWhenAnonymous
  <1> QED BY <1>1, <1>2 DEF GuardInv

LEMMA GuardInit == Init => GuardInv
  BY DEF Init, GuardInv, MarkedOrSwept, BurnedFirst, OpenWhenAnonymous, Idle, Request

LEMMA GuardNext == FileInv /\ GuardInv /\ [Next]_vars => GuardInv'
  <1> SUFFICES ASSUME FileInv, GuardInv, [Next]_vars PROVE GuardInv'
    OBVIOUS
  <1> USE DEF bounds, history
  <1>0. TypeOK /\ guarded \subseteq Ids /\ files \subseteq Ids
    BY DEF FileInv, TypeOK
  \* A new file has no mark to lose, and nobody is opening it.
  <1>1. ASSUME NEW c \in Clients, NEW id \in Ids, NEW private \in BOOLEAN,
               NEW ttl \in 1..MaxTTL, Create(c, id, private, ttl)
        PROVE  GuardInv'
    <2>1. /\ id # Mistyped /\ expires[id] = 0 /\ files' = files \cup {id}
          /\ \A other \in Ids \ {id} : expires'[other] = expires[other]
          /\ UNCHANGED <<visibility, handedOut, guarded, swept>>
      BY <1>0, <1>1 DEF Create, TypeOK
    <2>2. id \notin guarded /\ id \notin handedOut
      BY <2>1 DEF GuardInv, MarkedOrSwept, FileInv, Untouched
    <2>3. /\ req'[c].at = "visibility"
          /\ \A d \in Clients \ {c} : req'[d] = req[d]
      BY <1>0, <1>1 DEF Create, Request, TypeOK
    <2>4. \A d \in Clients : Opening(d) => req[d].id # id
      BY <2>1, <2>2, OpenAfterReply
    <2>5. MarkedOrSwept'
      BY <1>0, <2>1, <2>2 DEF GuardInv, MarkedOrSwept
    <2>6. BurnedFirst' /\ OpenWhenAnonymous'
      BY <2>1, <2>3, <2>4 DEF GuardInv, BurnedFirst, OpenWhenAnonymous, Opening
    <2> QED BY <2>5, <2>6 DEF GuardInv
  \* The mark is there before anybody else has the link.
  <1>2. ASSUME NEW c \in Clients, RecordVisibility(c)
        PROVE  GuardInv'
    <2> DEFINE marked == IF AuthEnabled /\ req[c].private THEN {req[c].id} ELSE {}
    <2>1. /\ visibility' = visibility \cup marked /\ guarded' = guarded \cup marked
          /\ UNCHANGED <<expires, files, swept>> /\ req[c].at = "visibility"
      BY <1>2 DEF RecordVisibility
    <2>2. /\ req[c].id \in Ids /\ req[c].id \notin handedOut /\ expires[req[c].id] # 0
          /\ req[c].id # Mistyped
      BY <1>0, <2>1, RequestTypes DEF FileInv, Unknown, Creating
    <2>3. \A d \in Clients : Opening(d) => req[d].id # req[c].id
      BY <2>2, OpenAfterReply
    <2>4. req'[c].at = "reply" /\ \A d \in Clients \ {c} : req'[d] = req[d]
      BY <1>0, <1>2, GoToEffect DEF RecordVisibility, Steps
    <2>5. MarkedOrSwept'
      BY <2>1, <2>2 DEF GuardInv, MarkedOrSwept
    <2>6. BurnedFirst' /\ OpenWhenAnonymous'
      BY <2>1, <2>3, <2>4 DEF GuardInv, BurnedFirst, OpenWhenAnonymous, Opening
    <2> QED BY <2>5, <2>6 DEF GuardInv
  \* The gate lets an anonymous caller through if the mark is gone, and then the
  \* file is.
  <1>3. ASSUME NEW c \in Clients, NEW id \in Links, NEW session \in Sessions,
               Arrive(c, id, session)
        PROVE  GuardInv'
    <2>1. /\ req'[c].at = "burn" /\ req'[c].id = id /\ req'[c].session = session
          /\ \A d \in Clients \ {c} : req'[d] = req[d]
          /\ UNCHANGED <<expires, files, visibility, guarded, swept>>
      BY <1>0, <1>3 DEF Arrive, Request, TypeOK
    <2>2. session \/ id \notin guarded \ swept \/ id \notin files
      BY <1>3 DEF Arrive, MayOpen, GuardInv, MarkedOrSwept
    <2> QED BY <1>0, <2>1, <2>2, GuardKept
  <1>4. ASSUME NEW c \in Clients, Burn(c)
        PROVE  GuardInv'
    <2>1. /\ files' = files \ {req[c].id}
          /\ UNCHANGED <<expires, visibility, guarded, swept>>
          /\ GoTo(c, "drop") \/ Finish(c)
      BY <1>4 DEF Burn
    <2>2. /\ \/ req'[c].at = "idle"
             \/ req'[c].at = "drop" /\ req'[c].id = req[c].id
          /\ \A d \in Clients \ {c} : req'[d] = req[d]
      BY <1>0, <2>1, GoToEffect, FinishEffect DEF Steps
    <2> QED BY <1>0, <2>1, <2>2, GuardKept
  <1>5. ASSUME NEW c \in Clients, DropVisibility(c)
        PROVE  GuardInv'
    <2>1. req[c].id \notin files
      BY <1>5 DEF DropVisibility, GuardInv, BurnedFirst
    <2>2. req'[c].at = "idle" /\ \A d \in Clients \ {c} : req'[d] = req[d]
      BY <1>0, <1>5, FinishEffect DEF DropVisibility
    <2> QED BY <1>0, <1>5, <2>1, <2>2, GuardKept DEF DropVisibility
  <1>6. ASSUME NEW c \in Clients, Reply(c) \/ StoreError(c)
        PROVE  GuardInv'
    <2>1. /\ req'[c].at \in {"reply", "idle"}
          /\ \A d \in Clients \ {c} : req'[d] = req[d]
      BY <1>0, <1>6, GoToEffect, FinishEffect DEF Reply, StoreError, Steps
    <2>2. UNCHANGED <<expires, files, visibility, guarded, swept>>
      BY <1>6 DEF Reply, StoreError
    <2> QED BY <1>0, <2>1, <2>2, GuardKept
  <1>7. CASE FileSweep \/ VisibilitySweepNext \/ VisibilitySweepError \/ Tick \/ UNCHANGED vars
    <2>1. /\ UNCHANGED <<expires, guarded, req>> /\ files' \subseteq files
          /\ \/ UNCHANGED <<visibility, swept>>
             \/ /\ visibility' = visibility \ visSweep.gone
                /\ swept' = swept \cup visSweep.gone
      BY <1>7 DEF FileSweep, VisibilitySweepNext, VisibilityList, VisibilityLookup,
                  VisibilityDelete, VisibilitySweepError, Tick, vars
    <2> QED BY <1>0, <2>1, GuardKept
  <1>8. CASE Crash
    <2>1. \A c \in Clients : req'[c].at = "idle"
      BY <1>8 DEF Crash, Idle, Request
    <2> QED BY <1>0, <1>8, <2>1, GuardKept DEF Crash
  <1> QED
    BY <1>1, <1>2, <1>3, <1>4, <1>5, <1>6, <1>7, <1>8 DEF Next, Requesting

\* The inductive invariant of the mark holds in every reachable state.
THEOREM GuardInvariant == Spec => []GuardInv
  BY FileInvariant, GuardInit, GuardNext, PTL DEF Spec

\* Unless the visibility sweeper took its mark, a private file goes to callers with
\* a session only: whatever interleaves, crashes or fails (middleware.go:68-70).
THEOREM GuardHolds == Spec => GuardedUnlessSwept
  <1> DEFINE Step == \A c \in Clients :
                       Reveals(c) /\ req[c].id \in guarded \ swept => req[c].session
  <1>1. FileInv /\ GuardInv /\ [Next]_vars => Step
    <2> SUFFICES ASSUME FileInv, GuardInv, [Next]_vars, NEW c \in Clients, Reveals(c),
                        req[c].id \in guarded \ swept
                 PROVE  req[c].session
      OBVIOUS
    <2>1. req[c].at = "burn" /\ req[c].id \in Ids
      BY RequestTypes DEF Reveals, FileInv
    <2>2. req[c].id \in files
      BY <2>1, OnlyBurnReleases DEF Reveals
    <2> QED BY <2>1, <2>2 DEF GuardInv, OpenWhenAnonymous
  <1> HIDE DEF Step
  <1>2. Spec => [][Step]_vars
    BY <1>1, FileInvariant, GuardInvariant, PTL DEF Spec
  <1> QED BY <1>2 DEF Step, GuardedUnlessSwept

-----------------------------------------------------------------------------
(* Refinement: one view per link.                                           *)

\* Losing a file, or reaching its expiry, forfeits its view.
LEMMA LossyForfeits ==
  ASSUME FileInv, [Next]_vars, Lossy
  PROVE  Budget!Forfeit
  <1>1. ASSUME NEW id \in Ids, Expired(id) PROVE Expired(id)'
    <2>1. TypeOK /\ TypeOK'
      BY TypeNext DEF FileInv
    <2> QED BY <1>1, <2>1 DEF Lossy, Expired, TypeOK
  <1> QED BY <1>1 DEF Lossy, Budget!Forfeit, OfferedViews, LeftViews

LEMMA FileRefinement ==
  FileInv /\ [Next]_vars => [Budget!Next]_<<OfferedViews, LeftViews, released>>
  <1> SUFFICES ASSUME FileInv, [Next]_vars
               PROVE  [Budget!Next]_<<OfferedViews, LeftViews, released>>
    OBVIOUS
  <1> USE DEF bounds, history
  <1>0. TypeOK
    BY DEF FileInv
  <1>1. CASE Lossy
    BY <1>1, LossyForfeits DEF Budget!Next
  <1>2. ASSUME NEW c \in Clients, NEW id \in Ids, NEW private \in BOOLEAN,
               NEW ttl \in 1..MaxTTL, Create(c, id, private, ttl)
        PROVE  UNCHANGED <<OfferedViews, LeftViews, released>>
    <2>1. id \notin handedOut
      BY <1>2 DEF Create, FileInv, Untouched
    <2>2. \A other \in Ids \ {id} : expires'[other] = expires[other]
      BY <1>0, <1>2 DEF Create, TypeOK
    <2> QED BY <1>2, <2>1, <2>2 DEF Create, OfferedViews, LeftViews, Expired
  <1>3. ASSUME NEW c \in Clients, Reply(c)
        PROVE  Budget!Next
    <2> DEFINE id == req[c].id
    <2>1. id \in Ids /\ id \notin handedOut
      BY <1>0, <1>3, RequestTypes DEF Reply, FileInv, Unknown, Creating
    <2>2. handedOut' = handedOut \cup {id} /\ UNCHANGED <<files, released, now, expires>>
      BY <1>3 DEF Reply
    <2>3. OfferedViews[id] = 0 /\ OfferedViews' = [OfferedViews EXCEPT ![id] = 1]
      BY <2>1, <2>2 DEF OfferedViews
    <2>4. LeftViews' \in [Ids -> 0..1] /\ LeftViews'[id] <= 1
      BY <2>1 DEF LeftViews
    <2>5. \A other \in Ids \ {id} : LeftViews'[other] = LeftViews[other]
      BY <2>2 DEF LeftViews, Expired
    <2> HIDE DEF id
    <2>6. Budget!HandOut(id, 1)
      BY <2>2, <2>3, <2>4, <2>5 DEF Budget!HandOut
    <2> QED BY <2>1, <2>6 DEF Budget!Next
  <1>4. ASSUME NEW c \in Clients, Burn(c), ~Lossy
        PROVE  Budget!Next
    <2> DEFINE id == req[c].id
    <2>1. /\ id \in files /\ ~Expired(id) /\ files' = files \ {id}
          /\ released' = [released EXCEPT ![id] = @ + 1]
          /\ UNCHANGED <<expires, handedOut, now>>
      BY <1>0, <1>4 DEF Burn, Lossy, TypeOK
    <2>2. id \in handedOut /\ id \in Ids
      BY <1>4, <2>1, BurnServesLink
    <2>3. LeftViews[id] = 1 /\ LeftViews' = [LeftViews EXCEPT ![id] = @ - 1]
      BY <2>1, <2>2 DEF LeftViews, Expired
    <2>4. OfferedViews' = OfferedViews
      BY <2>1 DEF OfferedViews
    <2> HIDE DEF id
    <2>5. Budget!Release(id)
      BY <2>1, <2>3, <2>4 DEF Budget!Release
    <2> QED BY <2>2, <2>5 DEF Budget!Next
  <1> QED BY <1>0, <1>1, <1>2, <1>3, <1>4, StepKinds

\* Files implement the view budget with one view per link, which ends at the expiry.
THEOREM Refinement == Spec => ImplementsViewBudget
  <1>1. Init => Budget!Init
    BY DEF Init, Budget!Init, OfferedViews, LeftViews
  <1> QED
    BY <1>1, FileInvariant, FileRefinement, PTL
       DEF Spec, ImplementsViewBudget, Budget!Spec, Budget!budgetVars

=============================================================================
