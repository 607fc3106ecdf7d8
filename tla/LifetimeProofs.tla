---------------------------- MODULE LifetimeProofs ----------------------------
(***************************************************************************)
(* Proofs about when a secret may go, and when it may still be read: what  *)
(* a step does to the buckets is stated once per bucket, and one invariant *)
(* says what every request in flight knows of its secret's expiry.         *)
(***************************************************************************)
EXTENDS SecretShareProofs

-----------------------------------------------------------------------------
(* What any step may do to the clock, to an id and to its two records.      *)

\* An id somebody knows: minted, or the one that never will be.
Known(id) == minted[id].views # 0 \/ id = Mistyped

\* The clock never goes back, and what was asked for a known id never changes.
LEMMA KnownIsFixed ==
  ASSUME BudgetInv, [Next]_vars, NEW id \in Ids, Known(id)
  PROVE  now \in Nat /\ now' \in Nat /\ now <= now' /\ minted'[id] = minted[id]
  <1> USE DEF buckets, sweepers, bounds, history
  <1>0. TypeOK
    BY DEF BudgetInv
  <1>1. now \in Nat /\ now + 1 \in Nat
    BY <1>0, ConfigAssumption DEF TypeOK
  <1>2. now' = now \/ now' = now + 1
    BY DEF Next, CreateNext, OpenNext, VisibilitySweepNext, ViewsSweepNext, Create,
           RecordViews, RecordVisibility, Reply, Arrive, Lookup, MetaReap, Annotate,
           ServeView, PassToReveal, Peek, Reap, Burn, BurnNothing, DropVisibility,
           StoreError, SecretSweep, VisibilityList, VisibilityLookup, VisibilityDelete,
           ViewsList, ViewsLookup, ViewsDelete, VisibilitySweepError, ViewsSweepError,
           Tick, Crash, vars
  <1>3. CASE Lossy
    BY <1>1, <1>2, <1>3 DEF Lossy
  <1>4. ASSUME NEW c \in Clients, NEW other \in Ids, NEW n \in 1..Ceiling,
               NEW private \in BOOLEAN, NEW ttl \in Lifetimes,
               Create(c, other, n, private, ttl)
        PROVE  minted'[id] = minted[id]
    BY <1>0, <1>4 DEF Create, Known, Unminted, TypeOK
  <1>5. ASSUME NEW c \in Clients, RecordViews(c) \/ Reply(c) \/ ServeView(c) \/ Burn(c)
        PROVE  minted' = minted
    BY <1>5 DEF RecordViews, Reply, ServeView, Burn
  <1> QED BY <1>0, <1>1, <1>2, <1>3, <1>4, <1>5, StepKinds

\* A known id that has expired stays expired.
LEMMA ExpiryIsFinal ==
  ASSUME BudgetInv, [Next]_vars, NEW id \in Ids, Known(id), Expired(id)
  PROVE  Expired(id)'
  <1>1. /\ now \in Nat /\ now' \in Nat /\ now <= now'
        /\ minted'[id] = minted[id]
    BY KnownIsFixed
  <1>2. minted[id].expires \in Int
    BY ConfigAssumption DEF BudgetInv, TypeOK, Shares
  <1> QED BY <1>1, <1>2 DEF Expired

\* Nothing is stored under a known id a second time.
LEMMA KnownNeverReturns ==
  ASSUME BudgetInv, [Next]_vars, NEW id \in Ids, Known(id), id \in secrets'
  PROVE  id \in secrets
  <1> USE DEF buckets, sweepers, bounds, history
  <1>0. TypeOK
    BY DEF BudgetInv
  <1>1. ASSUME NEW c \in Clients, NEW other \in Ids, NEW n \in 1..Ceiling,
               NEW private \in BOOLEAN, NEW ttl \in Lifetimes,
               Create(c, other, n, private, ttl)
        PROVE  id \in secrets
    BY <1>1 DEF Create, Known, Unminted
  <1> QED
    BY <1>0, <1>1, StepKinds DEF Lossy, RecordViews, Reply, ServeView, Burn

\* Views are only ever added to an id by the request that creates it.
LEMMA ViewsOnlyFromCreator ==
  ASSUME BudgetInv, [Next]_vars, NEW id \in Ids,
         \A c \in Clients : req[c].at = "views" => req[c].id # id
  PROVE  views'[id] <= views[id]
  <1> USE DEF buckets, sweepers, bounds, history
  <1>0. TypeOK /\ views[id] \in Nat
    BY BudgetTypes DEF BudgetInv
  <1>1. ASSUME NEW c \in Clients, RecordViews(c)
        PROVE  views'[id] <= views[id]
    BY <1>0, <1>1, BudgetTypes DEF RecordViews, TypeOK
  <1>2. ASSUME NEW c \in Clients, ServeView(c)
        PROVE  views'[id] <= views[id]
    BY <1>0, <1>2, BudgetTypes DEF ServeView, TypeOK
  <1>3. ASSUME NEW c \in Clients, NEW other \in Ids, NEW n \in 1..Ceiling,
               NEW private \in BOOLEAN, NEW ttl \in Lifetimes,
               Create(c, other, n, private, ttl)
        PROVE  views'[id] <= views[id]
    BY <1>0, <1>3 DEF Create
  <1>4. ASSUME NEW c \in Clients, Reply(c) \/ Burn(c)
        PROVE  views'[id] <= views[id]
    BY <1>0, <1>4 DEF Reply, Burn
  <1>5. CASE Lossy
    BY <1>5 DEF Lossy
  <1> QED
    BY <1>0, <1>1, <1>2, <1>3, <1>4, <1>5, StepKinds

-----------------------------------------------------------------------------
(* What a request in flight knows. Each conjunct is the reason why a later  *)
(* transaction of a handler may rely on an earlier one.                     *)

\* Between Consume and GetAndBurn no view of the budget is left.
LastView(c) ==
  req[c].at \in {"peek", "burn"} => views[req[c].id] = 0

\* What a lazy delete is about to remove has expired.
ReapsExpired(c) ==
  req[c].at \in {"metaReap", "reap"} => Expired(req[c].id)

\* A request that arrived late is still late, and if it gets as far as the burn
\* there is nothing left to burn.
StillLate(c) ==
  /\ Opening(c) /\ req[c].late => Expired(req[c].id)
  /\ req[c].at = "burn" /\ req[c].late => req[c].id \notin secrets

\* A secret outlives its create request, unless it expires first.
StoredMeanwhile(c) ==
  Creating(c) => req[c].id \in secrets \/ Expired(req[c].id)

InFlight(c) == LastView(c) /\ ReapsExpired(c) /\ StillLate(c) /\ StoredMeanwhile(c)

LifeInv ==
  /\ BudgetInv
  /\ \A c \in Clients : InFlight(c)
  /\ NoViewsCutShort

LEMMA LifeInit == Init => LifeInv
  <1> SUFFICES ASSUME Init PROVE LifeInv
    OBVIOUS
  <1>1. \A c \in Clients : req[c].at = "idle"
    BY DEF Init, Idle, Request
  <1>2. \A c \in Clients : InFlight(c)
    BY <1>1 DEF InFlight, LastView, ReapsExpired, StillLate, StoredMeanwhile, Opening,
                Creating, CreateSteps, MetaSteps, RevealSteps
  <1>3. NoViewsCutShort
    BY DEF Init, NoViewsCutShort
  <1> QED BY <1>2, <1>3, BudgetInit DEF LifeInv

\* Whoever holds an id in a request knows it.
LEMMA InFlightIsKnown ==
  ASSUME BudgetInv, NEW c \in Clients, Opening(c) \/ Creating(c)
  PROVE  /\ req[c].id \in Ids /\ Known(req[c].id)
         /\ Opening(c) => \A d \in Clients : Creating(d) => req[d].id # req[c].id
  BY BudgetTypes DEF BudgetInv, FollowsLink, Links, Unknown, Untouched, Known

\* A stored secret goes by being burned, or after it has expired.
LEMMA HowASecretGoes ==
  ASSUME LifeInv, [Next]_vars, NEW id \in secrets \ secrets'
  PROVE  \/ Expired(id)
         \/ \E c \in Clients : req[c].id = id /\ Burn(c)
  <1> USE DEF buckets, sweepers, bounds, history
  <1>0. TypeOK
    BY DEF LifeInv, BudgetInv
  <1>1. ASSUME NEW c \in Clients, MetaReap(c) \/ Reap(c)
        PROVE  Expired(id)
    BY <1>1 DEF MetaReap, Reap, LifeInv, InFlight, ReapsExpired
  <1>2. CASE SecretSweep
    BY <1>2 DEF SecretSweep
  <1>3. ASSUME NEW c \in Clients, Burn(c)
        PROVE  req[c].id = id
    BY <1>3 DEF Burn
  <1>4. ASSUME \A c \in Clients : ~MetaReap(c) /\ ~Reap(c) /\ ~Burn(c), ~SecretSweep
        PROVE  FALSE
    BY <1>0, <1>4
       DEF Next, CreateNext, OpenNext, VisibilitySweepNext, ViewsSweepNext, Create,
           RecordViews, RecordVisibility, Reply, Arrive, Lookup, Annotate, ServeView,
           PassToReveal, Peek, BurnNothing, DropVisibility, StoreError, VisibilityList,
           VisibilityLookup, VisibilityDelete, ViewsList, ViewsLookup, ViewsDelete,
           VisibilitySweepError, ViewsSweepError, Tick, Crash, vars
  <1> QED BY <1>1, <1>2, <1>3, <1>4

\* A step of somebody else takes nothing from what a request knows.
LEMMA OthersAreHarmless ==
  ASSUME LifeInv, [Next]_vars, NEW d \in Clients, req'[d] = req[d]
  PROVE  InFlight(d)'
  <1> DEFINE id == req[d].id
  <1>0. BudgetInv /\ InFlight(d) /\ TypeOK
    BY DEF LifeInv, BudgetInv
  <1>1. CASE Opening(d)
    <2>1. /\ id \in Ids /\ Known(id)
          /\ \A c \in Clients : Creating(c) => req[c].id # id
      BY <1>0, <1>1, InFlightIsKnown
    <2>2. \A c \in Clients : req[c].at = "views" => req[c].id # id
      BY <2>1 DEF Creating, CreateSteps
    <2>3. /\ views[id] \in Nat /\ views'[id] \in Nat /\ views'[id] <= views[id]
      BY <1>0, <2>1, <2>2, ViewsOnlyFromCreator, BudgetTypes, TypeNext, CeilingType
         DEF TypeOK
    <2>4. Expired(id) => Expired(id)'
      BY <1>0, <2>1, ExpiryIsFinal
    <2>5. id \in secrets' => id \in secrets
      BY <1>0, <2>1, KnownNeverReturns
    <2>6. ~Creating(d) /\ ~Creating(d)'
      BY <1>1 DEF Creating, Opening, CreateSteps, MetaSteps, RevealSteps
    <2>7. \A b : b = req[d].id /\ Expired(b)' => Expired(req[d].id)'
      BY DEF Expired
    <2> QED
      BY <1>0, <1>1, <2>3, <2>4, <2>5, <2>6, <2>7
         DEF InFlight, LastView, ReapsExpired, StillLate, StoredMeanwhile, Opening, Expired
  <1>2. CASE Creating(d)
    <2>1. id \in Ids /\ Known(id)
      BY <1>0, <1>2, InFlightIsKnown
    <2>2. id \in secrets => id \in secrets' \/ Expired(id)
      <3>1. ASSUME NEW c \in Clients, Burn(c) PROVE req[c].id # id
        BY <1>0, <1>2, <3>1, OpenedAreKnown DEF Burn, Opening, RevealSteps
      <3> QED BY <3>1, HowASecretGoes
    <2>3. Expired(id) => Expired(id)'
      BY <1>0, <2>1, ExpiryIsFinal
    <2>4. req'[d].at \in CreateSteps
      BY <1>2 DEF Creating
    <2> QED
      BY <1>0, <1>2, <2>2, <2>3, <2>4
         DEF InFlight, LastView, ReapsExpired, StillLate, StoredMeanwhile, Opening,
             Creating, CreateSteps, MetaSteps, RevealSteps, Expired
  <1>3. CASE ~Opening(d) /\ ~Creating(d)
    BY <1>3 DEF InFlight, LastView, ReapsExpired, StillLate, StoredMeanwhile, Opening,
                Creating, CreateSteps, MetaSteps, RevealSteps
  <1> QED BY <1>1, <1>2, <1>3

\* A request that starts, moves on or ends knows what it should.
LEMMA StartsAndEnds ==
  ASSUME NEW c \in Clients, req'[c].at \in {"idle", "lookup", "consume"},
         req'[c].late => Expired(req[c].id)' \/ req'[c].at = "idle"
  PROVE  InFlight(c)'
  BY DEF InFlight, LastView, ReapsExpired, StillLate, StoredMeanwhile, Opening, Creating,
         CreateSteps, MetaSteps, RevealSteps

\* Create: what was just stored is stored.
LEMMA CreatorMovesOn ==
  ASSUME LifeInv, [Next]_vars, NEW c \in Clients, CreateNext(c)
  PROVE  InFlight(c)'
  <1> USE DEF buckets, sweepers, bounds, history
  <1>0. TypeOK /\ BudgetInv
    BY DEF LifeInv, BudgetInv
  <1> DEFINE OnlyCreating == /\ req'[c].at \in CreateSteps
                             /\ req'[c].id \in secrets' \/ Expired(req[c].id)'
  <1>1. CASE OnlyCreating
    BY <1>1 DEF InFlight, LastView, ReapsExpired, StillLate, StoredMeanwhile, Opening,
                Creating, CreateSteps, MetaSteps, RevealSteps
  <1>2. ASSUME NEW id \in Ids, NEW n \in 1..Ceiling, NEW private \in BOOLEAN,
               NEW ttl \in Lifetimes, Create(c, id, n, private, ttl)
        PROVE  OnlyCreating
    BY <1>0, <1>2 DEF Create, Request, TypeOK, CreateSteps
  <1>3. CASE RecordViews(c) \/ RecordVisibility(c)
    <2>1. /\ req'[c].at \in CreateSteps /\ req'[c].id = req[c].id /\ Creating(c)
          /\ UNCHANGED <<secrets, now, minted>>
      BY <1>0, <1>3, GoToEffect
         DEF RecordViews, RecordVisibility, Creating, CreateSteps
    <2>2. req[c].id \in secrets \/ Expired(req[c].id)
      BY <2>1 DEF LifeInv, InFlight, StoredMeanwhile
    <2>3. OnlyCreating
      BY <2>1, <2>2 DEF Expired
    <2> QED BY <1>1, <2>3
  <1>4. CASE Reply(c)
    BY <1>0, <1>4, FinishEffect, StartsAndEnds DEF Reply, Idle, Request
  <1> QED BY <1>1, <1>2, <1>3, <1>4 DEF CreateNext

\* Opening: each transaction hands on what the next one relies on.
LEMMA OpenerMovesOn ==
  ASSUME LifeInv, [Next]_vars, NEW c \in Clients, OpenNext(c)
  PROVE  InFlight(c)'
  <1> USE DEF buckets, sweepers, bounds, history
  <1>0. TypeOK /\ BudgetInv /\ InFlight(c) /\ req[c].id \in Ids /\ req[c] \in Requests
    BY BudgetTypes DEF LifeInv, BudgetInv
  <1>1. ASSUME NEW id \in Links, NEW session \in Sessions,
               NEW step \in {"lookup", "consume"}, Arrive(c, id, session, step)
        PROVE  InFlight(c)'
    <2>1. /\ req'[c].at = step /\ req'[c].id = id /\ req'[c].late = Expired(id)
          /\ UNCHANGED <<now, minted>>
      BY <1>0, <1>1 DEF Arrive, Request, TypeOK
    <2> QED BY <2>1, StartsAndEnds DEF Expired
  <1>2. CASE Lookup(c)
    <2>1. /\ req'[c].id = req[c].id /\ req'[c].late = req[c].late /\ Opening(c)
          /\ \/ req'[c].at = "annotate"
             \/ req'[c].at = "metaReap" /\ Expired(req[c].id)
          /\ UNCHANGED <<now, minted>>
      BY <1>0, <1>2 DEF Lookup, TypeOK, Requests, Opening, MetaSteps
    <2> QED
      BY <1>0, <2>1
         DEF InFlight, LastView, ReapsExpired, StillLate, StoredMeanwhile, Creating,
             CreateSteps, Expired
  <1>3. CASE MetaReap(c)
    <2>1. /\ req'[c].id = req[c].id /\ req'[c].late = req[c].late /\ Opening(c)
          /\ req'[c].at = "annotate" /\ UNCHANGED <<now, minted>>
      BY <1>0, <1>3 DEF MetaReap, GoTo, TypeOK, Requests, Opening, MetaSteps
    <2> QED
      BY <1>0, <2>1
         DEF InFlight, LastView, ReapsExpired, StillLate, StoredMeanwhile, Creating,
             CreateSteps, Expired
  <1>4. CASE Annotate(c) \/ ServeView(c) \/ Reap(c) \/ BurnNothing(c) \/ DropVisibility(c)
    BY <1>0, <1>4, FinishEffect, StartsAndEnds
       DEF Annotate, ServeView, Reap, BurnNothing, DropVisibility, Idle, Request
  <1>5. CASE PassToReveal(c)
    <2>1. /\ req'[c].id = req[c].id /\ req'[c].late = req[c].late /\ Opening(c)
          /\ req'[c].at = "peek" /\ views'[req[c].id] = 0 /\ UNCHANGED <<now, minted>>
      BY <1>0, <1>5 DEF PassToReveal, GoTo, TypeOK, Requests, Opening, RevealSteps
    <2> QED
      BY <1>0, <2>1
         DEF InFlight, LastView, ReapsExpired, StillLate, StoredMeanwhile, Creating,
             CreateSteps, Expired
  <1>6. CASE Peek(c)
    <2>1. /\ req'[c].id = req[c].id /\ req'[c].late = req[c].late /\ Opening(c)
          /\ req[c].at = "peek"
          /\ \/ req'[c].at = "burn" /\ ~(req[c].id \in secrets /\ Expired(req[c].id))
             \/ req'[c].at = "reap" /\ Expired(req[c].id)
          /\ UNCHANGED <<now, minted, secrets, views>>
      BY <1>0, <1>6 DEF Peek, GoTo, TypeOK, Requests, Opening, RevealSteps
    <2> QED
      BY <1>0, <2>1
         DEF InFlight, LastView, ReapsExpired, StillLate, StoredMeanwhile, Creating,
             CreateSteps, Expired
  <1>7. CASE Burn(c)
    <2>1. /\ req'[c].id = req[c].id /\ req'[c].late = req[c].late /\ Opening(c)
          /\ req'[c].at = "drop" /\ UNCHANGED <<now, minted>>
      BY <1>0, <1>7 DEF Burn, GoTo, TypeOK, Requests, Opening, RevealSteps
    <2> QED
      BY <1>0, <2>1
         DEF InFlight, LastView, ReapsExpired, StillLate, StoredMeanwhile, Creating,
             CreateSteps, Expired
  <1> QED BY <1>1, <1>2, <1>3, <1>4, <1>5, <1>6, <1>7 DEF OpenNext

\* A failing transaction leaves a request on its error path, or ends it.
LEMMA FailureMovesOn ==
  ASSUME LifeInv, [Next]_vars, NEW c \in Clients, StoreError(c)
  PROVE  InFlight(c)'
  <1> USE DEF buckets, sweepers, bounds, history
  <1>0. TypeOK /\ BudgetInv /\ InFlight(c) /\ req[c] \in Requests
    BY BudgetTypes DEF LifeInv, BudgetInv
  <1>1. CASE AfterError(req[c].at) = "idle"
    <2>1. Finish(c)
      BY <1>1 DEF StoreError, Finish
    <2> QED BY <1>0, <2>1, FinishEffect, StartsAndEnds DEF Idle, Request
  <1>2. CASE AfterError(req[c].at) # "idle"
    <2>1. /\ req'[c].at = AfterError(req[c].at)
          /\ req'[c].id = req[c].id /\ req'[c].late = req[c].late
          /\ UNCHANGED <<now, minted, secrets>>
      BY <1>0, <1>2 DEF StoreError, TypeOK, Requests
    <2>2. \/ req'[c].at \in {"visibility", "reply"} /\ Creating(c)
          \/ req'[c].at = "annotate" /\ Opening(c)
      BY <1>2, <2>1 DEF AfterError, Creating, Opening, CreateSteps, MetaSteps
    <2> QED
      BY <1>0, <2>1, <2>2
         DEF InFlight, LastView, ReapsExpired, StillLate, StoredMeanwhile, Creating,
             Opening, CreateSteps, MetaSteps, RevealSteps, Expired
  <1> QED BY <1>1, <1>2

LEMMA InFlightNext ==
  ASSUME LifeInv, [Next]_vars, NEW d \in Clients
  PROVE  InFlight(d)'
  <1> USE DEF buckets, sweepers, bounds, history
  <1>0. TypeOK /\ BudgetInv
    BY DEF LifeInv, BudgetInv
  <1>1. CASE req'[d] = req[d]
    BY <1>1, OthersAreHarmless
  <1>2. CASE Crash
    BY <1>2, StartsAndEnds DEF Crash, Idle, Request
  <1>3. CASE CreateNext(d) \/ OpenNext(d) \/ StoreError(d)
    BY <1>3, CreatorMovesOn, OpenerMovesOn, FailureMovesOn
  <1>4. ASSUME NEW c \in Clients \ {d}, CreateNext(c) \/ OpenNext(c) \/ StoreError(c)
        PROVE  req'[d] = req[d]
    BY <1>0, <1>4
       DEF CreateNext, OpenNext, StoreError, Create, RecordViews, RecordVisibility, Reply,
           Arrive, Lookup, MetaReap, Annotate, ServeView, PassToReveal, Peek, Reap, Burn,
           BurnNothing, DropVisibility, GoTo, Finish, TypeOK
  <1>5. ASSUME \/ SecretSweep \/ VisibilitySweepNext \/ ViewsSweepNext
               \/ VisibilitySweepError \/ ViewsSweepError \/ Tick \/ UNCHANGED vars
        PROVE  req'[d] = req[d]
    BY <1>5 DEF SecretSweep, VisibilitySweepNext, VisibilityList, VisibilityLookup,
                VisibilityDelete, ViewsSweepNext, ViewsList, ViewsLookup, ViewsDelete,
                VisibilitySweepError, ViewsSweepError, Tick, vars
  <1> QED BY <1>1, <1>2, <1>3, <1>4, <1>5 DEF Next

LEMMA NotCutShortNext ==
  ASSUME LifeInv, [Next]_vars
  PROVE  NoViewsCutShort'
  <1> USE DEF buckets, sweepers, bounds, history
  <1>0. TypeOK /\ BudgetInv /\ TypeOK'
    BY TypeNext DEF LifeInv, BudgetInv
  <1> SUFFICES ASSUME NEW id \in Ids, views'[id] > 0, id \notin secrets'
               PROVE  Expired(id)'
    BY DEF NoViewsCutShort
  <1>1. views[id] \in Nat /\ views'[id] \in Nat
    BY <1>0, CeilingType DEF TypeOK
  <1>2. ASSUME NEW c \in Clients, RecordViews(c), req[c].id = id
        PROVE  Expired(id)'
    BY <1>2 DEF RecordViews, Creating, CreateSteps, LifeInv, InFlight, StoredMeanwhile,
                Expired
  <1>3. CASE views[id] > 0
    <2>1. Known(id)
      BY <1>0, <1>3 DEF Known, BudgetInv, Untouched
    <2>2. CASE id \notin secrets
      BY <1>0, <1>3, <2>1, <2>2, ExpiryIsFinal DEF LifeInv, NoViewsCutShort
    <2>3. ASSUME NEW c \in Clients, req[c].id = id, Burn(c)
          PROVE  FALSE
      BY <1>1, <2>3 DEF Burn, LifeInv, InFlight, LastView
    <2>4. CASE id \in secrets
      BY <1>0, <2>1, <2>3, <2>4, HowASecretGoes, ExpiryIsFinal
    <2> QED BY <2>2, <2>4
  <1>4. CASE views[id] = 0
    <2>1. ASSUME \A c \in Clients : ~(RecordViews(c) /\ req[c].id = id)
          PROVE  views'[id] <= views[id]
      <3>1. ASSUME NEW c \in Clients, RecordViews(c)
            PROVE  views'[id] = views[id]
        BY <1>0, <2>1, <3>1, BudgetTypes DEF RecordViews, TypeOK
      <3>2. ASSUME NEW c \in Clients, ServeView(c)
            PROVE  views'[id] <= views[id]
        BY <1>0, <1>1, <3>2, BudgetTypes DEF ServeView, TypeOK
      <3>3. ASSUME NEW c \in Clients, NEW other \in Ids, NEW n \in 1..Ceiling,
                   NEW private \in BOOLEAN, NEW ttl \in Lifetimes,
                   Create(c, other, n, private, ttl)
            PROVE  views'[id] <= views[id]
        BY <1>1, <3>3 DEF Create
      <3>4. ASSUME NEW c \in Clients, Reply(c) \/ Burn(c)
            PROVE  views'[id] <= views[id]
        BY <1>1, <3>4 DEF Reply, Burn
      <3>5. CASE Lossy
        BY <3>5 DEF Lossy
      <3> QED BY <1>0, <1>1, <3>1, <3>2, <3>3, <3>4, <3>5, StepKinds
    <2> QED BY <1>1, <1>2, <1>4, <2>1
  <1> QED BY <1>1, <1>3, <1>4

LEMMA LifeNext == LifeInv /\ [Next]_vars => LifeInv'
  <1> SUFFICES ASSUME LifeInv, [Next]_vars PROVE LifeInv'
    OBVIOUS
  <1>1. BudgetInv'
    BY BudgetNext DEF LifeInv
  <1> QED BY <1>1, InFlightNext, NotCutShortNext DEF LifeInv

\* Every request in flight is right about the expiry of its secret.
THEOREM LifeInvariant == Spec => []LifeInv
  BY LifeInit, LifeNext, PTL DEF Spec

\* While views remain recorded their secret is stored or has expired: Consume
\* takes the last view before GetAndBurn may run, and a create that records its
\* views late finds its secret gone only by expiry (multiview.go:14-19).
THEOREM ViewsNotCutShort == Spec => []NoViewsCutShort
  <1>1. LifeInv => NoViewsCutShort
    BY DEF LifeInv
  <1> QED BY <1>1, LifeInvariant, PTL

\* Burn is a release of the ciphertext.
LEMMA BurnReveals ==
  ASSUME TypeOK, NEW c \in Clients, Burn(c)
  PROVE  Reveals(c)
  <1>1. /\ req'[c].at = "drop" /\ req[c].at = "burn"
        /\ released[req[c].id] \in Nat
        /\ released'[req[c].id] = released[req[c].id] + 1
    BY BudgetTypes, GoToEffect DEF Burn, TypeOK
  <1> QED BY <1>1 DEF Reveals

\* A secret that has not expired leaves its bucket only into the hands of a
\* reveal: the lazy deletes of meta and reveal, which act on a lookup made in an
\* earlier transaction, never hit a live one (secrets/handler.go:73-90).
THEOREM OnlyRevealsTakeLiveSecrets == Spec => LiveSecretLeavesOnlyByReveal
  <1> DEFINE Step == \A id \in secrets \ secrets' :
                       Expired(id) \/ \E c \in Clients : req[c].id = id /\ Reveals(c)
  <1>1. LifeInv /\ [Next]_vars => Step
    BY HowASecretGoes, BurnReveals DEF LifeInv, BudgetInv
  <1> HIDE DEF Step
  <1>2. Spec => [][Step]_vars
    BY <1>1, LifeInvariant, PTL DEF Spec
  <1> QED BY <1>2 DEF Step, LiveSecretLeavesOnlyByReveal

\* A reveal that arrived after the expiry never burns: the peek sends it away
\* as long as the secret is stored, and once it is gone its id never comes back
\* (secrets/handler.go:98-104).
THEOREM LateNeverBurns == Spec => LateRevealNeverBurns
  <1> DEFINE Step == \A c \in Clients : Reveals(c) /\ req[c].at = "burn" => ~req[c].late
  <1>1. LifeInv /\ [Next]_vars => Step
    <2> SUFFICES ASSUME LifeInv, [Next]_vars, NEW c \in Clients, Reveals(c),
                        req[c].at = "burn", req[c].late
                 PROVE  FALSE
      OBVIOUS
    <2>0. TypeOK /\ BudgetInv /\ req[c].id \in Ids
      BY BudgetTypes DEF LifeInv, BudgetInv
    <2>1. req[c].id \notin secrets
      BY DEF LifeInv, InFlight, StillLate
    <2>2. released'[req[c].id] > released[req[c].id]
      BY DEF Reveals
    <2>3. released[req[c].id] \in Nat
      BY <2>0, BudgetTypes
    <2>4. PICK d \in Clients : ServeView(d) \/ Burn(d)
      <3>1. ASSUME released' = released PROVE FALSE
        BY <2>2, <2>3, <3>1
      <3> QED BY <2>0, <3>1, StepKinds
              DEF Lossy, Create, RecordViews, Reply, history, bounds, sweepers, buckets
    <2>5. req[d].id = req[c].id
      BY <2>0, <2>2, <2>3, <2>4 DEF ServeView, Burn, TypeOK
    <2>6. CASE ServeView(d)
      <3>1. req'[c] # req[c]
        BY DEF Reveals
      <3>2. d = c
        BY <2>0, <2>6, <3>1, FinishEffect DEF ServeView
      <3> QED BY <2>6, <3>2 DEF ServeView
    <2>7. CASE Burn(d)
      BY <2>1, <2>5, <2>7 DEF Burn
    <2> QED BY <2>4, <2>6, <2>7
  <1> HIDE DEF Step
  <1>2. Spec => [][Step]_vars
    BY <1>1, LifeInvariant, PTL DEF Spec
  <1> QED BY <1>2 DEF Step, LateRevealNeverBurns

-----------------------------------------------------------------------------
(* Handing out the link of a private secret.                                *)

\* As long as no transaction failed, a private secret's SetPrivate has committed
\* by the time its create request replies.
MarkedFirst ==
  AuthEnabled /\ errors = 0 =>
    /\ \A c \in Clients :
         req[c].at = "reply" /\ minted[req[c].id].private => req[c].id \in guarded
    /\ \A id \in handedOut : minted[id].private => id \in guarded

HandOutInv == MarkInv /\ MarkedFirst

LEMMA HandOutInit == Init => HandOutInv
  BY MarkInit DEF Init, HandOutInv, MarkedFirst, Idle, Request

\* The count of errors never goes down, and marks are never forgotten.
LEMMA ErrorsAndMarksGrow ==
  ASSUME TypeOK, [Next]_vars
  PROVE  /\ errors' = 0 => errors = 0 /\ \A c \in Clients : ~StoreError(c)
         /\ guarded \subseteq guarded'
  <1> USE DEF buckets, sweepers, bounds, history
  <1>1. errors \in Nat
    BY ConfigAssumption DEF TypeOK
  <1>2. errors' = errors \/ errors' = errors + 1
    BY DEF Next, CreateNext, OpenNext, VisibilitySweepNext, ViewsSweepNext, Create,
           RecordViews, RecordVisibility, Reply, Arrive, Lookup, MetaReap, Annotate,
           ServeView, PassToReveal, Peek, Reap, Burn, BurnNothing, DropVisibility,
           StoreError, SecretSweep, VisibilityList, VisibilityLookup, VisibilityDelete,
           ViewsList, ViewsLookup, ViewsDelete, VisibilitySweepError, ViewsSweepError,
           Tick, Crash, vars
  <1>3. errors' = 0 => errors = 0 /\ \A c \in Clients : ~StoreError(c)
    BY <1>1, <1>2 DEF StoreError
  <1>4. guarded' = guarded \/ \E c \in Clients : RecordVisibility(c)
    BY DEF Next, CreateNext, OpenNext, VisibilitySweepNext, ViewsSweepNext, Create,
           RecordViews, Reply, Arrive, Lookup, MetaReap, Annotate,
           ServeView, PassToReveal, Peek, Reap, Burn, BurnNothing, DropVisibility,
           StoreError, SecretSweep, VisibilityList, VisibilityLookup, VisibilityDelete,
           ViewsList, ViewsLookup, ViewsDelete, VisibilitySweepError, ViewsSweepError,
           Tick, Crash, vars
  <1>5. guarded \subseteq guarded'
    BY <1>4 DEF RecordVisibility
  <1> QED BY <1>3, <1>5

\* Only SetPrivate takes a create request to its reply, when nothing fails.
LEMMA RepliesAreMarked ==
  ASSUME HandOutInv, [Next]_vars, NEW d \in Clients, AuthEnabled, errors' = 0,
         req'[d].at = "reply", minted'[req'[d].id].private
  PROVE  req'[d].id \in guarded'
  <1> USE DEF buckets, sweepers, bounds, history
  <1>0. TypeOK /\ BudgetInv
    BY DEF HandOutInv, MarkInv, BudgetInv
  <1>1. /\ errors = 0 /\ guarded \subseteq guarded'
        /\ \A c \in Clients : ~StoreError(c)
    BY <1>0, ErrorsAndMarksGrow
  <1>2. CASE req'[d] = req[d]
    <2>1. minted'[req[d].id] = minted[req[d].id]
      BY <1>0, <1>2, InFlightIsKnown, KnownIsFixed DEF Creating, CreateSteps
    <2> QED BY <1>1, <1>2, <2>1 DEF HandOutInv, MarkedFirst
  <1>3. CASE RecordVisibility(d)
    <2>1. req'[d].id = req[d].id /\ minted' = minted
      BY <1>0, <1>3, GoToEffect DEF RecordVisibility
    <2>2. minted[req[d].id].private
      BY <2>1
    <2> QED BY <1>3, <2>1, <2>2 DEF RecordVisibility
  <1>4. CASE CreateNext(d) /\ ~RecordVisibility(d)
    BY <1>0, <1>4, GoToEffect, FinishEffect
       DEF CreateNext, Create, RecordViews, Reply, Request, Idle, TypeOK
  <1>5. CASE OpenNext(d)
    <2>1. ASSUME Lookup(d)
          PROVE  req'[d].at # "reply"
      BY <1>0, <2>1, BudgetTypes DEF Lookup, TypeOK, Requests
    <2>2. ASSUME NEW id \in Links, NEW session \in Sessions,
                 NEW step \in {"lookup", "consume"}, Arrive(d, id, session, step)
          PROVE  req'[d].at # "reply"
      BY <1>0, <2>2 DEF Arrive, Request, TypeOK
    <2>3. ASSUME Finish(d)
          PROVE  req'[d].at # "reply"
      BY <1>0, <2>3, FinishEffect DEF Idle, Request
    <2>4. ASSUME NEW step \in {"annotate", "peek", "reap", "burn", "drop"}, GoTo(d, step)
          PROVE  req'[d].at # "reply"
      BY <1>0, <2>4, GoToEffect
    <2> QED
      BY <1>5, <2>1, <2>2, <2>3, <2>4
         DEF OpenNext, MetaReap, Annotate, ServeView, PassToReveal, Peek, Reap, Burn,
             BurnNothing, DropVisibility
  <1>6. CASE Crash
    BY <1>6 DEF Crash, Idle, Request
  <1>7. ASSUME NEW c \in Clients \ {d}, CreateNext(c) \/ OpenNext(c)
        PROVE  req'[d] = req[d]
    BY <1>0, <1>7
       DEF CreateNext, OpenNext, Create, RecordViews, RecordVisibility, Reply,
           Arrive, Lookup, MetaReap, Annotate, ServeView, PassToReveal, Peek, Reap, Burn,
           BurnNothing, DropVisibility, GoTo, Finish, TypeOK
  <1>8. ASSUME \/ SecretSweep \/ VisibilitySweepNext \/ ViewsSweepNext
               \/ VisibilitySweepError \/ ViewsSweepError \/ Tick \/ UNCHANGED vars
        PROVE  req'[d] = req[d]
    BY <1>8 DEF SecretSweep, VisibilitySweepNext, VisibilityList, VisibilityLookup,
                VisibilityDelete, ViewsSweepNext, ViewsList, ViewsLookup, ViewsDelete,
                VisibilitySweepError, ViewsSweepError, Tick, vars
  <1> QED BY <1>1, <1>2, <1>3, <1>4, <1>5, <1>6, <1>7, <1>8 DEF Next

LEMMA HandOutNext == HandOutInv /\ [Next]_vars => HandOutInv'
  <1> SUFFICES ASSUME HandOutInv, [Next]_vars PROVE HandOutInv'
    OBVIOUS
  <1> USE DEF buckets, sweepers, bounds, history
  <1>0. TypeOK /\ BudgetInv /\ MarkInv'
    BY MarkNext DEF HandOutInv, MarkInv, BudgetInv
  <1>1. ASSUME AuthEnabled, errors' = 0, NEW id \in handedOut', minted'[id].private
        PROVE  id \in guarded'
    <2>1. errors = 0 /\ guarded \subseteq guarded'
      BY <1>0, <1>1, ErrorsAndMarksGrow
    <2>2. CASE id \in handedOut
      <3>1. id \in Ids /\ Known(id)
        BY <1>0, <2>2 DEF TypeOK, BudgetInv, Untouched, Known
      <3>2. minted'[id] = minted[id]
        BY <1>0, <3>1, KnownIsFixed
      <3> QED BY <1>1, <2>1, <2>2, <3>2 DEF HandOutInv, MarkedFirst
    <2>3. CASE id \notin handedOut
      <3>1. PICK c \in Clients : Reply(c)
        BY <1>0, <1>1, <2>3, StepKinds DEF Lossy, Create, RecordViews, ServeView, Burn
      <3>2. id = req[c].id /\ req[c].at = "reply" /\ minted' = minted
        BY <1>1, <2>3, <3>1 DEF Reply
      <3> QED BY <1>1, <2>1, <3>2 DEF HandOutInv, MarkedFirst
    <2> QED BY <2>2, <2>3
  <1>2. MarkedFirst'
    BY <1>1, RepliesAreMarked DEF MarkedFirst
  <1> QED BY <1>0, <1>2 DEF HandOutInv

\* Where no transaction failed, nobody ever holds the link of a stored private
\* secret that is not marked, whichever requests, sweeps and crashes come in
\* between (middleware.go:97-102).
THEOREM PrivateFromTheStart == Spec => []PrivateOnceHandedOut
  <1>1. HandOutInv => PrivateOnceHandedOut
    BY DEF HandOutInv, MarkInv, MarkedFirst, MarkedWhileStored, PrivateOnceHandedOut
  <1>2. Spec => []HandOutInv
    BY HandOutInit, HandOutNext, PTL DEF Spec
  <1> QED BY <1>1, <1>2, PTL

=============================================================================
