-------------------------- MODULE SecretShareProofs --------------------------
(***************************************************************************)
(* Proofs about SecretShare, for every choice of its constants: any number *)
(* of links and of concurrent requests, any view ceiling, and any number   *)
(* of crashes and failing transactions.                                    *)
(***************************************************************************)
EXTENDS SecretShare, TLAPS

\* maxViews never returns less than one view.
LEMMA CeilingType == Ceiling \in Nat /\ Ceiling >= 1
  BY ConfigAssumption DEF Ceiling

-----------------------------------------------------------------------------
(* Type correctness.                                                        *)

LEMMA IdleType == Idle \in Requests
  BY ConfigAssumption DEF Idle, Request, Requests, Steps

LEMMA RequestType ==
  ASSUME NEW step \in Steps, NEW id \in Ids, NEW session \in BOOLEAN, NEW late \in BOOLEAN
  PROVE  Request(step, id, session, late) \in Requests
  BY DEF Request, Requests

\* A request that only moves to another step keeps its type.
LEMMA GoToType ==
  ASSUME TypeOK, NEW c \in Clients, NEW step \in Steps, GoTo(c, step)
  PROVE  req' \in [Clients -> Requests]
  BY DEF TypeOK, GoTo, Requests

LEMMA FinishType ==
  ASSUME TypeOK, NEW c \in Clients, Finish(c)
  PROVE  req' \in [Clients -> Requests]
  BY IdleType DEF TypeOK, Finish

LEMMA TypeInit == Init => TypeOK
  BY ConfigAssumption, CeilingType, IdleType
     DEF Init, TypeOK, Shares, Unminted, Sweeps, Resting

LEMMA CreateNextType ==
  ASSUME TypeOK, NEW c \in Clients, CreateNext(c)
  PROVE  TypeOK'
  <1> USE DEF buckets, sweepers, bounds, history
  <1>1. ASSUME NEW id \in Ids, NEW n \in 1..Ceiling, NEW private \in BOOLEAN,
               NEW ttl \in Lifetimes, Create(c, id, n, private, ttl)
        PROVE  TypeOK'
    <2>1. [views |-> n, private |-> private, expires |-> now + ttl] \in Shares
      BY <1>1, CeilingType, ConfigAssumption DEF Create, Shares, Lifetimes, TypeOK
    <2>2. Request("views", id, FALSE, FALSE) \in Requests
      BY RequestType DEF Steps, CreateSteps
    <2> QED BY <1>1, <2>1, <2>2 DEF Create, TypeOK
  <1>2. CASE RecordViews(c)
    <2>1. req' \in [Clients -> Requests]
      BY <1>2, GoToType DEF RecordViews, Steps, CreateSteps
    <2>2. views' \in [Ids -> 0..Ceiling]
      BY <1>2, CeilingType DEF RecordViews, TypeOK, Shares
    <2> QED BY <1>2, <2>1, <2>2 DEF RecordViews, TypeOK
  <1>3. CASE RecordVisibility(c)
    <2>1. req' \in [Clients -> Requests]
      BY <1>3, GoToType DEF RecordVisibility, Steps, CreateSteps
    <2>2. req[c].id \in Ids
      BY DEF TypeOK, Requests
    <2> QED BY <1>3, <2>1, <2>2 DEF RecordVisibility, TypeOK
  <1>4. CASE Reply(c)
    <2>1. req' \in [Clients -> Requests]
      BY <1>4, FinishType DEF Reply
    <2>2. req[c].id \in Ids
      BY DEF TypeOK, Requests
    <2> QED BY <1>4, <2>1, <2>2 DEF Reply, TypeOK
  <1> QED BY <1>1, <1>2, <1>3, <1>4 DEF CreateNext

LEMMA OpenNextType ==
  ASSUME TypeOK, NEW c \in Clients, OpenNext(c)
  PROVE  TypeOK'
  <1> USE DEF buckets, sweepers, bounds, history
  <1>0. req[c].id \in Ids /\ req[c] \in Requests
    BY DEF TypeOK, Requests
  <1>1. ASSUME NEW id \in Links, NEW session \in Sessions,
               NEW step \in {"lookup", "consume"}, Arrive(c, id, session, step)
        PROVE  TypeOK'
    <2>1. id \in Ids /\ session \in BOOLEAN /\ step \in Steps
      BY ConfigAssumption DEF TypeOK, Links, Sessions, Steps, MetaSteps, RevealSteps
    <2>2. Expired(id) \in BOOLEAN
      BY DEF Expired
    <2>3. Request(step, id, session, Expired(id)) \in Requests
      BY <2>1, <2>2, RequestType
    <2> QED BY <1>1, <2>3 DEF Arrive, TypeOK
  <1>2. CASE Lookup(c)
    <2> DEFINE answer ==
          [req[c] EXCEPT
             !.at = IF req[c].id \in secrets /\ Expired(req[c].id)
                      THEN "metaReap" ELSE "annotate",
             !.exists = req[c].id \in secrets /\ ~Expired(req[c].id)]
    <2>1. Expired(req[c].id) \in BOOLEAN
      BY DEF Expired
    <2>2. answer \in Requests
      BY <1>0, <2>1 DEF Requests, Steps, MetaSteps
    <2>3. req' = [req EXCEPT ![c] = answer]
      BY <1>2 DEF Lookup
    <2> HIDE DEF answer
    <2> QED BY <1>2, <2>2, <2>3 DEF Lookup, TypeOK
  <1>3. CASE MetaReap(c)
    <2>1. req' \in [Clients -> Requests]
      BY <1>3, GoToType DEF MetaReap, Steps, MetaSteps
    <2> QED BY <1>3, <2>1 DEF MetaReap, TypeOK
  <1>4. CASE Annotate(c)
    BY <1>4, FinishType DEF Annotate, TypeOK
  <1>5. CASE ServeView(c)
    <2>1. req' \in [Clients -> Requests]
      BY <1>5, FinishType DEF ServeView
    <2>2. views' \in [Ids -> 0..Ceiling]
      BY <1>5, <1>0, CeilingType DEF ServeView, TypeOK
    <2> QED BY <1>5, <1>0, <2>1, <2>2 DEF ServeView, TypeOK
  <1>6. CASE PassToReveal(c)
    <2>1. req' \in [Clients -> Requests]
      BY <1>6, GoToType DEF PassToReveal, Steps, RevealSteps
    <2>2. views' \in [Ids -> 0..Ceiling]
      BY <1>6, <1>0, CeilingType DEF PassToReveal, TypeOK
    <2> QED BY <1>6, <2>1, <2>2 DEF PassToReveal, TypeOK
  <1>7. CASE Peek(c)
    <2>1. req' \in [Clients -> Requests]
      BY <1>7, GoToType DEF Peek, Steps, RevealSteps
    <2> QED BY <1>7, <2>1 DEF Peek, TypeOK
  <1>8. CASE Reap(c)
    BY <1>8, FinishType DEF Reap, TypeOK
  <1>9. CASE Burn(c)
    <2>1. req' \in [Clients -> Requests]
      BY <1>9, GoToType DEF Burn, Steps, RevealSteps
    <2> QED BY <1>9, <1>0, <2>1 DEF Burn, TypeOK
  <1>10. CASE BurnNothing(c)
    BY <1>10, FinishType DEF BurnNothing, TypeOK
  <1>11. CASE DropVisibility(c)
    BY <1>11, FinishType DEF DropVisibility, TypeOK
  <1> QED
    BY <1>1, <1>2, <1>3, <1>4, <1>5, <1>6, <1>7, <1>8, <1>9, <1>10, <1>11 DEF OpenNext

LEMMA SweepNextType ==
  ASSUME TypeOK, VisibilitySweepNext \/ ViewsSweepNext \/ SecretSweep
  PROVE  TypeOK'
  <1> USE DEF buckets, sweepers, bounds, history
  <1>1. CASE SecretSweep
    BY <1>1 DEF SecretSweep, TypeOK
  <1>2. CASE VisibilityList
    BY <1>2 DEF VisibilityList, TypeOK, Sweeps
  <1>3. ASSUME NEW id \in Ids, VisibilityLookup(id)
        PROVE  TypeOK'
    BY <1>3 DEF VisibilityLookup, TypeOK, Sweeps
  <1>4. CASE VisibilityDelete
    BY <1>4 DEF VisibilityDelete, TypeOK, Sweeps
  <1>5. CASE ViewsList
    BY <1>5 DEF ViewsList, TypeOK, Sweeps
  <1>6. ASSUME NEW id \in Ids, ViewsLookup(id)
        PROVE  TypeOK'
    BY <1>6 DEF ViewsLookup, TypeOK, Sweeps
  <1>7. CASE ViewsDelete
    BY <1>7, CeilingType DEF ViewsDelete, TypeOK, Sweeps
  <1> QED
    BY <1>1, <1>2, <1>3, <1>4, <1>5, <1>6, <1>7
       DEF VisibilitySweepNext, ViewsSweepNext

\* A store error moves a request along its error path or ends it.
LEMMA ErrorStep ==
  ASSUME NEW step \in Steps
  PROVE  AfterError(step) \in {"idle", "visibility", "reply", "annotate"}
  BY DEF AfterError

LEMMA EnvironmentType ==
  ASSUME TypeOK,
         \/ \E c \in Clients : StoreError(c)
         \/ VisibilitySweepError \/ ViewsSweepError \/ Tick \/ Crash
  PROVE  TypeOK'
  <1> USE ConfigAssumption DEF buckets, sweepers, bounds, history
  <1>1. ASSUME NEW c \in Clients, StoreError(c)
        PROVE  TypeOK'
    <2> DEFINE next == IF AfterError(req[c].at) = "idle" THEN Idle
                       ELSE [req[c] EXCEPT !.at = AfterError(req[c].at)]
    <2>1. req[c] \in Requests /\ req[c].at \in Steps
      BY DEF TypeOK, Requests
    <2>2. AfterError(req[c].at) \in Steps
      BY <2>1, ErrorStep DEF Steps, CreateSteps, MetaSteps
    <2>3. next \in Requests
      BY <2>1, <2>2, IdleType DEF Requests
    <2>4. req' = [req EXCEPT ![c] = next]
      BY <1>1 DEF StoreError
    <2> HIDE DEF next
    <2> QED BY <1>1, <2>3, <2>4 DEF StoreError, TypeOK
  <1>2. CASE VisibilitySweepError
    <2>1. visSweep' \in Sweeps
      BY <1>2 DEF VisibilitySweepError, SkipNext, TypeOK, Sweeps
    <2> QED BY <1>2, <2>1 DEF VisibilitySweepError, TypeOK
  <1>3. CASE ViewsSweepError
    <2>1. viewSweep' \in Sweeps
      BY <1>3 DEF ViewsSweepError, SkipNext, TypeOK, Sweeps
    <2> QED BY <1>3, <2>1 DEF ViewsSweepError, TypeOK
  <1>4. CASE Tick
    BY <1>4 DEF Tick, TypeOK
  <1>5. CASE Crash
    BY <1>5, IdleType DEF Crash, TypeOK, Sweeps, Resting
  <1> QED BY <1>1, <1>2, <1>3, <1>4, <1>5

LEMMA TypeNext == TypeOK /\ [Next]_vars => TypeOK'
  <1> SUFFICES ASSUME TypeOK, [Next]_vars PROVE TypeOK'
    OBVIOUS
  <1>1. CASE UNCHANGED vars
    BY <1>1 DEF vars, TypeOK
  <1>2. CASE Next
    BY <1>2, CreateNextType, OpenNextType, SweepNextType, EnvironmentType DEF Next
  <1> QED BY <1>1, <1>2

\* The type invariant: in particular a budget record never holds more views
\* than the operator's ceiling, and every request in flight names a known step.
THEOREM TypeCorrect == Spec => []TypeOK
  BY TypeInit, TypeNext, PTL DEF Spec

-----------------------------------------------------------------------------
(* The view budget. WithinBudget is not inductive: what must not grow is    *)
(* released + Obtainable, and that needs to know who may touch an id while   *)
(* its create request is still running.                                     *)

Creating(c) == req[c].at \in CreateSteps
Opening(c)  == req[c].at \in MetaSteps \cup RevealSteps

\* An id that was never minted is in no bucket and was never released.
Untouched ==
  \A id \in Ids : minted[id].views = 0 =>
    id \notin secrets /\ id \notin handedOut /\ views[id] = 0 /\ released[id] = 0

\* Until its create request answers, nobody else knows an id.
Unknown ==
  \A c \in Clients : Creating(c) =>
    /\ req[c].id \notin handedOut
    /\ minted[req[c].id].views >= 1
    /\ released[req[c].id] = 0

\* An id is being created by one request only.
SoleCreator ==
  \A c, d \in Clients : Creating(c) /\ Creating(d) /\ req[c].id = req[d].id => c = d

\* Requests that open a link were given it, or mistyped one.
FollowsLink == \A c \in Clients : Opening(c) => req[c].id \in Links

\* Views that were released and views that can still be had stay within the
\* budget.
Conserved ==
  \A id \in Ids : released[id] + Obtainable(id) <= minted[id].views

BudgetInv ==
  /\ TypeOK
  /\ minted[Mistyped].views = 0
  /\ Untouched
  /\ Unknown
  /\ SoleCreator
  /\ FollowsLink
  /\ Conserved

\* The two halves of a type-correct state that arithmetic needs.
LEMMA BudgetTypes ==
  ASSUME TypeOK
  PROVE  /\ \A id \in Ids : /\ minted[id].views \in Nat /\ views[id] \in Nat
                            /\ released[id] \in Nat /\ Obtainable(id) \in Nat
         /\ \A c \in Clients : req[c] \in Requests /\ req[c].id \in Ids
  <1>1. \A id \in Ids : /\ minted[id].views \in Nat /\ views[id] \in Nat
                        /\ released[id] \in Nat
    BY CeilingType DEF TypeOK, Shares
  <1>2. ASSUME NEW id \in Ids PROVE Obtainable(id) \in Nat
    <2>1. views[id] \in Nat
      BY <1>1
    <2>2. CASE views[id] > 0
      BY <2>1, <2>2 DEF Obtainable
    <2>3. CASE ~(views[id] > 0)
      BY <2>1, <2>3 DEF Obtainable
    <2> QED BY <2>2, <2>3
  <1>3. \A c \in Clients : req[c] \in Requests /\ req[c].id \in Ids
    BY DEF TypeOK, Requests
  <1> QED BY <1>1, <1>2, <1>3

LEMMA BudgetInit == Init => BudgetInv
  <1> SUFFICES ASSUME Init PROVE BudgetInv
    OBVIOUS
  <1>1. TypeOK
    BY TypeInit
  <1>2. \A c \in Clients : ~Creating(c) /\ ~Opening(c)
    BY DEF Init, Idle, Request, Creating, Opening, CreateSteps, MetaSteps, RevealSteps
  <1>3. minted[Mistyped].views = 0
    BY ConfigAssumption DEF Init, Unminted
  <1>4. Untouched /\ Conserved
    BY DEF Init, Unminted, Untouched, Conserved, Obtainable
  <1> QED
    BY <1>1, <1>2, <1>3, <1>4 DEF BudgetInv, Unknown, SoleCreator, FollowsLink

\* Steps that only take records away preserve the invariant: most of them.
LEMMA TakingAway ==
  ASSUME BudgetInv, TypeOK',
         UNCHANGED <<minted, handedOut, released>>,
         secrets' \subseteq secrets,
         \A id \in Ids : views'[id] <= views[id],
         \A c \in Clients : Creating(c)' => Creating(c) /\ req'[c].id = req[c].id,
         \A c \in Clients : Opening(c)' => req'[c].id \in Links
  PROVE  BudgetInv'
  <1>1. \A id \in Ids : views[id] \in Nat /\ views'[id] \in Nat
    BY CeilingType DEF BudgetInv, TypeOK
  <1>2. Untouched'
    BY <1>1 DEF BudgetInv, Untouched
  <1>3. Unknown' /\ SoleCreator'
    BY DEF BudgetInv, Unknown, SoleCreator
  <1>4. FollowsLink'
    BY DEF FollowsLink, Links
  <1>5. Conserved'
    <2> SUFFICES ASSUME NEW id \in Ids
                 PROVE  released[id] + Obtainable(id)' <= minted[id].views
      BY DEF Conserved
    <2>1. Obtainable(id)' <= Obtainable(id)
      BY <1>1 DEF Obtainable
    <2>2. /\ released[id] \in Nat /\ minted[id].views \in Nat
          /\ Obtainable(id) \in Nat /\ Obtainable(id)' \in Nat
      BY <1>1, BudgetTypes DEF BudgetInv, Obtainable
    <2>3. released[id] + Obtainable(id) <= minted[id].views
      BY DEF BudgetInv, Conserved
    <2> QED BY <2>1, <2>2, <2>3
  <1>6. minted'[Mistyped].views = 0
    BY DEF BudgetInv
  <1> QED BY <1>2, <1>3, <1>4, <1>5, <1>6 DEF BudgetInv

\* What GoTo and Finish do to the requests in flight.
LEMMA GoToEffect ==
  ASSUME TypeOK, NEW c \in Clients, NEW step, GoTo(c, step)
  PROVE  /\ req'[c].at = step /\ req'[c].id = req[c].id
         /\ req'[c].session = req[c].session
         /\ \A d \in Clients \ {c} : req'[d] = req[d]
  BY DEF GoTo, TypeOK, Requests

LEMMA FinishEffect ==
  ASSUME TypeOK, NEW c \in Clients, Finish(c)
  PROVE  /\ req'[c] = Idle
         /\ ~Creating(c)' /\ ~Opening(c)'
         /\ \A d \in Clients \ {c} : req'[d] = req[d]
  BY DEF Finish, TypeOK, Idle, Request, Creating, Opening, CreateSteps, MetaSteps,
         RevealSteps

\* A step of client c that moves it on, or ends it, without creating anything.
LEMMA Continues ==
  ASSUME BudgetInv, TypeOK', NEW c \in Clients,
         UNCHANGED <<minted, handedOut, released>>,
         secrets' \subseteq secrets,
         \A id \in Ids : views'[id] <= views[id],
         \/ Finish(c)
         \/ \E step \in Steps : /\ GoTo(c, step)
                                /\ step \in CreateSteps => Creating(c)
                                /\ step \in MetaSteps \cup RevealSteps => Opening(c)
  PROVE  BudgetInv'
  <1>1. TypeOK /\ handedOut' = handedOut /\ FollowsLink
    BY DEF BudgetInv
  <1>2. CASE Finish(c)
    <2>1. \A d \in Clients : Creating(d)' => Creating(d) /\ req'[d].id = req[d].id
      BY <1>1, <1>2, FinishEffect DEF Creating
    <2>2. \A d \in Clients : Opening(d)' => req'[d].id \in Links
      BY <1>1, <1>2, FinishEffect DEF Opening, FollowsLink
    <2> QED BY <2>1, <2>2, TakingAway
  <1>3. ASSUME NEW step \in Steps, GoTo(c, step),
               step \in CreateSteps => Creating(c),
               step \in MetaSteps \cup RevealSteps => Opening(c)
        PROVE  BudgetInv'
    <2>0. /\ req'[c].at = step /\ req'[c].id = req[c].id
          /\ \A d \in Clients \ {c} : req'[d] = req[d]
      BY <1>1, <1>3, GoToEffect
    <2>1. \A d \in Clients : Creating(d)' => Creating(d) /\ req'[d].id = req[d].id
      BY <1>3, <2>0 DEF Creating
    <2>2. \A d \in Clients : Opening(d)' => req'[d].id \in Links
      BY <1>1, <1>3, <2>0 DEF Opening, FollowsLink
    <2> QED BY <2>1, <2>2, TakingAway
  <1> QED BY <1>2, <1>3

LEMMA BudgetCreate ==
  ASSUME BudgetInv, TypeOK', NEW c \in Clients, CreateNext(c)
  PROVE  BudgetInv'
  <1> USE DEF buckets, sweepers, bounds, history
  <1>0. TypeOK /\ req[c].id \in Ids
    BY BudgetTypes DEF BudgetInv
  <1>1. ASSUME NEW id \in Ids, NEW n \in 1..Ceiling, NEW private \in BOOLEAN,
               NEW ttl \in Lifetimes, Create(c, id, n, private, ttl)
        PROVE  BudgetInv'
    <2>1. /\ minted[id].views = 0 /\ id # Mistyped
          /\ \A other \in Ids \ {id} : minted'[other] = minted[other]
          /\ minted'[id].views = n
          /\ n \in Nat /\ n >= 1
      BY <1>0, <1>1, CeilingType DEF Create, Unminted, TypeOK
    <2>2. /\ req'[c].at = "views" /\ req'[c].id = id
          /\ \A d \in Clients \ {c} : req'[d] = req[d]
      BY <1>0, <1>1 DEF Create, Request, TypeOK
    <2>3. /\ id \notin secrets /\ id \notin handedOut
          /\ views[id] = 0 /\ released[id] = 0
      BY <2>1 DEF BudgetInv, Untouched
    <2>4. \A d \in Clients : Creating(d) => req[d].id # id
      BY <1>0, <2>1, BudgetTypes DEF BudgetInv, Unknown
    <2>5. /\ secrets' = secrets \cup {id}
          /\ UNCHANGED <<views, handedOut, released>>
      BY <1>1 DEF Create
    <2>6. Untouched'
      BY <2>1, <2>5 DEF BudgetInv, Untouched
    <2>7. Unknown'
      <3> SUFFICES ASSUME NEW d \in Clients, Creating(d)'
                   PROVE  /\ req'[d].id \notin handedOut
                          /\ minted'[req'[d].id].views >= 1
                          /\ released[req'[d].id] = 0
        BY <2>5 DEF Unknown
      <3>1. CASE d = c
        BY <2>1, <2>2, <2>3, <3>1
      <3>2. CASE d # c
        <4>1. req'[d] = req[d] /\ Creating(d) /\ req[d].id # id /\ req[d].id \in Ids
          BY <1>0, <2>2, <2>4, <3>2, BudgetTypes DEF Creating
        <4> QED BY <2>1, <4>1 DEF BudgetInv, Unknown
      <3> QED BY <3>1, <3>2
    <2>8. SoleCreator'
      BY <2>2, <2>4 DEF BudgetInv, SoleCreator, Creating
    <2>9. FollowsLink'
      BY <2>2, <2>5
         DEF BudgetInv, FollowsLink, Opening, Links, CreateSteps, MetaSteps, RevealSteps
    <2>10. Conserved'
      <3> SUFFICES ASSUME NEW other \in Ids
                   PROVE  released[other] + Obtainable(other)' <= minted'[other].views
        BY <2>5 DEF Conserved
      <3>1. CASE other = id
        BY <2>1, <2>3, <2>5, <3>1 DEF Obtainable
      <3>2. CASE other # id
        BY <2>1, <2>5, <3>2 DEF Obtainable, BudgetInv, Conserved
      <3> QED BY <3>1, <3>2
    <2>11. minted'[Mistyped].views = 0
      BY <2>1, ConfigAssumption DEF BudgetInv
    <2> QED BY <2>6, <2>7, <2>8, <2>9, <2>10, <2>11 DEF BudgetInv
  <1>2. CASE RecordViews(c)
    <2> DEFINE id == req[c].id
    <2>1. Creating(c)
      BY <1>2 DEF RecordViews, Creating, CreateSteps
    <2>2. /\ req'[c].at = "visibility" /\ req'[c].id = id
          /\ \A d \in Clients \ {c} : req'[d] = req[d]
          /\ UNCHANGED <<minted, secrets, handedOut, released>>
          /\ \A other \in Ids \ {id} : views'[other] = views[other]
      BY <1>0, <1>2, GoToEffect DEF RecordViews, TypeOK
    <2>3. \A d \in Clients : Creating(d)' => Creating(d) /\ req'[d].id = req[d].id
      BY <2>1, <2>2 DEF Creating
    <2>4. /\ id \notin handedOut /\ minted[id].views >= 1 /\ released[id] = 0
      BY <2>1 DEF BudgetInv, Unknown
    <2>5. Untouched'
      BY <2>2, <2>4, <1>0 DEF BudgetInv, Untouched
    <2>6. Unknown' /\ SoleCreator'
      BY <2>2, <2>3 DEF BudgetInv, Unknown, SoleCreator
    <2>7. FollowsLink'
      BY <2>2 DEF BudgetInv, FollowsLink, Opening, Links, CreateSteps, MetaSteps, RevealSteps
    <2>8. Conserved'
      <3> SUFFICES ASSUME NEW other \in Ids
                   PROVE  released[other] + Obtainable(other)' <= minted[other].views
        BY <2>2 DEF Conserved
      <3>1. CASE other # id
        BY <2>2, <3>1 DEF Obtainable, BudgetInv, Conserved
      <3>2. CASE other = id /\ minted[id].views > 1
        <4>1. views'[id] = minted[id].views
          BY <1>0, <1>2, <3>2 DEF RecordViews, TypeOK
        <4> QED BY <1>0, <2>2, <2>4, <3>2, <4>1, BudgetTypes DEF Obtainable
      <3>3. CASE other = id /\ ~(minted[id].views > 1)
        <4>1. views' = views
          BY <1>2, <3>3 DEF RecordViews
        <4> QED BY <2>2, <3>3, <4>1 DEF Obtainable, BudgetInv, Conserved
      <3> QED BY <3>1, <3>2, <3>3
    <2> QED BY <2>2, <2>5, <2>6, <2>7, <2>8 DEF BudgetInv
  <1>3. CASE RecordVisibility(c)
    <2>1. /\ GoTo(c, "reply") /\ Creating(c)
          /\ UNCHANGED <<minted, handedOut, released, secrets, views>>
      BY <1>3 DEF RecordVisibility, Creating, CreateSteps
    <2>2. \A other \in Ids : views'[other] <= views[other]
      BY <1>0, <2>1, BudgetTypes
    <2>3. "reply" \in Steps /\ "reply" \notin MetaSteps \cup RevealSteps
      BY DEF Steps, CreateSteps, MetaSteps, RevealSteps
    <2> QED BY <2>1, <2>2, <2>3, Continues
  <1>4. CASE Reply(c)
    <2>1. Creating(c)
      BY <1>4 DEF Reply, Creating, CreateSteps
    <2>2. /\ ~Creating(c)' /\ ~Opening(c)'
          /\ \A d \in Clients \ {c} : req'[d] = req[d]
          /\ handedOut' = handedOut \cup {req[c].id}
          /\ UNCHANGED <<minted, secrets, views, released>>
      BY <1>0, <1>4, FinishEffect DEF Reply
    <2>3. Untouched'
      BY <2>1, <2>2, <1>0 DEF BudgetInv, Untouched, Unknown
    <2>4. Unknown'
      BY <2>1, <2>2 DEF BudgetInv, Unknown, SoleCreator, Creating
    <2>5. SoleCreator'
      BY <2>2 DEF BudgetInv, SoleCreator, Creating
    <2>6. FollowsLink'
      BY <2>2 DEF BudgetInv, FollowsLink, Opening, Links
    <2>7. Conserved'
      BY <2>2 DEF BudgetInv, Conserved, Obtainable
    <2> QED BY <2>2, <2>3, <2>4, <2>5, <2>6, <2>7 DEF BudgetInv
  <1> QED BY <1>1, <1>2, <1>3, <1>4 DEF CreateNext

\* A release uses up one obtainable view of the same id.
LEMMA OneViewUsed ==
  ASSUME BudgetInv, TypeOK', NEW id \in Ids,
         UNCHANGED <<minted, handedOut>>,
         id \in Links,
         released' = [released EXCEPT ![id] = @ + 1],
         \/ views[id] > 1 /\ views' = [views EXCEPT ![id] = @ - 1] /\ secrets' = secrets
         \/ id \in secrets /\ secrets' = secrets \ {id} /\ views' = views,
         \A d \in Clients : Creating(d)' => Creating(d) /\ req'[d].id = req[d].id,
         \A d \in Clients : Opening(d)' => req'[d].id \in Links
  PROVE  BudgetInv'
  <1>0. TypeOK
    BY DEF BudgetInv
  <1>1. /\ released'[id] = released[id] + 1
        /\ \A other \in Ids \ {id} : released'[other] = released[other]
    BY <1>0 DEF TypeOK
  <1>2. minted[id].views # 0
    BY <1>0, BudgetTypes DEF BudgetInv, Untouched
  <1>3. id \in handedOut
    BY <1>2 DEF BudgetInv, Links
  <1>4. /\ \A other \in Ids \ {id} : views'[other] = views[other]
        /\ \A other \in Ids \ {id} : other \in secrets <=> other \in secrets'
    BY <1>0 DEF TypeOK
  <1>5. Untouched'
    BY <1>1, <1>2, <1>4 DEF BudgetInv, Untouched
  <1>6. Unknown' /\ SoleCreator'
    BY <1>0, <1>1, <1>3, BudgetTypes DEF BudgetInv, Unknown, SoleCreator
  <1>7. FollowsLink'
    BY DEF FollowsLink, Links
  <1>8. Conserved'
    <2> SUFFICES ASSUME NEW other \in Ids
                 PROVE  released'[other] + Obtainable(other)' <= minted[other].views
      BY DEF Conserved
    <2>1. CASE other # id
      BY <1>1, <1>4, <2>1 DEF Obtainable, BudgetInv, Conserved
    <2>2. CASE other = id
      <3>1. /\ views[id] \in Nat /\ released[id] \in Nat /\ minted[id].views \in Nat
            /\ released[id] + Obtainable(id) <= minted[id].views
        BY <1>0, BudgetTypes DEF BudgetInv, Conserved
      <3>2. CASE views[id] > 1 /\ views' = [views EXCEPT ![id] = @ - 1]
                 /\ secrets' = secrets
        <4>1. views'[id] = views[id] - 1
          BY <1>0, <3>2 DEF TypeOK
        <4> QED BY <1>1, <2>2, <3>1, <3>2, <4>1 DEF Obtainable
      <3>3. CASE id \in secrets /\ secrets' = secrets \ {id} /\ views' = views
        BY <1>1, <2>2, <3>1, <3>3 DEF Obtainable
      <3> QED BY <3>2, <3>3
    <2> QED BY <2>1, <2>2
  <1> QED BY <1>5, <1>6, <1>7, <1>8 DEF BudgetInv

LEMMA BudgetOpen ==
  ASSUME BudgetInv, TypeOK', NEW c \in Clients, OpenNext(c)
  PROVE  BudgetInv'
  <1> USE DEF buckets, sweepers, bounds, history
  <1>0. /\ TypeOK /\ req[c].id \in Ids
        /\ \A other \in Ids : views[other] \in Nat /\ views[other] <= views[other]
    BY BudgetTypes DEF BudgetInv
  <1>s. /\ {"annotate", "peek", "burn", "drop", "reap", "metaReap"} \subseteq
             Steps \cap (MetaSteps \cup RevealSteps)
        /\ (MetaSteps \cup RevealSteps) \cap CreateSteps = {}
    BY DEF Steps, CreateSteps, MetaSteps, RevealSteps
  <1>1. ASSUME NEW id \in Links, NEW session \in Sessions,
               NEW step \in {"lookup", "consume"}, Arrive(c, id, session, step)
        PROVE  BudgetInv'
    <2>1. /\ req'[c].at = step /\ req'[c].id = id
          /\ \A d \in Clients \ {c} : req'[d] = req[d]
          /\ UNCHANGED <<minted, handedOut, released, secrets, views>>
      BY <1>0, <1>1 DEF Arrive, Request, TypeOK
    <2>2. ~Creating(c)'
      BY <2>1 DEF Creating, CreateSteps
    <2>3. \A d \in Clients : Creating(d)' => Creating(d) /\ req'[d].id = req[d].id
      BY <2>1, <2>2 DEF Creating
    <2>4. \A d \in Clients : Opening(d)' => req'[d].id \in Links
      BY <2>1 DEF Opening, BudgetInv, FollowsLink
    <2> QED BY <1>0, <2>1, <2>3, <2>4, TakingAway
  <1>2. CASE Lookup(c)
    <2>1. /\ req'[c].at \in {"metaReap", "annotate"} /\ req'[c].id = req[c].id
          /\ \A d \in Clients \ {c} : req'[d] = req[d]
          /\ UNCHANGED <<minted, handedOut, released, secrets, views>>
      BY <1>0, <1>2, BudgetTypes DEF Lookup, TypeOK, Requests
    <2>2. ~Creating(c)' /\ Opening(c)
      BY <1>2, <2>1 DEF Lookup, Creating, Opening, CreateSteps, MetaSteps
    <2>3. \A d \in Clients : Creating(d)' => Creating(d) /\ req'[d].id = req[d].id
      BY <2>1, <2>2 DEF Creating
    <2>4. \A d \in Clients : Opening(d)' => req'[d].id \in Links
      BY <2>1, <2>2 DEF Opening, BudgetInv, FollowsLink
    <2> QED BY <1>0, <2>1, <2>3, <2>4, TakingAway
  <1>3. CASE MetaReap(c)
    <2>1. /\ GoTo(c, "annotate") /\ Opening(c) /\ secrets' \subseteq secrets
          /\ UNCHANGED <<minted, handedOut, released, views>>
      BY <1>3 DEF MetaReap, Opening, MetaSteps
    <2> QED BY <1>0, <1>s, <2>1, Continues
  <1>4. CASE Annotate(c)
    <2>1. /\ Finish(c) /\ UNCHANGED <<minted, handedOut, released, secrets, views>>
      BY <1>4 DEF Annotate
    <2> QED BY <1>0, <2>1, Continues
  <1>5. CASE ServeView(c)
    <2>1. /\ Finish(c) /\ Opening(c) /\ views[req[c].id] > 1
          /\ views' = [views EXCEPT ![req[c].id] = @ - 1]
          /\ released' = [released EXCEPT ![req[c].id] = @ + 1]
          /\ UNCHANGED <<minted, handedOut, secrets>>
      BY <1>5 DEF ServeView, Opening, RevealSteps
    <2>2. req[c].id \in Links
      BY <2>1 DEF BudgetInv, FollowsLink
    <2>3. /\ \A d \in Clients : Creating(d)' => Creating(d) /\ req'[d].id = req[d].id
          /\ \A d \in Clients : Opening(d)' => req'[d].id \in Links
      BY <1>0, <2>1, FinishEffect DEF Creating, Opening, BudgetInv, FollowsLink
    <2> QED BY <1>0, <2>1, <2>2, <2>3, OneViewUsed
  <1>6. CASE PassToReveal(c)
    <2>1. /\ GoTo(c, "peek") /\ Opening(c)
          /\ UNCHANGED <<minted, handedOut, released, secrets>>
      BY <1>6 DEF PassToReveal, Opening, RevealSteps
    <2>2. \A other \in Ids : views'[other] <= views[other]
      BY <1>0, <1>6 DEF PassToReveal, TypeOK
    <2> QED BY <1>s, <2>1, <2>2, Continues
  <1>7. CASE Peek(c)
    <2>1. /\ UNCHANGED <<minted, handedOut, released, secrets, views>> /\ Opening(c)
          /\ GoTo(c, "reap") \/ GoTo(c, "burn")
      BY <1>7 DEF Peek, Opening, RevealSteps
    <2> QED BY <1>0, <1>s, <2>1, Continues
  <1>8. CASE Reap(c)
    <2>1. /\ Finish(c) /\ secrets' \subseteq secrets
          /\ UNCHANGED <<minted, handedOut, released, views>>
      BY <1>8 DEF Reap
    <2> QED BY <1>0, <2>1, Continues
  <1>9. CASE Burn(c)
    <2>1. /\ GoTo(c, "drop") /\ Opening(c) /\ req[c].id \in secrets
          /\ secrets' = secrets \ {req[c].id}
          /\ released' = [released EXCEPT ![req[c].id] = @ + 1]
          /\ UNCHANGED <<minted, handedOut, views>>
      BY <1>9 DEF Burn, Opening, RevealSteps
    <2>2. req[c].id \in Links
      BY <2>1 DEF BudgetInv, FollowsLink
    <2>3. /\ req'[c].at = "drop" /\ req'[c].id = req[c].id
          /\ \A d \in Clients \ {c} : req'[d] = req[d]
      BY <1>0, <2>1, GoToEffect
    <2>4. \A d \in Clients : Creating(d)' => Creating(d) /\ req'[d].id = req[d].id
      BY <2>3 DEF Creating, CreateSteps
    <2>5. \A d \in Clients : Opening(d)' => req'[d].id \in Links
      BY <2>1, <2>2, <2>3 DEF Opening, BudgetInv, FollowsLink
    <2> QED BY <1>0, <2>1, <2>2, <2>4, <2>5, OneViewUsed
  <1>10. CASE BurnNothing(c)
    <2>1. /\ Finish(c) /\ UNCHANGED <<minted, handedOut, released, secrets, views>>
      BY <1>10 DEF BurnNothing
    <2> QED BY <1>0, <2>1, Continues
  <1>11. CASE DropVisibility(c)
    <2>1. /\ Finish(c) /\ UNCHANGED <<minted, handedOut, released, secrets, views>>
      BY <1>11 DEF DropVisibility
    <2> QED BY <1>0, <2>1, Continues
  <1> QED
    BY <1>1, <1>2, <1>3, <1>4, <1>5, <1>6, <1>7, <1>8, <1>9, <1>10, <1>11 DEF OpenNext

\* A step that leaves the requests alone and only takes records away.
LEMMA BudgetBackground ==
  ASSUME BudgetInv, TypeOK',
         \/ SecretSweep \/ VisibilitySweepNext \/ ViewsSweepNext
         \/ VisibilitySweepError \/ ViewsSweepError \/ Tick
  PROVE  BudgetInv'
  <1> USE DEF buckets, sweepers, bounds, history
  <1>0. TypeOK /\ \A id \in Ids : views[id] \in Nat
    BY BudgetTypes DEF BudgetInv
  <1>1. UNCHANGED <<minted, handedOut, released, req>> /\ secrets' \subseteq secrets
    BY DEF SecretSweep, VisibilitySweepNext, VisibilityList, VisibilityLookup,
           VisibilityDelete, ViewsSweepNext, ViewsList, ViewsLookup, ViewsDelete,
           VisibilitySweepError, ViewsSweepError, Tick
  <1>2. \A id \in Ids : views'[id] <= views[id]
    <2>1. CASE ViewsDelete
      BY <1>0, <2>1 DEF ViewsDelete
    <2>2. CASE views' = views
      BY <1>0, <2>2
    <2> QED
      BY <2>1, <2>2
      DEF SecretSweep, VisibilitySweepNext, VisibilityList, VisibilityLookup,
          VisibilityDelete, ViewsSweepNext, ViewsList, ViewsLookup,
          VisibilitySweepError, ViewsSweepError, Tick
  <1>3. \A d \in Clients : Creating(d)' => Creating(d) /\ req'[d].id = req[d].id
    BY <1>1 DEF Creating
  <1>4. \A d \in Clients : Opening(d)' => req'[d].id \in Links
    BY <1>1 DEF Opening, BudgetInv, FollowsLink
  <1> QED BY <1>1, <1>2, <1>3, <1>4, TakingAway

LEMMA BudgetFailure ==
  ASSUME BudgetInv, TypeOK', Crash \/ \E c \in Clients : StoreError(c)
  PROVE  BudgetInv'
  <1> USE DEF buckets, sweepers, bounds, history
  <1>0. TypeOK /\ \A id \in Ids : views[id] \in Nat /\ views[id] <= views[id]
    BY BudgetTypes DEF BudgetInv
  <1>1. CASE Crash
    <2>1. /\ UNCHANGED <<minted, handedOut, released, secrets, views>>
          /\ \A d \in Clients : req'[d] = Idle
      BY <1>1 DEF Crash
    <2>2. \A d \in Clients : ~Creating(d)' /\ ~Opening(d)'
      BY <2>1 DEF Creating, Opening, Idle, Request, CreateSteps, MetaSteps, RevealSteps
    <2> QED BY <1>0, <2>1, <2>2, TakingAway
  <1>2. ASSUME NEW c \in Clients, StoreError(c)
        PROVE  BudgetInv'
    <2>1. UNCHANGED <<minted, handedOut, released, secrets, views>>
      BY <1>2 DEF StoreError
    <2>2. CASE AfterError(req[c].at) = "idle"
      <3>1. Finish(c)
        BY <1>2, <2>2 DEF StoreError, Finish
      <3> QED BY <1>0, <2>1, <3>1, Continues
    <2>3. CASE AfterError(req[c].at) # "idle"
      <3>1. /\ req'[c].at = AfterError(req[c].at) /\ req'[c].id = req[c].id
            /\ \A d \in Clients \ {c} : req'[d] = req[d]
        BY <1>0, <1>2, <2>3, BudgetTypes DEF StoreError, TypeOK, Requests
      <3>2. /\ req'[c].at \in {"visibility", "reply"} => Creating(c)
            /\ req'[c].at = "annotate" => Opening(c)
            /\ req'[c].at \in {"visibility", "reply", "annotate"}
        BY <2>3, <3>1 DEF AfterError, Creating, Opening, CreateSteps, MetaSteps
      <3>3. \A d \in Clients : Creating(d)' => Creating(d) /\ req'[d].id = req[d].id
        BY <3>1, <3>2 DEF Creating, CreateSteps
      <3>4. \A d \in Clients : Opening(d)' => req'[d].id \in Links
        BY <3>1, <3>2, <2>1
           DEF Opening, BudgetInv, FollowsLink, Links, MetaSteps, RevealSteps
      <3> QED BY <1>0, <2>1, <3>3, <3>4, TakingAway
    <2> QED BY <2>2, <2>3
  <1> QED BY <1>1, <1>2

LEMMA BudgetNext == BudgetInv /\ [Next]_vars => BudgetInv'
  <1> SUFFICES ASSUME BudgetInv, [Next]_vars PROVE BudgetInv'
    OBVIOUS
  <1>1. TypeOK'
    BY TypeNext DEF BudgetInv
  <1>2. CASE Next
    BY <1>1, <1>2, BudgetCreate, BudgetOpen, BudgetBackground, BudgetFailure DEF Next
  <1>3. CASE UNCHANGED vars
    <2>1. UNCHANGED <<minted, handedOut, released, secrets, views, req>>
      BY <1>3 DEF vars
    <2>2. \A id \in Ids : views[id] \in Nat /\ views[id] <= views[id]
      BY BudgetTypes DEF BudgetInv
    <2>3. /\ \A d \in Clients : Creating(d)' => Creating(d) /\ req'[d].id = req[d].id
          /\ \A d \in Clients : Opening(d)' => req'[d].id \in Links
      BY <2>1 DEF Creating, Opening, BudgetInv, FollowsLink
    <2> QED BY <1>1, <2>1, <2>2, <2>3, TakingAway
  <1> QED BY <1>2, <1>3

\* The inductive invariant holds in every reachable state.
THEOREM BudgetInvariant == Spec => []BudgetInv
  BY BudgetInit, BudgetNext, PTL DEF Spec

\* No secret yields its ciphertext more often than its creator allowed, however
\* many requests race, fail or are cut off by a crash between the budget's
\* transaction and the burn's (secretviews/store.go:59-63, secrets/store.go:81-83).
THEOREM BudgetNeverExceeded == Spec => []WithinBudget
  <1>1. BudgetInv => WithinBudget
    <2> SUFFICES ASSUME BudgetInv, NEW id \in Ids
                 PROVE  released[id] <= minted[id].views
      BY DEF WithinBudget
    <2>1. /\ released[id] \in Nat /\ Obtainable(id) \in Nat /\ minted[id].views \in Nat
          /\ released[id] + Obtainable(id) <= minted[id].views
      BY BudgetTypes DEF BudgetInv, Conserved
    <2> QED BY <2>1
  <1> QED BY <1>1, BudgetInvariant, PTL

-----------------------------------------------------------------------------
(* Privacy. That a stored private secret keeps its mark rests on ids never  *)
(* coming back once their secret is gone: only then are the sweeper's       *)
(* check-then-delete and the delayed clean-up after a burn harmless.        *)

\* Only minted ids are marked, or under the sweeper's eye.
MarksMinted ==
  \A id \in visibility \cup guarded \cup visSweep.todo \cup visSweep.gone :
    minted[id].views >= 1

\* An id the sweeper found to be an orphan stays one.
SweptAreGone == visSweep.gone \cap secrets = {}

\* A reveal that is about to drop the mark has burned the secret.
BurnedAreGone == \A c \in Clients : req[c].at = "drop" => req[c].id \notin secrets

\* What the gate decided still holds at every later step of the reveal.
GateHolds(at, id, session) ==
  at \in RevealSteps /\ AuthEnabled /\ ~session =>
    ~GateAll /\ id \notin guarded \cap secrets
GateStillHolds == \A c \in Clients : GateHolds(req[c].at, req[c].id, req[c].session)

MarkInv ==
  /\ BudgetInv
  /\ MarkedWhileStored
  /\ MarksMinted
  /\ SweptAreGone
  /\ BurnedAreGone
  /\ GateStillHolds

LEMMA MarkInit == Init => MarkInv
  BY BudgetInit
     DEF Init, MarkInv, MarkedWhileStored, MarksMinted, SweptAreGone, BurnedAreGone,
         GateStillHolds, GateHolds, Resting, Idle, Request, RevealSteps

\* A step that takes marks and secrets away, the marks only of absent secrets.
LEMMA MarksTakenAway ==
  ASSUME MarkInv, BudgetInv',
         UNCHANGED <<minted, guarded>>,
         secrets' \subseteq secrets,
         visibility' \subseteq visibility,
         (visibility \ visibility') \cap secrets' = {},
         visSweep'.todo \subseteq visSweep.todo \cup visibility,
         visSweep'.gone \subseteq visSweep.gone \cup visSweep.todo,
         visSweep'.gone \cap secrets' = {},
         \A c \in Clients : req'[c].at = "drop" => req'[c].id \notin secrets',
         \A c \in Clients : GateHolds(req[c].at, req[c].id, req[c].session)'
  PROVE  MarkInv'
  <1>1. MarkedWhileStored'
    BY DEF MarkInv, MarkedWhileStored
  <1>2. MarksMinted'
    BY DEF MarkInv, MarksMinted
  <1>3. SweptAreGone' /\ BurnedAreGone' /\ GateStillHolds'
    BY DEF SweptAreGone, BurnedAreGone, GateStillHolds
  <1> QED BY <1>1, <1>2, <1>3 DEF MarkInv

\* A request moves on, or ends; only the secrets bucket may shrink.
LEMMA MarkContinues ==
  ASSUME MarkInv, BudgetInv', NEW c \in Clients,
         UNCHANGED <<minted, guarded, visibility, visSweep>>,
         secrets' \subseteq secrets,
         \/ Finish(c)
         \/ \E step \in Steps : /\ GoTo(c, step)
                                /\ step \in RevealSteps => req[c].at \in RevealSteps
                                /\ step = "drop" => req[c].id \notin secrets'
  PROVE  MarkInv'
  <1>0. TypeOK
    BY DEF MarkInv, BudgetInv
  <1>1. \A d \in Clients :
          /\ req'[d].at = "drop" => req'[d].id \notin secrets'
          /\ GateHolds(req[d].at, req[d].id, req[d].session)'
    <2>1. CASE Finish(c)
      BY <1>0, <2>1, FinishEffect
         DEF MarkInv, BurnedAreGone, GateStillHolds, GateHolds, Idle, Request, RevealSteps
    <2>2. ASSUME NEW step \in Steps, GoTo(c, step),
                 step \in RevealSteps => req[c].at \in RevealSteps,
                 step = "drop" => req[c].id \notin secrets',
                 NEW d \in Clients
          PROVE  /\ req'[d].at = "drop" => req'[d].id \notin secrets'
                 /\ GateHolds(req[d].at, req[d].id, req[d].session)'
      <3>1. /\ req'[c].at = step /\ req'[c].id = req[c].id
            /\ req'[c].session = req[c].session
            /\ \A e \in Clients \ {c} : req'[e] = req[e]
        BY <1>0, <2>2, GoToEffect
      <3>2. CASE d = c
        BY <2>2, <3>1, <3>2 DEF MarkInv, GateStillHolds, GateHolds
      <3>3. CASE d # c
        BY <3>1, <3>3 DEF MarkInv, BurnedAreGone, GateStillHolds, GateHolds
      <3> QED BY <3>2, <3>3
    <2> QED BY <2>1, <2>2
  <1>2. visSweep'.gone \cap secrets' = {}
    BY DEF MarkInv, SweptAreGone
  <1> QED BY <1>1, <1>2, MarksTakenAway

\* A request opening an id is not opening one that is being created, or that
\* nobody minted.
LEMMA OpenedAreKnown ==
  ASSUME BudgetInv, NEW c \in Clients, Opening(c)
  PROVE  /\ \A d \in Clients : Creating(d) => req[d].id # req[c].id
         /\ req[c].id # Mistyped => minted[req[c].id].views # 0
  BY BudgetTypes DEF BudgetInv, FollowsLink, Links, Unknown, Untouched

LEMMA MarkCreate ==
  ASSUME MarkInv, BudgetInv', NEW c \in Clients, CreateNext(c)
  PROVE  MarkInv'
  <1> USE DEF buckets, sweepers, bounds, history
  <1>0. TypeOK /\ BudgetInv /\ req[c].id \in Ids
    BY BudgetTypes DEF MarkInv, BudgetInv
  <1>1. ASSUME NEW id \in Ids, NEW n \in 1..Ceiling, NEW private \in BOOLEAN,
               NEW ttl \in Lifetimes, Create(c, id, n, private, ttl)
        PROVE  MarkInv'
    <2>1. /\ minted[id].views = 0 /\ id # Mistyped
          /\ \A other \in Ids \ {id} : minted'[other] = minted[other]
          /\ secrets' = secrets \cup {id}
          /\ UNCHANGED <<visibility, guarded, visSweep>>
      BY <1>0, <1>1, CeilingType DEF Create, Unminted, TypeOK
    <2>2. /\ req'[c].at = "views"
          /\ \A d \in Clients \ {c} : req'[d] = req[d]
      BY <1>0, <1>1 DEF Create, Request, TypeOK
    <2>3. id \notin visibility \cup guarded \cup visSweep.todo \cup visSweep.gone
      BY <2>1 DEF MarkInv, MarksMinted
    <2>4. \A d \in Clients : Opening(d) => req[d].id # id
      BY <1>0, <2>1, OpenedAreKnown
    <2>5. MarkedWhileStored' /\ SweptAreGone'
      BY <2>1, <2>3 DEF MarkInv, MarkedWhileStored, SweptAreGone
    <2>6. MarksMinted'
      BY <1>0, <2>1, <2>3 DEF MarkInv, MarksMinted, TypeOK, Sweeps
    <2>7. BurnedAreGone'
      BY <2>1, <2>2, <2>4 DEF MarkInv, BurnedAreGone, Opening, RevealSteps
    <2>8. GateStillHolds'
      BY <2>1, <2>2, <2>3, <2>4
         DEF MarkInv, GateStillHolds, GateHolds, RevealSteps
    <2> QED BY <2>5, <2>6, <2>7, <2>8 DEF MarkInv
  <1>2. CASE RecordViews(c)
    <2>1. /\ GoTo(c, "visibility")
          /\ UNCHANGED <<minted, guarded, visibility, visSweep, secrets>>
      BY <1>2 DEF RecordViews
    <2>2. "visibility" \in Steps /\ "visibility" \notin RevealSteps
      BY DEF Steps, CreateSteps, RevealSteps
    <2> QED BY <2>1, <2>2, MarkContinues DEF RevealSteps
  <1>3. CASE RecordVisibility(c)
    <2>1. Creating(c) /\ minted[req[c].id].views >= 1
      BY <1>0, <1>3
         DEF RecordVisibility, Creating, CreateSteps, BudgetInv, Unknown
    <2>2. /\ req'[c].at = "reply"
          /\ \A d \in Clients \ {c} : req'[d] = req[d]
      BY <1>0, <1>3, GoToEffect DEF RecordVisibility
    <2>3. PICK marked \in SUBSET {req[c].id} :
            /\ visibility' = visibility \cup marked
            /\ guarded' = guarded \cup marked
            /\ UNCHANGED <<minted, secrets, visSweep>>
      BY <1>3 DEF RecordVisibility
    <2>4. MarkedWhileStored' /\ SweptAreGone'
      BY <2>3 DEF MarkInv, MarkedWhileStored, SweptAreGone
    <2>5. MarksMinted'
      BY <2>1, <2>3 DEF MarkInv, MarksMinted
    <2>6. BurnedAreGone'
      BY <2>2, <2>3 DEF MarkInv, BurnedAreGone
    <2>7. \A d \in Clients : Opening(d) => req[d].id # req[c].id
      BY <1>0, <2>1, OpenedAreKnown
    <2>8. GateStillHolds'
      BY <2>2, <2>3, <2>7
         DEF MarkInv, GateStillHolds, GateHolds, Opening, RevealSteps
    <2> QED BY <2>4, <2>5, <2>6, <2>8 DEF MarkInv
  <1>4. CASE Reply(c)
    <2>1. /\ Finish(c) /\ UNCHANGED <<minted, guarded, visibility, visSweep, secrets>>
      BY <1>4 DEF Reply
    <2> QED BY <2>1, MarkContinues
  <1> QED BY <1>1, <1>2, <1>3, <1>4 DEF CreateNext

LEMMA MarkOpen ==
  ASSUME MarkInv, BudgetInv', NEW c \in Clients, OpenNext(c)
  PROVE  MarkInv'
  <1> USE DEF buckets, sweepers, bounds, history
  <1>0. TypeOK /\ req[c].id \in Ids
    BY BudgetTypes DEF MarkInv, BudgetInv
  <1>s. /\ {"annotate", "peek", "burn", "drop", "reap"} \subseteq Steps
        /\ {"peek", "burn", "reap", "drop", "consume"} \subseteq RevealSteps
        /\ {"annotate", "lookup", "metaReap"} \cap RevealSteps = {}
    BY DEF Steps, MetaSteps, RevealSteps
  <1>1. ASSUME NEW id \in Links, NEW session \in Sessions,
               NEW step \in {"lookup", "consume"}, Arrive(c, id, session, step)
        PROVE  MarkInv'
    <2>1. /\ req'[c].at = step /\ req'[c].id = id /\ req'[c].session = session
          /\ \A d \in Clients \ {c} : req'[d] = req[d]
          /\ UNCHANGED <<minted, guarded, visibility, visSweep, secrets>>
      BY <1>0, <1>1 DEF Arrive, Request, TypeOK
    <2>2. \A d \in Clients : req'[d].at = "drop" => req'[d].id \notin secrets'
      BY <2>1 DEF MarkInv, BurnedAreGone
    <2>3. AuthEnabled /\ ~session => ~GateAll /\ id \notin guarded \cap secrets
      BY <1>1 DEF Arrive, MayOpen, MarkInv, MarkedWhileStored
    <2>4. \A d \in Clients : GateHolds(req[d].at, req[d].id, req[d].session)'
      BY <2>1, <2>3 DEF MarkInv, GateStillHolds, GateHolds
    <2>5. visSweep'.gone \cap secrets' = {}
      BY <2>1 DEF MarkInv, SweptAreGone
    <2> QED BY <2>1, <2>2, <2>4, <2>5, MarksTakenAway
  <1>2. CASE Lookup(c)
    <2>1. /\ req'[c].at \notin RevealSteps
          /\ \A d \in Clients \ {c} : req'[d] = req[d]
          /\ UNCHANGED <<minted, guarded, visibility, visSweep, secrets>>
      BY <1>0, <1>s, <1>2, BudgetTypes DEF Lookup, TypeOK, Requests
    <2>2. \A d \in Clients : req'[d].at = "drop" => req'[d].id \notin secrets'
      BY <1>s, <2>1 DEF MarkInv, BurnedAreGone
    <2>3. \A d \in Clients : GateHolds(req[d].at, req[d].id, req[d].session)'
      BY <2>1 DEF MarkInv, GateStillHolds, GateHolds
    <2>4. visSweep'.gone \cap secrets' = {}
      BY <2>1 DEF MarkInv, SweptAreGone
    <2> QED BY <2>1, <2>2, <2>3, <2>4, MarksTakenAway
  <1>3. CASE MetaReap(c)
    <2>1. /\ GoTo(c, "annotate") /\ secrets' \subseteq secrets
          /\ UNCHANGED <<minted, guarded, visibility, visSweep>>
      BY <1>3 DEF MetaReap
    <2> QED BY <1>s, <2>1, MarkContinues
  <1>4. CASE PassToReveal(c) \/ Peek(c)
    <2>1. /\ req[c].at \in RevealSteps
          /\ GoTo(c, "peek") \/ GoTo(c, "reap") \/ GoTo(c, "burn")
          /\ UNCHANGED <<minted, guarded, visibility, visSweep, secrets>>
      BY <1>s, <1>4 DEF PassToReveal, Peek
    <2> QED BY <1>s, <2>1, MarkContinues
  <1>5. CASE Annotate(c) \/ ServeView(c) \/ Reap(c) \/ BurnNothing(c)
    <2>1. /\ Finish(c) /\ secrets' \subseteq secrets
          /\ UNCHANGED <<minted, guarded, visibility, visSweep>>
      BY <1>5 DEF Annotate, ServeView, Reap, BurnNothing
    <2> QED BY <2>1, MarkContinues
  <1>6. CASE Burn(c)
    <2>1. /\ req[c].at \in RevealSteps /\ GoTo(c, "drop")
          /\ secrets' \subseteq secrets /\ req[c].id \notin secrets'
          /\ UNCHANGED <<minted, guarded, visibility, visSweep>>
      BY <1>s, <1>6 DEF Burn
    <2> QED BY <1>s, <2>1, MarkContinues
  <1>7. CASE DropVisibility(c)
    <2>1. /\ Finish(c) /\ req[c].at = "drop" /\ visibility' = visibility \ {req[c].id}
          /\ UNCHANGED <<minted, guarded, visSweep, secrets>>
      BY <1>7 DEF DropVisibility
    <2>2. req[c].id \notin secrets
      BY <2>1 DEF MarkInv, BurnedAreGone
    <2>3. \A d \in Clients : req'[d].at = "drop" => req'[d].id \notin secrets'
      BY <1>0, <2>1, FinishEffect DEF MarkInv, BurnedAreGone, Idle, Request
    <2>4. \A d \in Clients : GateHolds(req[d].at, req[d].id, req[d].session)'
      BY <1>0, <2>1, FinishEffect
         DEF MarkInv, GateStillHolds, GateHolds, Idle, Request, RevealSteps
    <2>5. visSweep'.gone \cap secrets' = {}
      BY <2>1 DEF MarkInv, SweptAreGone
    <2> QED BY <2>1, <2>2, <2>3, <2>4, <2>5, MarksTakenAway
  <1> QED BY <1>1, <1>2, <1>3, <1>4, <1>5, <1>6, <1>7 DEF OpenNext

LEMMA MarkBackground ==
  ASSUME MarkInv, BudgetInv',
         \/ SecretSweep \/ VisibilitySweepNext \/ ViewsSweepNext
         \/ VisibilitySweepError \/ ViewsSweepError \/ Tick \/ UNCHANGED vars
  PROVE  MarkInv'
  <1> USE DEF buckets, sweepers, bounds, history
  <1>1. UNCHANGED <<minted, guarded, req>> /\ secrets' \subseteq secrets
    BY DEF SecretSweep, VisibilitySweepNext, VisibilityList, VisibilityLookup,
           VisibilityDelete, ViewsSweepNext, ViewsList, ViewsLookup, ViewsDelete,
           VisibilitySweepError, ViewsSweepError, Tick, vars
  <1>2. \A d \in Clients : /\ req'[d].at = "drop" => req'[d].id \notin secrets'
                           /\ GateHolds(req[d].at, req[d].id, req[d].session)'
    BY <1>1 DEF MarkInv, BurnedAreGone, GateStillHolds, GateHolds
  <1>3. visSweep \in Sweeps
    BY DEF MarkInv, BudgetInv, TypeOK
  <1> DEFINE Harmless ==
        /\ visibility' \subseteq visibility
        /\ (visibility \ visibility') \cap secrets' = {}
        /\ visSweep'.todo \subseteq visSweep.todo \cup visibility
        /\ visSweep'.gone \subseteq visSweep.gone \cup visSweep.todo
        /\ visSweep'.gone \cap secrets' = {}
  <1>4. Harmless
    <2>1. CASE VisibilityList
      BY <1>1, <2>1 DEF VisibilityList
    <2>2. ASSUME NEW id \in Ids, VisibilityLookup(id)
          PROVE  Harmless
      BY <1>1, <2>2 DEF VisibilityLookup
    <2>3. CASE VisibilityDelete
      BY <1>1, <1>3, <2>3 DEF VisibilityDelete, MarkInv, SweptAreGone, Sweeps
    <2>4. CASE VisibilitySweepError
      BY <1>1, <1>3, <2>4 DEF VisibilitySweepError, SkipNext, MarkInv, SweptAreGone, Sweeps
    <2>5. CASE UNCHANGED <<visibility, visSweep>>
      BY <1>1, <2>5 DEF MarkInv, SweptAreGone
    <2> QED
      BY <2>1, <2>2, <2>3, <2>4, <2>5
         DEF SecretSweep, VisibilitySweepNext, ViewsSweepNext, ViewsList, ViewsLookup,
             ViewsDelete, ViewsSweepError, Tick, vars
  <1> QED BY <1>1, <1>2, <1>4, MarksTakenAway

LEMMA MarkFailure ==
  ASSUME MarkInv, BudgetInv', Crash \/ \E c \in Clients : StoreError(c)
  PROVE  MarkInv'
  <1> USE DEF buckets, sweepers, bounds, history
  <1>0. TypeOK
    BY DEF MarkInv, BudgetInv
  <1>1. CASE Crash
    <2>1. /\ UNCHANGED <<minted, guarded, secrets, visibility>>
          /\ \A d \in Clients : req'[d] = Idle
          /\ visSweep' = Resting
      BY <1>1 DEF Crash
    <2>2. \A d \in Clients : /\ req'[d].at = "drop" => req'[d].id \notin secrets'
                             /\ GateHolds(req[d].at, req[d].id, req[d].session)'
      BY <2>1 DEF GateHolds, Idle, Request, RevealSteps
    <2>3. visSweep'.gone = {} /\ visSweep'.todo = {}
      BY <2>1 DEF Resting
    <2> QED BY <2>1, <2>2, <2>3, MarksTakenAway
  <1>2. ASSUME NEW c \in Clients, StoreError(c)
        PROVE  MarkInv'
    <2>1. UNCHANGED <<minted, guarded, secrets, visibility, visSweep>>
      BY <1>2 DEF StoreError
    <2>2. CASE AfterError(req[c].at) = "idle"
      <3>1. Finish(c)
        BY <1>2, <2>2 DEF StoreError, Finish
      <3> QED BY <2>1, <3>1, MarkContinues
    <2>3. CASE AfterError(req[c].at) # "idle"
      <3>1. /\ req'[c].at = AfterError(req[c].at)
            /\ \A d \in Clients \ {c} : req'[d] = req[d]
        BY <1>0, <1>2, <2>3, BudgetTypes DEF StoreError, TypeOK, Requests
      <3>2. req'[c].at \in {"visibility", "reply", "annotate"}
        BY <2>3, <3>1 DEF AfterError
      <3>3. \A d \in Clients : /\ req'[d].at = "drop" => req'[d].id \notin secrets'
                               /\ GateHolds(req[d].at, req[d].id, req[d].session)'
        BY <2>1, <3>1, <3>2
           DEF MarkInv, BurnedAreGone, GateStillHolds, GateHolds, RevealSteps
      <3>4. visSweep'.gone \cap secrets' = {}
        BY <2>1 DEF MarkInv, SweptAreGone
      <3> QED BY <2>1, <3>3, <3>4, MarksTakenAway
    <2> QED BY <2>2, <2>3
  <1> QED BY <1>1, <1>2

LEMMA MarkNext == MarkInv /\ [Next]_vars => MarkInv'
  <1> SUFFICES ASSUME MarkInv, [Next]_vars PROVE MarkInv'
    OBVIOUS
  <1>1. BudgetInv'
    BY BudgetNext DEF MarkInv
  <1> QED BY <1>1, MarkCreate, MarkOpen, MarkBackground, MarkFailure DEF Next

THEOREM MarkInvariant == Spec => []MarkInv
  BY MarkInit, MarkNext, PTL DEF Spec

\* A stored secret that was marked private is never unmarked, whatever the
\* sweeper, burns, crashes and failed writes do (middleware.go:97-101).
THEOREM MarkKept == Spec => []MarkedWhileStored
  <1>1. MarkInv => MarkedWhileStored
    BY DEF MarkInv
  <1> QED BY <1>1, MarkInvariant, PTL

\* A reveal that releases the ciphertext of a stored private secret, or of any
\* secret under gate = all, was made with a session, although the gate looked
\* several transactions earlier (middleware.go:63-95).
THEOREM SessionNeeded == Spec => PrivateNeedsSession
  <1> DEFINE Step == \A c \in Clients :
        Reveals(c) /\ AuthEnabled /\ (GateAll \/ req[c].id \in guarded \cap secrets)
          => req[c].session
  <1>1. MarkInv => Step
    <2> SUFFICES ASSUME MarkInv, NEW c \in Clients, Reveals(c), AuthEnabled,
                        GateAll \/ req[c].id \in guarded \cap secrets
                 PROVE  req[c].session
      OBVIOUS
    <2>1. req[c].at \in RevealSteps
      BY DEF Reveals, RevealSteps
    <2>2. GateHolds(req[c].at, req[c].id, req[c].session)
      BY DEF MarkInv, GateStillHolds
    <2> QED BY <2>1, <2>2 DEF GateHolds
  <1> HIDE DEF Step
  <1>2. Spec => [][Step]_vars
    BY <1>1, MarkInvariant, PTL
  <1> QED BY <1>2 DEF Step, PrivateNeedsSession

-----------------------------------------------------------------------------
(* Refinement: the buckets implement one atomic counter per link.           *)

\* A step that only takes records away.
Lossy == /\ UNCHANGED <<minted, handedOut, released>>
         /\ secrets' \subseteq secrets
         /\ \A id \in Ids : views'[id] <= views[id]

\* Only five actions are more than that.
LEMMA StepKinds ==
  ASSUME TypeOK, [Next]_vars
  PROVE  \/ Lossy
         \/ \E c \in Clients :
              \/ \E id \in Ids, n \in 1..Ceiling, private \in BOOLEAN, ttl \in Lifetimes :
                   Create(c, id, n, private, ttl)
              \/ RecordViews(c) \/ Reply(c) \/ ServeView(c) \/ Burn(c)
  <1> USE DEF buckets, sweepers, bounds, history
  <1>0. \A id \in Ids : views[id] \in Nat /\ views[id] <= views[id]
    BY BudgetTypes
  <1>1. ASSUME NEW c \in Clients, RecordVisibility(c)
        PROVE  Lossy
    BY <1>0, <1>1 DEF RecordVisibility, Lossy
  <1>2. ASSUME NEW c \in Clients, OpenNext(c), ~ServeView(c), ~Burn(c)
        PROVE  Lossy
    <2>1. CASE PassToReveal(c)
      BY <1>0, <2>1 DEF PassToReveal, Lossy, TypeOK
    <2>2. CASE ~PassToReveal(c)
      BY <1>0, <1>2, <2>2
         DEF OpenNext, Arrive, Lookup, MetaReap, Annotate, Peek, Reap, BurnNothing,
             DropVisibility, Lossy
    <2> QED BY <2>1, <2>2
  <1>3. ASSUME SecretSweep \/ VisibilitySweepNext \/ ViewsSweepNext
        PROVE  Lossy
    <2>1. CASE ViewsDelete
      BY <1>0, <2>1 DEF ViewsDelete, Lossy
    <2>2. CASE ~ViewsDelete
      BY <1>0, <1>3, <2>2
         DEF SecretSweep, VisibilitySweepNext, VisibilityList, VisibilityLookup,
             VisibilityDelete, ViewsSweepNext, ViewsList, ViewsLookup, Lossy
    <2> QED BY <2>1, <2>2
  <1>4. ASSUME \/ VisibilitySweepError \/ ViewsSweepError \/ Tick \/ Crash
               \/ \E c \in Clients : StoreError(c)
        PROVE  Lossy
    BY <1>0, <1>4
       DEF VisibilitySweepError, ViewsSweepError, Tick, Crash, StoreError, Lossy
  <1>5. CASE UNCHANGED vars
    BY <1>0, <1>5 DEF vars, Lossy
  <1> QED BY <1>1, <1>2, <1>3, <1>4, <1>5 DEF Next, CreateNext

LeftBounded ==
  /\ LeftViews \in [Ids -> 0..Ceiling]
  /\ \A id \in Ids : Obtainable(id) <= minted[id].views

LEMMA LeftType == BudgetInv => LeftBounded
  <1> SUFFICES ASSUME BudgetInv PROVE LeftBounded
    OBVIOUS
  <1>1. ASSUME NEW id \in Ids
        PROVE  /\ Obtainable(id) <= minted[id].views
               /\ Obtainable(id) \in 0..Ceiling
    <2>1. /\ released[id] \in Nat /\ Obtainable(id) \in Nat
          /\ minted[id].views \in 0..Ceiling
      BY BudgetTypes DEF BudgetInv, TypeOK, Shares
    <2>2. released[id] + Obtainable(id) <= minted[id].views
      BY DEF BudgetInv, Conserved
    <2> QED BY <2>1, <2>2, CeilingType
  <1> QED BY <1>1, CeilingType DEF LeftViews, LeftBounded

LEMMA LeftTypeNext == BudgetInv' => LeftBounded'
  BY LeftType, PTL

\* A lossy step forfeits views.
LEMMA LossyForfeits ==
  ASSUME BudgetInv, BudgetInv', Lossy
  PROVE  Budget!Forfeit
  <1>1. LeftViews' \in [Ids -> 0..Ceiling]
    BY LeftTypeNext DEF LeftBounded
  <1>2. ASSUME NEW id \in Ids
        PROVE  LeftViews'[id] <= LeftViews[id]
    <2>1. views[id] \in Nat /\ views'[id] \in Nat /\ views'[id] <= views[id]
      BY CeilingType DEF BudgetInv, TypeOK, Lossy
    <2> QED BY <2>1 DEF Lossy, LeftViews, Obtainable
  <1>3. OfferedViews' = OfferedViews /\ released' = released
    BY DEF Lossy, OfferedViews
  <1> QED BY <1>1, <1>2, <1>3 DEF Budget!Forfeit

\* ServeView and Burn are a Release.
LEMMA ReleaseStep ==
  ASSUME BudgetInv, BudgetInv', NEW c \in Clients, ServeView(c) \/ Burn(c)
  PROVE  Budget!Release(req[c].id)
  <1> USE DEF buckets, sweepers, bounds, history
  <1>p. PICK id \in Ids : id = req[c].id
    BY BudgetTypes DEF BudgetInv
  <1>0. TypeOK /\ views[id] \in Nat
    BY BudgetTypes DEF BudgetInv
  <1>1. /\ UNCHANGED <<minted, handedOut>>
        /\ released' = [released EXCEPT ![id] = @ + 1]
        /\ \/ views[id] > 1 /\ views' = [views EXCEPT ![id] = @ - 1] /\ secrets' = secrets
           \/ id \in secrets /\ secrets' = secrets \ {id} /\ views' = views
        /\ id \in Links
    BY <1>p DEF ServeView, Burn, BudgetInv, FollowsLink, Opening, RevealSteps
  <1>2. id \in handedOut
    BY <1>0, <1>1 DEF BudgetInv, Links, Untouched
  <1>3. /\ Obtainable(id) > 0
        /\ Obtainable(id)' = Obtainable(id) - 1
        /\ \A other \in Ids \ {id} : Obtainable(other)' = Obtainable(other)
    <2>1. CASE views[id] > 1 /\ views' = [views EXCEPT ![id] = @ - 1] /\ secrets' = secrets
      <3>1. /\ views'[id] = views[id] - 1
            /\ \A other \in Ids \ {id} : views'[other] = views[other]
        BY <1>0, <2>1 DEF TypeOK
      <3> QED BY <1>0, <2>1, <3>1 DEF Obtainable
    <2>2. CASE id \in secrets /\ secrets' = secrets \ {id} /\ views' = views
      BY <1>0, <2>2 DEF Obtainable
    <2> QED BY <1>1, <2>1, <2>2
  <1>4. LeftViews' = [LeftViews EXCEPT ![id] = @ - 1]
    BY <1>0, <1>1, <1>2, <1>3 DEF LeftViews
  <1>5. LeftViews[id] > 0
    BY <1>0, <1>2, <1>3 DEF LeftViews
  <1>6. OfferedViews' = OfferedViews
    BY <1>1 DEF OfferedViews
  <1> QED BY <1>p, <1>1, <1>4, <1>5, <1>6 DEF Budget!Release

\* The 201 response hands out the link, with what is left of its budget.
LEMMA ReplyHandsOut ==
  ASSUME BudgetInv, BudgetInv', NEW c \in Clients, Reply(c)
  PROVE  Budget!HandOut(req[c].id, minted[req[c].id].views)
  <1> USE DEF buckets, sweepers, bounds, history
  <1> DEFINE id == req[c].id
  <1>1. /\ id \in Ids
        /\ handedOut' = handedOut \cup {id}
        /\ UNCHANGED <<minted, secrets, views, released>>
    BY BudgetTypes DEF Reply, BudgetInv
  <1>2. id \notin handedOut
    BY DEF Reply, Creating, CreateSteps, BudgetInv, Unknown
  <1>3. \A other \in Ids : Obtainable(other)' = Obtainable(other)
    BY <1>1 DEF Obtainable
  <1>4. /\ OfferedViews[id] = 0
        /\ OfferedViews' = [OfferedViews EXCEPT ![id] = minted[id].views]
    BY <1>1, <1>2 DEF OfferedViews
  <1>5. LeftViews' \in [Ids -> 0..Ceiling] /\ LeftViews'[id] <= minted[id].views
    BY <1>1, <1>2, <1>3, LeftTypeNext DEF LeftBounded, LeftViews
  <1>6. \A other \in Ids \ {id} : LeftViews'[other] = LeftViews[other]
    BY <1>1, <1>3 DEF LeftViews
  <1> QED BY <1>1, <1>4, <1>5, <1>6 DEF Budget!HandOut

\* While an id is being created nothing of it shows.
LEMMA CreateStutters ==
  ASSUME BudgetInv, NEW c \in Clients,
         \/ \E id \in Ids, n \in 1..Ceiling, private \in BOOLEAN, ttl \in Lifetimes :
              Create(c, id, n, private, ttl)
         \/ RecordViews(c)
  PROVE  UNCHANGED <<OfferedViews, LeftViews, released>>
  <1> USE DEF buckets, sweepers, bounds, history
  <1> DEFINE Hidden(id) ==
        /\ id \notin handedOut
        /\ UNCHANGED <<handedOut, released>>
        /\ \A other \in Ids \ {id} :
             /\ minted'[other] = minted[other] /\ views'[other] = views[other]
             /\ other \in secrets' <=> other \in secrets
  <1>0. TypeOK
    BY DEF BudgetInv
  <1>1. ASSUME NEW id \in Ids, NEW n \in 1..Ceiling, NEW private \in BOOLEAN,
               NEW ttl \in Lifetimes, Create(c, id, n, private, ttl)
        PROVE  Hidden(id)
    BY <1>0, <1>1 DEF Create, BudgetInv, Untouched, Unminted, TypeOK
  <1>2. ASSUME RecordViews(c)
        PROVE  Hidden(req[c].id) /\ req[c].id \in Ids
    BY <1>0, <1>2, BudgetTypes
       DEF RecordViews, Creating, CreateSteps, BudgetInv, Unknown, TypeOK
  <1>3. PICK id \in Ids : Hidden(id)
    BY <1>1, <1>2
  <1> QED BY <1>3 DEF OfferedViews, LeftViews, Obtainable

LEMMA BudgetRefinement ==
  BudgetInv /\ BudgetInv' /\ [Next]_vars => [Budget!Next]_<<OfferedViews, LeftViews, released>>
  <1> SUFFICES ASSUME BudgetInv, BudgetInv', [Next]_vars
               PROVE  [Budget!Next]_<<OfferedViews, LeftViews, released>>
    OBVIOUS
  <1>0. TypeOK
    BY DEF BudgetInv
  <1>1. CASE Lossy
    BY <1>1, LossyForfeits DEF Budget!Next
  <1>2. ASSUME NEW c \in Clients, ServeView(c) \/ Burn(c)
        PROVE  Budget!Next
    BY <1>0, <1>2, ReleaseStep, BudgetTypes DEF Budget!Next
  <1>3. ASSUME NEW c \in Clients, Reply(c)
        PROVE  Budget!Next
    <2>1. /\ req[c].id \in Ids
          /\ minted[req[c].id].views \in 1..Ceiling
      BY <1>0, <1>3, BudgetTypes, CeilingType
         DEF Reply, Creating, CreateSteps, BudgetInv, Unknown, TypeOK, Shares
    <2> QED BY <1>3, <2>1, ReplyHandsOut DEF Budget!Next, Ceiling
  <1> QED BY <1>0, <1>1, <1>2, <1>3, CreateStutters, StepKinds

\* The refinement: for every instance, SecretShare implements ViewBudget.
THEOREM Refinement == Spec => ImplementsViewBudget
  <1>1. Init => Budget!Init
    BY DEF Init, Budget!Init, OfferedViews, LeftViews
  <1>2. Spec => []BudgetInv
    BY BudgetInvariant
  <1> QED
    BY <1>1, <1>2, BudgetRefinement, PTL
       DEF Spec, ImplementsViewBudget, Budget!Spec, Budget!budgetVars

=============================================================================
