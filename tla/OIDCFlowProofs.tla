--------------------------- MODULE OIDCFlowProofs ---------------------------
(***************************************************************************)
(* Why a flow signs in the browser that began it, and once: an inductive   *)
(* invariant of OIDCFlow, for any number of browsers, flows, providers and *)
(* sign-ins. SignInProofs makes theorems of a whole server out of it.      *)
(***************************************************************************)
EXTENDS OIDCFlow, TLAPS

-----------------------------------------------------------------------------
(* Type correctness.                                                        *)

\* Everything but the registry.
flowState == <<begun, cookies, expired, idp, callbacks, sessions, tried, crossed>>

LEMMA OIDCTypeInit == OIDCInit => OIDCTypeOK
  BY DEF OIDCInit, OIDCTypeOK

LEMMA OIDCTypeNext ==
  ASSUME OIDCTypeOK, OIDCNext
  PROVE  OIDCTypeOK'
  <1> USE DEF idp
  <1>1. ASSUME NEW b \in Browsers, NEW p \in DOMAIN providers,
               OIDCStart(b, p) \/ CallbackFails(b, p)
        PROVE  OIDCTypeOK'
    BY <1>1 DEF OIDCStart, CallbackFails, Others, Authorize, OIDCTypeOK
  <1>2. ASSUME NEW c \in cookies, DropCookie(c)
        PROVE  OIDCTypeOK'
    BY <1>2 DEF DropCookie, OIDCTypeOK
  <1>3. ASSUME NEW x \in begun, NEW claims \in Claims, Authenticate(x, claims)
        PROVE  OIDCTypeOK'
    BY <1>3 DEF Authenticate, OIDCTypeOK
  <1>4. ASSUME NEW f \in Flows, Expire(f)
        PROVE  OIDCTypeOK'
    BY <1>4 DEF Expire, OIDCTypeOK
  <1>5. ASSUME NEW b \in Browsers, NEW u \in urls, Callback(b, u)
        PROVE  OIDCTypeOK'
    BY <1>5 DEF Callback, StateHolds, OIDCTypeOK
  <1>6. ASSUME NEW cb \in callbacks, NEW provisioned \in BOOLEAN,
               CallbackEnds(cb, provisioned)
        PROVE  OIDCTypeOK'
    BY <1>6 DEF CallbackEnds, CookiesAfter, Others, OIDCTypeOK
  <1> QED BY <1>1, <1>2, <1>3, <1>4, <1>5, <1>6 DEF OIDCNext

-----------------------------------------------------------------------------
(* What ties a session to a browser. The server keeps nothing of a flow, so *)
(* each fact is about what a cookie or a URL carries.                       *)

\* A flow is begun once: by one browser, at one provider.
FlowsApart == \A x, y \in begun : x.flow = y.flow => x = y

\* A cookie is what Authorize gave to the browser that holds it.
CookiesGenuine == cookies \subseteq begun

\* A callback URL leads back to the provider of its flow.
UrlsGenuine == \A u \in urls : \E x \in begun : x.flow = u.flow /\ x.prov = u.prov

\* A callback past the state check is handled for the browser that began its flow,
\* and with that flow's secrets.
CallbacksOwn ==
  \A cb \in callbacks :
    cb.url \in urls /\ cb.flow = cb.url.flow /\ StartedBy(cb.by, cb.flow)

\* Two callbacks of a flow under way at once are on record.
CrossedOnRecord ==
  \A cb, other \in callbacks :
    cb.flow = other.flow /\ cb # other => cb.flow \in crossed

\* A flow that signed in has no cookie left and no callback under way.
SignedInIsOver ==
  \A s \in sessions : s.flow \notin crossed =>
    /\ \A c \in cookies : c.flow # s.flow
    /\ \A cb \in callbacks : cb.flow # s.flow

FlowInv ==
  /\ FlowsApart
  /\ CookiesGenuine
  /\ UrlsGenuine
  /\ CallbacksOwn
  /\ CrossedOnRecord
  /\ SignedInIsOver
  /\ SessionForOwnFlow
  /\ MisdirectedCallbackKeepsCode
  /\ FlowSignsInOnce

LEMMA FlowInit == OIDCInit => FlowInv
  BY DEF OIDCInit, FlowInv, FlowsApart, CookiesGenuine, UrlsGenuine, CallbacksOwn,
         CrossedOnRecord, SignedInIsOver, SessionForOwnFlow, MisdirectedCallbackKeepsCode,
         FlowSignsInOnce

\* The registry of providers plays no part in it.
LEMMA FlowQuiet == FlowInv /\ UNCHANGED flowState => FlowInv'
  BY DEF flowState, idp, FlowInv, FlowsApart, CookiesGenuine, UrlsGenuine, CallbacksOwn,
         CrossedOnRecord, SignedInIsOver, SessionForOwnFlow, MisdirectedCallbackKeepsCode,
         FlowSignsInOnce, StartedBy

\* A step that takes cookies away and adds to what providers and clocks did.
LEMMA FlowCookiesGo ==
  ASSUME FlowInv, UNCHANGED <<begun, urls, callbacks, sessions, tried, crossed>>,
         cookies' \subseteq cookies
  PROVE  FlowInv'
  BY DEF FlowInv, FlowsApart, CookiesGenuine, UrlsGenuine, CallbacksOwn,
         CrossedOnRecord, SignedInIsOver, SessionForOwnFlow, MisdirectedCallbackKeepsCode,
         FlowSignsInOnce, StartedBy

\* A flow begun anew is nobody's yet: no cookie, URL, callback or session names it.
LEMMA StartKeeps ==
  ASSUME FlowInv, NEW b \in Browsers, NEW p \in DOMAIN providers, OIDCStart(b, p)
  PROVE  FlowInv'
  <1> USE DEF idp
  <1>1. PICK f \in Flows :
          /\ \A x \in begun : x.flow # f
          /\ begun' = begun \cup {Authorize(f, p, b)}
          /\ cookies' = Others(b, p) \cup {Authorize(f, p, b)}
          /\ UNCHANGED <<urls, callbacks, sessions, tried, crossed>>
    BY DEF OIDCStart
  <1>2. Authorize(f, p, b).flow = f
    BY DEF Authorize
  <1>3. \A s \in sessions : s.flow # f
    BY <1>1 DEF FlowInv, SessionForOwnFlow, StartedBy
  <1>4. \A owner, flow : StartedBy(owner, flow) => StartedBy(owner, flow)'
    BY <1>1 DEF StartedBy
  <1>5. FlowsApart' /\ CookiesGenuine' /\ UrlsGenuine'
    BY <1>1, <1>2 DEF FlowInv, FlowsApart, CookiesGenuine, UrlsGenuine, Others
  <1>6. CallbacksOwn' /\ SessionForOwnFlow' /\ MisdirectedCallbackKeepsCode'
    <2>1. \A cb \in callbacks : StartedBy(cb.by, cb.flow)'
      BY <1>4 DEF FlowInv, CallbacksOwn
    <2>2. \A s \in sessions : StartedBy(s.by, s.flow)'
      BY <1>4 DEF FlowInv, SessionForOwnFlow
    <2>3. \A t \in tried : StartedBy(t.by, t.flow)'
      BY <1>4 DEF FlowInv, MisdirectedCallbackKeepsCode
    <2> QED
      BY <1>1, <2>1, <2>2, <2>3
         DEF FlowInv, CallbacksOwn, SessionForOwnFlow, MisdirectedCallbackKeepsCode, StartedBy
  <1>7. SignedInIsOver'
    BY <1>1, <1>2, <1>3 DEF FlowInv, SignedInIsOver, Others
  <1>8. CrossedOnRecord' /\ FlowSignsInOnce'
    BY <1>1 DEF FlowInv, CrossedOnRecord, FlowSignsInOnce
  <1> QED BY <1>5, <1>6, <1>7, <1>8 DEF FlowInv

\* Whoever authenticates, and whichever claims come back, the URL names the flow.
LEMMA AuthenticateKeeps ==
  ASSUME FlowInv, NEW x \in begun, NEW claims \in Claims, Authenticate(x, claims)
  PROVE  FlowInv'
  <1>1. PICK n \in Logins :
          /\ urls' = urls \cup {[code |-> n, prov |-> x.prov, flow |-> x.flow, claims |-> claims]}
          /\ UNCHANGED <<begun, cookies, callbacks, sessions, tried, crossed>>
    BY DEF Authenticate
  <1>2. UrlsGenuine' /\ CallbacksOwn'
    BY <1>1 DEF FlowInv, UrlsGenuine, CallbacksOwn, StartedBy
  <1> QED
    BY <1>1, <1>2
       DEF FlowInv, FlowsApart, CookiesGenuine, CrossedOnRecord, SignedInIsOver,
           SessionForOwnFlow, MisdirectedCallbackKeepsCode, FlowSignsInOnce, StartedBy

\* The state check: the cookie is the flow's, so the browser is the one that began it.
LEMMA CallbackKeeps ==
  ASSUME FlowInv, NEW b \in Browsers, NEW u \in urls, Callback(b, u)
  PROVE  FlowInv'
  <1> DEFINE new == [by |-> b, url |-> u, flow |-> u.flow]
  <1>1. PICK c \in cookies : StateHolds(b, u, c)
                             /\ callbacks' = callbacks \cup {[by |-> b, url |-> u, flow |-> c.flow]}
    BY DEF Callback
  <1>2. /\ callbacks' = callbacks \cup {new}
        /\ crossed' = crossed \cup {cb.flow : cb \in {d \in callbacks : d.flow = u.flow}}
        /\ UNCHANGED <<begun, cookies, urls, sessions, tried>>
        /\ c.by = b /\ c.flow = u.flow
    BY <1>1 DEF Callback, StateHolds, idp
  <1>3. StartedBy(b, u.flow)
    BY <1>2 DEF FlowInv, CookiesGenuine, StartedBy
  <1>4. CallbacksOwn'
    BY <1>2, <1>3 DEF FlowInv, CallbacksOwn, StartedBy
  <1>5. CrossedOnRecord'
    BY <1>2 DEF FlowInv, CrossedOnRecord
  <1>6. SignedInIsOver'
    <2>1. \A s \in sessions : s.flow \notin crossed => s.flow # u.flow
      BY <1>2 DEF FlowInv, SignedInIsOver
    <2> QED BY <1>2, <2>1 DEF FlowInv, SignedInIsOver
  <1>7. FlowSignsInOnce'
    BY <1>2 DEF FlowInv, FlowSignsInOnce
  <1> QED
    BY <1>2, <1>4, <1>5, <1>6, <1>7
       DEF FlowInv, FlowsApart, CookiesGenuine, UrlsGenuine, SessionForOwnFlow,
           MisdirectedCallbackKeepsCode, StartedBy

\* The answer to a callback clears the one cookie that carries its flow.
LEMMA FlowCookieCleared ==
  ASSUME FlowInv, NEW cb \in callbacks, NEW c \in Others(cb.by, cb.url.prov)
  PROVE  c \in cookies /\ c.flow # cb.flow
  <1>1. PICK x \in begun : x.flow = cb.flow /\ x.by = cb.by
    BY DEF FlowInv, CallbacksOwn, StartedBy
  <1>2. PICK y \in begun : y.flow = cb.url.flow /\ y.prov = cb.url.prov
    BY DEF FlowInv, CallbacksOwn, UrlsGenuine
  <1>3. x = y
    BY <1>1, <1>2 DEF FlowInv, CallbacksOwn, FlowsApart
  <1>4. c \in cookies /\ (c.by # cb.by \/ c.prov # cb.url.prov)
    BY DEF Others
  <1>5. c.flow = cb.flow => c = x
    BY <1>1, <1>4 DEF FlowInv, CookiesGenuine, FlowsApart
  <1> QED BY <1>1, <1>2, <1>3, <1>4, <1>5

LEMMA CallbackEndsKeeps ==
  ASSUME FlowInv, NEW cb \in callbacks, NEW provisioned \in BOOLEAN,
         CallbackEnds(cb, provisioned)
  PROVE  FlowInv'
  <1> DEFINE new == [by |-> cb.by, flow |-> cb.flow, code |-> cb.url.code]
  <1>1. /\ callbacks' = callbacks \ {cb}
        /\ tried' = tried \cup {[by |-> cb.by, flow |-> cb.url.flow]}
        /\ cookies' = Others(cb.by, cb.url.prov)
        /\ sessions' = sessions \/ sessions' = sessions \cup {new}
        /\ UNCHANGED <<begun, urls, crossed>>
    BY DEF CallbackEnds, CookiesAfter
  <1>2. \A c \in cookies' : c \in cookies /\ c.flow # cb.flow
    BY <1>1, FlowCookieCleared
  <1>3. cb.url \in urls /\ cb.flow = cb.url.flow /\ StartedBy(cb.by, cb.flow)
    BY DEF FlowInv, CallbacksOwn
  <1>4. CookiesGenuine' /\ CallbacksOwn' /\ CrossedOnRecord'
    BY <1>1, <1>2 DEF FlowInv, CookiesGenuine, CallbacksOwn, CrossedOnRecord, StartedBy
  <1>5. SessionForOwnFlow' /\ MisdirectedCallbackKeepsCode'
    BY <1>1, <1>3
       DEF FlowInv, SessionForOwnFlow, MisdirectedCallbackKeepsCode, StartedBy
  <1>6. cb.flow \notin crossed => \A other \in callbacks' : other.flow # cb.flow
    BY <1>1 DEF FlowInv, CrossedOnRecord
  <1>7. \A s \in sessions' : s \in sessions \/ (s.flow = cb.flow /\ s.code = cb.url.code)
    BY <1>1
  <1>8. SignedInIsOver'
    BY <1>1, <1>2, <1>6, <1>7 DEF FlowInv, SignedInIsOver
  <1>9. \A s \in sessions : s.flow \notin crossed => s.flow # cb.flow
    BY DEF FlowInv, SignedInIsOver
  <1>10. FlowSignsInOnce'
    BY <1>1, <1>7, <1>9 DEF FlowInv, FlowSignsInOnce
  <1> QED
    BY <1>1, <1>4, <1>5, <1>8, <1>10 DEF FlowInv, FlowsApart, UrlsGenuine

LEMMA FlowNext ==
  ASSUME FlowInv, OIDCNext
  PROVE  FlowInv'
  <1> USE DEF idp
  <1>1. ASSUME NEW b \in Browsers, NEW p \in DOMAIN providers, CallbackFails(b, p)
        PROVE  FlowInv'
    BY <1>1, FlowCookiesGo DEF CallbackFails, Others
  <1>2. ASSUME NEW c \in cookies, DropCookie(c)
        PROVE  FlowInv'
    BY <1>2, FlowCookiesGo DEF DropCookie
  <1>3. ASSUME NEW f \in Flows, Expire(f)
        PROVE  FlowInv'
    BY <1>3, FlowCookiesGo DEF Expire
  <1> QED
    BY <1>1, <1>2, <1>3, StartKeeps, AuthenticateKeeps, CallbackKeeps, CallbackEndsKeeps
       DEF OIDCNext

=============================================================================
