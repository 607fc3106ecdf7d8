------------------------------ MODULE OIDCFlow ------------------------------
(***************************************************************************)
(* Signing in through an identity provider: the redirect to it, the        *)
(* callback from it, and the cookie that ties the two to one browser.      *)
(*                                                                         *)
(* A flow stands for what Authorize draws at random: state, nonce and PKCE *)
(* verifier. The cookie carries all three, signed; the redirect URL carries *)
(* the state, the nonce and the verifier's hash. The server keeps nothing. *)
(* Redirect and callback URLs can be opened in any browser, any number of  *)
(* times and in any order, the other side of a round trip may be another   *)
(* flow by then, and the cookie may run out meanwhile.                     *)
(***************************************************************************)
EXTENDS Config

CONSTANTS
  Browsers,
  Claims,   \* what the identity providers say of the people who sign in
  Flows,    \* bound: flows begun
  Logins    \* bound: times somebody authenticates at a provider

VARIABLES
  providers,  \* the registry: from a provider's id to its rules
  begun,      \* the flows begun: [flow, prov, by]; their redirect URLs
  cookies,    \* share_oidc_state, per browser and callback path: [by, prov, flow]
  expired,    \* flows whose ten minutes are over
  urls,       \* callback URLs that the providers sent browsers to
  spent,      \* providers: codes exchanged
  callbacks,  \* callbacks past the state check, about to call the provider
  sessions,   \* history: sessions minted
  tried,      \* history: which browser had a code of which flow exchanged
  crossed     \* history: flows with two callbacks under way at once

idp == <<urls, spent>>
flowVars == <<providers, begun, cookies, expired, urls, spent, callbacks, sessions, tried, crossed>>

OIDCInit ==
  /\ providers = [p \in {} |-> {}]
  /\ begun = {} /\ cookies = {} /\ expired = {} /\ urls = {} /\ spent = {}
  /\ callbacks = {} /\ sessions = {} /\ tried = {} /\ crossed = {}

Others(b, p) == {c \in cookies : c.by # b \/ c.prov # p}

\* Authorize: what it draws, for a provider and the browser that asked.
Authorize(f, p, b) == [flow |-> f, prov |-> p, by |-> b]

\* OIDCStart: a new flow, and a cookie for the provider's callback path that
\* replaces the one of an earlier flow.
OIDCStart(b, p) ==
  /\ p \in DOMAIN providers
  /\ \E f \in Flows : /\ \A x \in begun : x.flow # f
                      /\ begun' = begun \cup {Authorize(f, p, b)}
                      /\ cookies' = Others(b, p) \cup {Authorize(f, p, b)}
  /\ UNCHANGED <<providers, expired, idp, callbacks, sessions, tried, crossed>>

\* Somebody opens a redirect URL and authenticates. The provider binds the code to the
\* flow's nonce and challenge.
Authenticate(x, claims) ==
  /\ x \in begun /\ \E n \in Logins :
       /\ \A u \in urls : u.code # n
       /\ urls' = urls \cup {[code |-> n, prov |-> x.prov, flow |-> x.flow, claims |-> claims]}
  /\ UNCHANGED <<providers, begun, cookies, expired, spent, callbacks, sessions, tried, crossed>>

\* StateCookieTTL passes. The browser drops the cookie sooner or later.
Expire(f) ==
  /\ \E x \in begun : x.flow = f
  /\ f \notin expired
  /\ expired' = expired \cup {f}
  /\ UNCHANGED <<providers, begun, cookies, idp, callbacks, sessions, tried, crossed>>

DropCookie(c) ==
  /\ c \in cookies /\ c.flow \in expired
  /\ cookies' = cookies \ {c}
  /\ UNCHANGED <<providers, begun, expired, idp, callbacks, sessions, tried, crossed>>

-----------------------------------------------------------------------------
(* OIDCCallback (domain/auth/oidc.go) and Exchange (core/oidc/flow.go).      *)

\* verifyState and the comparisons with the returned state and the callback path: c is
\* the cookie that browser b sends with the callback URL u.
StateHolds(b, u, c) ==
  /\ c.by = b /\ c.prov = u.prov
  /\ c.flow \notin expired
  /\ c.flow = u.flow
  /\ \E x \in begun : x.flow = c.flow /\ x.prov = u.prov

\* Wrong variant of Callback: the cookie's flow is not compared with the state returned.
CallbackAnyState(b, u) ==
  /\ u \in urls /\ \E c \in cookies :
       /\ c.by = b /\ c.prov = u.prov /\ c.flow \notin expired
       /\ callbacks' = callbacks \cup {[by |-> b, url |-> u, flow |-> c.flow]}
  /\ crossed' = crossed \cup {cb.flow : cb \in {d \in callbacks : d.flow = u.flow}}
  /\ UNCHANGED <<providers, begun, cookies, expired, idp, sessions, tried>>

\* Wrong variant of Callback: the flow is looked up by the state returned, without a cookie.
CallbackByState(b, u) ==
  /\ u \in urls /\ u.flow \notin expired
  /\ callbacks' = callbacks \cup {[by |-> b, url |-> u, flow |-> u.flow]}
  /\ crossed' = crossed \cup {cb.flow : cb \in {d \in callbacks : d.flow = u.flow}}
  /\ UNCHANGED <<providers, begun, cookies, expired, idp, sessions, tried>>

\* The callback passes; the handler keeps the verifier and nonce of the cookie's flow.
Callback(b, u) ==
  /\ u \in urls /\ \E c \in cookies :
       /\ StateHolds(b, u, c)
       /\ callbacks' = callbacks \cup {[by |-> b, url |-> u, flow |-> c.flow]}
  /\ crossed' = crossed \cup {cb.flow : cb \in {d \in callbacks : d.flow = u.flow}}
  /\ UNCHANGED <<providers, begun, cookies, expired, idp, sessions, tried>>

\* The callback fails, with or without a code; the deferred answer clears the cookie.
CallbackFails(b, p) ==
  /\ Others(b, p) # cookies
  /\ cookies' = Others(b, p)
  /\ UNCHANGED <<providers, begun, expired, idp, callbacks, sessions, tried, crossed>>

\* The provider answers the token request if the code is new and the verifier is the one
\* hashed into the challenge; the nonce is then the cookie's.
Exchanges(cb) == cb.url.code \notin spent /\ cb.flow = cb.url.flow

\* Wrong variant of CookiesAfter: only a failed callback clears its cookie.
CookiesAfterFailure(cb, failed) == IF failed THEN Others(cb.by, cb.url.prov) ELSE cookies

\* The deferred answer clears the cookie, whatever came of the callback.
CookiesAfter(cb, failed) == Others(cb.by, cb.url.prov)

\* The rest of OIDCCallback: the token exchange, Admit, and whatever provisionOIDC says,
\* which depends on the record (ProvisionOIDC of Accounts); a session or a refusal.
CallbackEnds(cb, provisioned) ==
  LET signsIn == /\ Exchanges(cb)
                 /\ Admit(providers[cb.url.prov], cb.url.claims)
                 /\ provisioned IN
  /\ cb \in callbacks
  /\ callbacks' = callbacks \ {cb}
  /\ spent' = spent \cup {cb.url.code}
  /\ tried' = tried \cup {[by |-> cb.by, flow |-> cb.url.flow]}
  /\ cookies' = CookiesAfter(cb, ~signsIn)
  /\ sessions' = IF signsIn
                   THEN sessions \cup {[by |-> cb.by, flow |-> cb.flow, code |-> cb.url.code]}
                   ELSE sessions
  /\ UNCHANGED <<providers, begun, expired, urls, crossed>>

OIDCNext ==
  \/ \E b \in Browsers, p \in DOMAIN providers : OIDCStart(b, p) \/ CallbackFails(b, p)
  \/ \E c \in cookies : DropCookie(c)
  \/ \E x \in begun, claims \in Claims : Authenticate(x, claims)
  \/ \E f \in Flows : Expire(f)
  \/ \E b \in Browsers, u \in urls : Callback(b, u)
  \/ \E cb \in callbacks, provisioned \in BOOLEAN : CallbackEnds(cb, provisioned)

-----------------------------------------------------------------------------
OIDCTypeOK ==
  /\ begun \subseteq [flow : Flows, prov : DOMAIN providers, by : Browsers]
  /\ cookies \subseteq [by : Browsers, prov : DOMAIN providers, flow : Flows]
  /\ expired \subseteq Flows /\ crossed \subseteq Flows
  /\ urls \subseteq [code : Logins, prov : DOMAIN providers, flow : Flows, claims : Claims]
  /\ spent \subseteq Logins
  /\ callbacks \subseteq [by : Browsers, url : urls, flow : Flows]
  /\ sessions \subseteq [by : Browsers, flow : Flows, code : Logins]
  /\ tried \subseteq [by : Browsers, flow : Flows]

StartedBy(b, f) == \E x \in begun : x.flow = f /\ x.by = b

\* Nobody is signed in by a flow that another browser started: "State guards against
\* CSRF" (core/oidc/flow.go), for callbacks delivered anywhere, late or again.
SessionForOwnFlow == \A s \in sessions : StartedBy(s.by, s.flow)

\* A callback that reaches the wrong browser does not use up the code: the state is
\* compared before the token exchange, so the right browser can still sign in.
MisdirectedCallbackKeepsCode == \A t \in tried : StartedBy(t.by, t.flow)

\* A flow signs in once, although its redirect URL can be opened again for another code
\* ("Clear the state cookie regardless of outcome - it's single-use",
\* domain/auth/oidc.go), unless two of its callbacks are handled at the same time.
FlowSignsInOnce ==
  \A s, t \in sessions : s.flow = t.flow /\ s.flow \notin crossed => s.code = t.code

=============================================================================
