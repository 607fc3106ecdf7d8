------------------------------ MODULE MCSignIn ------------------------------
(* SignIn on a small instance: families of configurations around a plain   *)
(* one, each varying what one part of start-up looks at.                    *)
EXTENDS SignIn, TLC

Shouted(name) == [name |-> name, form |-> "shouted"]
Padded(name)  == [name |-> name, form |-> "padded"]

MCNames == {"", "ann", "bob", "eve", "corp", "staff", "ops", "roles", "sso", "a-b", "a_b",
            "none", "user", "owner", "create", "all", "reveal", "rsa", "dsa",
            "manual", "self", "acme", "auto"}
MCDomainOf == [ann |-> "corp", bob |-> "corp", eve |-> "else"]
MCInfix == ("" :> "") @@ ("sso" :> "SSO") @@ ("a-b" :> "A_B") @@ ("a_b" :> "A_B")

Token(email, verified, groups) ==
  [email |-> email, verified |-> verified, groups |-> "roles" :> groups]
Ann == Token(Shouted("ann"), TRUE, {})
Eve == Token(Text("eve"), TRUE, {Text("staff")})
MCClaims == {Ann, Eve}
MCTokens ==
  {Token(e, v, g) : e \in {Shouted("ann"), Padded("bob"), Text("eve")}, v \in BOOLEAN,
                    g \in {{}, {Shouted("staff")}, {Padded("ops")}, {Text("ops"), Text("staff")}}}

Everything == {"issuer", "client_id", "client_secret"}
SSO == [NoProvider(Text("sso")) EXCEPT !.given = Everything, !.redirect = "sso",
                                       !.adminEmails = {Text("ann")}]

Plain ==
  [tls |-> [mode |-> "", given |-> {}, alg |-> NoText], sweepInterval |-> 1,
   secrets |-> [maxSize |-> 64, maxViews |-> 10, maxTTL |-> 10080, defaultTTL |-> 1440,
                allowedTTLs |-> {5, 60, 1440, 10080}],
   auth |-> [enabled |-> FALSE, gate |-> Text("create"), secretLength |-> 0, sessionTTL |-> 720,
             boot |-> [email |-> FALSE, password |-> 0], localLogin |-> TRUE, oidc |-> <<>>],
   metrics |-> [enabled |-> FALSE, addr |-> TRUE],
   files |-> [enabled |-> TRUE, maxSize |-> 5120]]
Private == [Plain EXCEPT !.auth.enabled = TRUE, !.auth.secretLength = 32]
ByOIDC == [Private EXCEPT !.auth.localLogin = FALSE, !.auth.oidc = <<SSO>>]
Open == [SSO EXCEPT !.id = Text("a-b"), !.redirect = "a-b", !.adminEmails = {}]

NoEnv == [providers |-> <<>>, vars |-> <<>>]
FromFile(files) == {[file |-> f, env |-> NoEnv] : f \in files}

Lifetimes == FromFile({
  [Plain EXCEPT !.secrets.maxTTL = m, !.secrets.defaultTTL = d, !.secrets.allowedTTLs = a] :
     m \in {Blank, 0, 60, 1440}, d \in {Blank, 0, 60, 1440}, a \in SUBSET {Blank, 5, 60, 1440}})
Sizes == FromFile({
  [Plain EXCEPT !.files = [enabled |-> e, maxSize |-> f], !.secrets.maxSize = s,
                !.secrets.maxViews = v, !.metrics = [enabled |-> e, addr |-> a],
                !.sweepInterval = i] :
     e \in BOOLEAN, f \in {0, 1024, 1025, 4096}, s \in {0, 1024}, v \in {0, 10}, a \in BOOLEAN,
     i \in {Blank, 0, 1}})
Transports == FromFile({
  [Plain EXCEPT !.tls = [mode |-> m, given |-> g, alg |-> a]] :
     m \in {"", "none", "manual", "self", "acme", "auto"}, g \in SUBSET {"cert", "key", "fqdn", "hosts"},
     a \in {NoText, Shouted("rsa"), Text("dsa")}})
Postures == FromFile({
  [Plain EXCEPT !.auth = [enabled |-> e, gate |-> g, secretLength |-> s, sessionTTL |-> t,
                          boot |-> [email |-> b, password |-> p], localLogin |-> l, oidc |-> o]] :
     e \in BOOLEAN, g \in {NoText, Shouted("create"), Padded("all"), Text("reveal")}, s \in {31, 32},
     t \in {Blank, 0, 720}, b \in BOOLEAN, p \in {0, 7, 8, 73}, l \in BOOLEAN, o \in {<<>>, <<SSO>>}})

With(p) == [ByOIDC EXCEPT !.auth.oidc = p]
Ids == {NoText, Text("sso"), Padded("sso"), Shouted("sso"), Text("a-b")}
Essentials == FromFile({
  With(<<[SSO EXCEPT !.id = id, !.given = g, !.redirect = r]>>) :
     id \in Ids, g \in SUBSET Everything, r \in {"", "sso", "a-b"}})
Pairs == FromFile({
  With(<<[SSO EXCEPT !.id = i, !.redirect = i.name],
         [SSO EXCEPT !.id = j, !.redirect = j.name, !.verified = "false"]>>) : i, j \in Ids})
Rules == FromFile({
  With(<<[SSO EXCEPT !.verified = v, !.allowedDomains = d, !.allowedEmails = e, !.adminEmails = a,
                     !.adminGroups = g, !.userGroups = u, !.groupsClaim = c, !.defaultRole = r]>>) :
     v \in {"unset", "false"}, d \in {{}, {Shouted("corp")}}, e \in {{}, {Padded("bob")}, {NoText}},
     a \in {{}, {Shouted("ann")}}, g \in {{}, {Text("ops")}}, u \in {{}, {Shouted("staff")}},
     c \in {NoText, Padded("roles")}, r \in {NoText, Padded("none"), Shouted("user"), Text("owner")}})
Environments == {
  [file |-> With(<<[SSO EXCEPT !.given = g]>>), env |-> [providers |-> l, vars |-> v]] :
     g \in {{"issuer", "client_id"}, {}},
     l \in {<<>>, <<Text("sso")>>, <<Text("sso"), Text("sso")>>, <<Text("a-b"), Text("a_b")>>},
     v \in {<<>>, "SSO" :> [given |-> {"client_secret"}],
            "SSO" :> [given |-> Everything, redirect |-> "sso", verified |-> "false"],
            "A_B" :> [given |-> Everything, redirect |-> "a-b"]}}

MCServed == FromFile({Plain, Private, With(<<SSO, Open>>)})
MCRawConfigs == Lifetimes \cup Sizes \cup Transports \cup Postures \cup Essentials \cup Pairs
                  \cup Rules \cup Environments \cup MCServed

\* What is drawn at random is interchangeable, and so are slots and accounts. (Browsers and
\* flows are, too; permuting them would cost more than it saves.)
Symmetric == Permutations(Owners) \cup Permutations(Handles) \cup Permutations(Challenges)
               \cup Permutations(Slots)

=============================================================================
