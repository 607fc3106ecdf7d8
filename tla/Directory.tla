------------------------------ MODULE Directory ------------------------------
(***************************************************************************)
(* What the user records promise to those who ask for one thing at a time: *)
(* each operation finds what it requires and takes effect on one account,  *)
(* as a whole or not at all. An address belongs to one account, nobody's   *)
(* own doing changes what an admin decides, and user management leaves an  *)
(* enabled admin.                                                          *)
(*                                                                         *)
(* The handlers are sequences of transactions, and Accounts says how they  *)
(* come to this. What they do when several run at once is another matter.  *)
(***************************************************************************)
CONSTANTS Emails,  \* addresses
          HasOIDC  \* whether a provider signs people in

VARIABLES users,  \* a function from the addresses that have an account
          up      \* whether the server is running

Known(e) == e \in DOMAIN users
Admin(u) == u.role = "admin" /\ u.enabled
AnotherAdmin(e) == \E f \in DOMAIN users \ {e} : Admin(users[f])

\* No account but the one of e is touched.
Only(e) ==
  /\ DOMAIN users' \ {e} = DOMAIN users \ {e}
  /\ \A f \in DOMAIN users \ {e} : users'[f] = users[f]

Saved(e)   == Only(e) /\ e \in DOMAIN users'
Removed(e) == Only(e) /\ e \notin DOMAIN users'
Kept(e, fields) == \A field \in fields : users'[e][field] = users[e][field]
New(e) == /\ ~Known(e) /\ Saved(e)
          /\ users'[e].who = e /\ users'[e].codes = {}

Init == users = [e \in {} |-> e] /\ up = FALSE

\* An admin makes an account under an address that is free.
Create(e) == New(e) /\ ~users'[e].pinned

\* An admin changes an account. The last enabled admin stays one.
Manage(e) ==
  /\ Known(e) /\ Saved(e)
  /\ Kept(e, {"who", "pinned"})
  /\ users'[e].codes \in {users[e].codes, {}}
  /\ Admin(users[e]) => Admin(users'[e]) \/ AnotherAdmin(e)

\* An admin deletes an account, but not the last enabled admin's.
Delete(e) ==
  /\ Known(e) /\ Removed(e)
  /\ Admin(users[e]) => AnotherAdmin(e)

\* The owner of an enabled account signs in or changes the credentials.
Own(e) ==
  /\ Known(e) /\ users[e].enabled /\ Saved(e)
  /\ Kept(e, {"role", "enabled", "pinned", "who"})

\* The owner moves to a free address: the account is there first, and then no longer here.
Settle(e, new) ==
  /\ Known(e) /\ users[e].enabled
  /\ ~Known(new) /\ Saved(new) /\ users'[new] = users[e]

Leave(e) ==
  /\ Known(e) /\ Removed(e)
  /\ \E f \in DOMAIN users \ {e} : users[f] = users[e]

\* Somebody signs in through a provider, whose rules decide the role; pinned people stay
\* admin. The rules may demote the last admin.
Provision(e) ==
  /\ HasOIDC
  /\ \/ New(e) /\ users'[e].enabled
     \/ /\ Known(e) /\ users[e].enabled /\ Saved(e)
        /\ Kept(e, {"enabled", "who", "pw", "totp", "codes"})
        /\ users[e].pinned => users'[e].pinned
  /\ users'[e].pinned => users'[e].role = "admin"

Serving ==
  /\ up
  /\ \/ /\ up'
        /\ \E e \in Emails :
             \/ Create(e) \/ Manage(e) \/ Delete(e) \/ Own(e) \/ Leave(e) \/ Provision(e)
             \/ \E new \in Emails : Settle(e, new)
     \/ ~up' /\ UNCHANGED users

\* The operator or the seeding at start-up changes one account at a time, and without a
\* provider the server does not come up unless there is an admin.
Maintenance ==
  /\ ~up
  /\ UNCHANGED users \/ \E e \in Emails : Only(e)
  /\ up' => HasOIDC \/ \E e \in DOMAIN users' : users'[e].role = "admin"

Next == Serving \/ Maintenance

Spec == Init /\ [][Next]_<<users, up>>

=============================================================================
