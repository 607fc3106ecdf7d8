------------------------------ MODULE ViewBudget ------------------------------
(***************************************************************************)
(* What a share link promises, with nothing said of how: a link is handed  *)
(* out once with a number of views, every reveal that yields ciphertext    *)
(* uses up one view, views may be forfeited (expiry, a crash, a failed     *)
(* write) and no view ever comes back.                                     *)
(*                                                                         *)
(* "exactly-once even under concurrent reads" (README.md:17) is this       *)
(* specification with offered[id] = 1.                                     *)
(***************************************************************************)
EXTENDS Naturals

CONSTANTS Ids,      \* link identifiers
          MaxViews  \* the largest number of views a link can be offered

VARIABLES offered,  \* offered[id]: views promised when id was handed out, else 0
          left,     \* left[id]: views that can still be had
          released  \* released[id]: reveals of id that yielded ciphertext

budgetVars == <<offered, left, released>>

Init == /\ offered  = [id \in Ids |-> 0]
        /\ left     = [id \in Ids |-> 0]
        /\ released = [id \in Ids |-> 0]

\* The creator learns the link. Part of the promise may be lost by then.
HandOut(id, n) ==
  /\ offered[id] = 0
  /\ offered' = [offered EXCEPT ![id] = n]
  /\ left' \in [Ids -> 0..MaxViews]
  /\ left'[id] <= n
  /\ \A other \in Ids \ {id} : left'[other] = left[other]
  /\ UNCHANGED released

\* One reveal yields ciphertext.
Release(id) ==
  /\ left[id] > 0
  /\ left' = [left EXCEPT ![id] = @ - 1]
  /\ released' = [released EXCEPT ![id] = @ + 1]
  /\ UNCHANGED offered

\* Views are lost without having been seen.
Forfeit ==
  /\ left' \in [Ids -> 0..MaxViews]
  /\ \A id \in Ids : left'[id] <= left[id]
  /\ UNCHANGED <<offered, released>>

Next == \/ \E id \in Ids, n \in 1..MaxViews : HandOut(id, n)
        \/ \E id \in Ids : Release(id)
        \/ Forfeit

Spec == Init /\ [][Next]_budgetVars

=============================================================================
