----------------------------- MODULE MCAccounts -----------------------------
(* Accounts on small instances.                                            *)
EXTENDS Accounts, TLC

\* Request slots are interchangeable; so are recovery codes, and addresses other
\* than the one in the configuration.
Symmetric == Permutations(Clients) \cup Permutations(Codes)
               \cup Permutations(Emails \ {Bootstrap})

=============================================================================
