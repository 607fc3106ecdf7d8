----------------------------- MODULE MCFileShare -----------------------------
(* FileShare on small instances: symmetry for the safety runs.             *)
EXTENDS FileShare, TLC

\* Request slots, and links other than the mistyped one, are interchangeable.
Symmetric == Permutations(Clients) \cup Permutations(Ids \ {Mistyped})
=============================================================================
