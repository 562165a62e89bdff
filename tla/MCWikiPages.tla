----------------------------- MODULE MCWikiPages -----------------------------
(* Instances of WikiPages for TLC. *)
EXTENDS WikiPages, TLC

\* Sound: the instances check invariants and properties of single steps.
Symmetry == Permutations(Summaries) \cup Permutations(Transactions)
=============================================================================
