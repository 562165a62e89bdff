------------------------------ MODULE MCOutbox ------------------------------
(* Two or three events, two overlapping dispatcher runs. *)
EXTENDS Outbox, TLC

Symmetry == Permutations(Events) \cup Permutations(Dispatchers)
=============================================================================
