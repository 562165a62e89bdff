---------------------------- MODULE MCIngestion ----------------------------
(* One document, up to two versions and three jobs, two worker slots.  The  *)
(* configurations choose which client requests and faults take part.        *)
EXTENDS Ingestion, TLC

\* Workers are interchangeable (used by the runs without temporal properties).
Symmetry == Permutations(Workers)
=============================================================================
