----------------------------- MODULE MCWikiJobs -----------------------------
(* Instances of WikiJobs for TLC. *)
EXTENDS WikiJobs
=============================================================================
