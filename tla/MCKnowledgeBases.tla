--------------------------- MODULE MCKnowledgeBases ---------------------------
(* Two uploads, and one client that asks for deletion again and again. *)
EXTENDS KnowledgeBases
=============================================================================
