----------------------------- MODULE MCRetrieval -----------------------------
(* A turn that may use one of two knowledge bases.  Its first one has a      *)
(* document with two versions and a wiki page with two versions.             *)
EXTENDS Retrieval

CONSTANTS k1, k2, d1, d2, p1

Symmetry == Permutations(Calls)

MCBaseOf == (d1 :> k1) @@ (d2 :> k2)
MCPageBaseOf == p1 :> k1

Parent(d, n) == [doc |-> d, version |-> n, kind |-> "parent"]
Child(d, n) == [doc |-> d, version |-> n, kind |-> "child"]

\* The current version of the page rests on the first version of the document;
\* the next one has been generated from the second one, and keeps an old claim.
MCClaims ==
  {[page |-> p1, version |-> 1, sources |-> {Child(d1, 1)}],
   [page |-> p1, version |-> 2, sources |-> {Child(d1, 1), Parent(d1, 1)}],
   [page |-> p1, version |-> 2, sources |-> {Child(d1, 2)}]}
=============================================================================
