--------------------------- MODULE MCSymbolTable ---------------------------
(***************************************************************************)
(* All names but the last share a bucket.                                  *)
(***************************************************************************)
EXTENDS SymbolTable, TLC

CONSTANTS n1, n2, n3

MCNames == {n1, n2, n3}

MCHashCode == [name \in MCNames |-> IF name = n3 THEN 1 ELSE 0]

Symmetry == Permutations(Address) \cup Permutations(Buffer) \cup Permutations(Element)
=============================================================================
