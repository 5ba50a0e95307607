-------------------------- MODULE MCWarrantLoop --------------------------
(* TLC instances of WarrantLoop. *)
EXTENDS WarrantLoop, TLC

CONSTANT Short    \* the request whose stamp is in all others': #1 to #12 and #13

SameTitle == [g \in Filings |-> IF g = Short THEN Filings ELSE {g}]
Interchangeable == Permutations(Filings \ {Short})
=============================================================================
