------------------------ MODULE MCBlueprintExporter ------------------------
(* Two blueprints that change and, between them, one that does not; one or   *)
(* two to a page; the times of the deployment.                              *)
EXTENDS BlueprintExporter

CONSTANTS a, b, steady

PathsOf3 == {a, steady, b}
InOrder == [p \in {a, steady, b} |-> IF p = a THEN 1 ELSE IF p = b THEN 3 ELSE 2]

============================================================================
