-------------------------- MODULE MCIndriSwitch --------------------------
(* TLC instances of IndriSwitch. *)
EXTENDS IndriSwitch

Commits12 == {1, 2}
Commits1234 == 1..4
=============================================================================
