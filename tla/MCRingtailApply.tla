------------------------- MODULE MCRingtailApply -------------------------
(* TLC instances of RingtailApply. *)
EXTENDS RingtailApply

Commits1 == {1}
Commits12 == {1, 2}
Commits13 == {1, 3}
Commits123 == {1, 2, 3}
=============================================================================
