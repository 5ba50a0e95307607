--------------------------- MODULE MCPatRotation ---------------------------
(* Three runs, one external token and one that is minted by hand. *)
EXTENDS PatRotation, FiniteSets

CONSTANTS horkos, hand

MCExternal == {horkos}
MCByHand == {hand}
=============================================================================
