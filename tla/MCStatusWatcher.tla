-------------------------- MODULE MCStatusWatcher --------------------------
(* TLC instances of StatusWatcher. *)
EXTENDS StatusWatcher, TLC

Interchangeable == Permutations(Files)
=============================================================================
