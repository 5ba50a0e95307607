--------------------------- MODULE HostGeneration ---------------------------
(***************************************************************************)
(* What applying merged commits to a host promises: the active generation  *)
(* is always one of main's commits, and replacing it never takes away a    *)
(* merged change that has to reach the host.                               *)
(***************************************************************************)
EXTENDS Naturals

CONSTANTS
    MaxCommit,     \* bound on merges to main
    Watched        \* the commits that have to reach the host

VARIABLES
    main,          \* the tip of main
    generation     \* the commit of the host's active generation

Init == main = 0 /\ generation = 0

Merge ==
    /\ main < MaxCommit
    /\ main' = main + 1
    /\ UNCHANGED generation

\* A commit of main that has every watched change the old one has.
Apply ==
    /\ generation' \in 0..main
    /\ \A c \in Watched : c <= generation => c <= generation'
    /\ UNCHANGED main

Next == Merge \/ Apply

Spec == Init /\ [][Next]_<<main, generation>>
=============================================================================
