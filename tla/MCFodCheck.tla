----------------------------- MODULE MCFodCheck -----------------------------
(* Two containers and ringtail, three pins, two of which share a builder;     *)
(* trees up to two steps away from a plain one.                               *)
EXTENDS FodCheck

CONSTANTS c1, c2, p1, p2, fork

Pins3 == {p1, p2, fork}
Names == {"nixpkgs", "services", "tool"}

Fod(pin, system) == [pin |-> pin, system |-> system]

Plain ==
    [lock |-> p1, pin |-> [c \in {c1, c2} |-> Shared],
     flake |-> [n \in Names |-> IF n = "services" THEN p2 ELSE p1],
     inputs |-> <<"nixpkgs", "services", "tool">>, usable |-> {"nixpkgs", "services"},
     vouched |-> Names \union {SharedKey}, closed |-> TRUE,
     fods |-> [e \in {c1, c2, "ringtail"} |-> {Fod(p1, Native)}]]

\* Pins and what vouches for them vary apart.
Vary(t) ==
    {[t EXCEPT !.lock = pin] : pin \in {p2, fork, Unread}}
    \union {[t EXCEPT !.vouched = @ \ {entry}] : entry \in Names \union {SharedKey}}
    \union {[t EXCEPT !.pin[c] = pin] : c \in {c1, c2}, pin \in {p1, p2, Odd}}
    \union {[t EXCEPT !.flake[n] = pin] : n \in Names, pin \in {p2, fork}}
    \union {[t EXCEPT !.usable = {n \in names : t.inputs # <<>>}] : names \in {{"nixpkgs"}, Names}}
    \union {[t EXCEPT !.inputs = <<>>, !.usable = {}], [t EXCEPT !.closed = FALSE]}
    \union {[t EXCEPT !.fods[e] = {Fod(pin, system), Fod(p1, Native)}] :
               e \in {c1, "ringtail"}, pin \in {p2, fork, Odd}, system \in Systems}
Near == {Plain} \union Vary(Plain)
MCTrees == Near \union UNION {Vary(t) : t \in Near}

Arg(names, ringtail, ref) == [containers |-> names, ringtail |-> ringtail, flakeSrc |-> ref]
MCArgvs == {Arg({}, "unset", TRUE), Arg({}, "no", FALSE), Arg({}, "yes", FALSE),
            Arg({c1}, "unset", FALSE), Arg({c1}, "yes", TRUE), Arg({"typo"}, "yes", FALSE)}

OwnPrefix == [pin \in Pins3 |-> pin]
SharedShell == [pin \in Pins3 |-> IF pin = fork THEN p1 ELSE pin]

=============================================================================
