----------------------------- MODULE FodCheck ------------------------------
(***************************************************************************)
(* check.py: the FOD check over the entry points of the repository, the    *)
(* containers and ringtail's system.                                       *)
(*                                                                         *)
(* Each entry point is classified (FodWalk) against templates that are     *)
(* evaluated from its own nixpkgs sources.  Entry points with the same     *)
(* source share a context and its templates; within a context, repeats are *)
(* skipped before they are evaluated, by what is locked, and after, by     *)
(* name, builder and system.  Every call of nix may fail, or time out.     *)
(*                                                                         *)
(* A nixpkgs source is a pin.  An entry of a lock file has the pin that    *)
(* nix evaluates ("locked") and says where it is from ("original"): the    *)
(* check authenticates the second, and nothing compares the two.  A FOD is *)
(* known by the pin and system its fetcher came from, and matches the      *)
(* templates of these; "odd" is a FOD of no known shape.  The templates of *)
(* one family stand for all.                                               *)
(***************************************************************************)
EXTENDS Naturals, Sequences, FiniteSets

CONSTANTS
    Containers,   \* the containers with a default.nix
    Ringtail,     \* the entry point that is ringtail's system
    Pins,         \* nixpkgs sources
    Prefix,       \* pin -> the start of its hash, by which a context is known
    Shell,        \* pin -> the builder of its templates
    Inputs,       \* the names an input of ringtail's flake can have
    Trees,        \* the trees to check
    Argvs,        \* the command lines
    Workers,      \* concurrent evaluations of sources (4)
    MaxFaults     \* bound on failing calls of nix

\* What a tree says in the place of a pin: a file without a fetchTarball, one
\* whose fetchTarball is not of the strict form, a lock file that is not there.
Shared == "nixpkgs"
Odd == "odd"
Unread == "unread"
\* The context of the containers with the shared pin, and how ringtail's own
\* packages are told; NoId is a source that is not told.
SharedKey == "containers"
PrimaryId == "primary"
NoId == "none"
\* The input that ringtail's own packages come from.
NixpkgsInput == "nixpkgs"

ASSUME PinsAssumption == {Shared, Odd, Unread, PrimaryId, NoId} \intersect Pins = {}

\* The keys of pins start with a word of their own.
ASSUME NamesAssumption ==
    /\ IsFiniteSet(Containers) /\ Ringtail \notin Containers
    /\ SharedKey # Ringtail
    /\ {Prefix[p] : p \in Pins} \intersect {SharedKey, Ringtail} = {}

ASSUME InputsAssumption == NixpkgsInput \in Inputs /\ SharedKey \notin Inputs

\* A tree: the pin of containers/flake.lock, that of each container, those of
\* the flake's inputs; the entries of the two lock files whose original is
\* NixOS/nixpkgs (the containers' is SharedKey); the inputs the flake's lock
\* lists, and those of them that have packages.
ASSUME TreesAssumption == \A t \in Trees :
    /\ t.lock \in Pins \union {Unread}
    /\ \A c \in Containers : t.pin[c] \in Pins \union {Shared, Odd}
    /\ t.flake \in [Inputs -> Pins]
    /\ t.vouched \subseteq Inputs \union {SharedKey}
    /\ t.inputs \in Seq(Inputs)
    /\ \A name \in t.usable : \E i \in DOMAIN t.inputs : t.inputs[i] = name
    /\ \A e \in Containers \union {Ringtail} : \A fod \in t.fods[e] :
           fod.system \in {"x86_64-linux", "i686-linux"}

ASSUME ArgvsAssumption == \A a \in Argvs : a.ringtail \in {"unset", "yes", "no"}
ASSUME BoundsAssumption == Workers \in Nat \ {0} /\ MaxFaults \in Nat

Native == "x86_64-linux"
Multilib == "i686-linux"
Systems == {Native, Multilib}
Targets == Containers \union {Ringtail}

VARIABLES
    tree,      \* what is checked: locks, pins, and the FODs of each closure
    argv,      \* what was asked for
    pc,        \* where main() is
    entries,   \* the entry points still to check, each with its context
    contexts,  \* context -> its sources, its anchor errors, its templates
    ended,     \* how the evaluation of each source of a context went
    outcome,   \* what was said of each entry point
    exit,      \* the exit code: "none" while it runs, "0" or "1"
    faults     \* failed calls so far

vars == <<tree, argv, pc, entries, contexts, ended, outcome, exit, faults>>
given == <<tree, argv>>

Unset == [set |-> FALSE, of |-> {}]
Bundle(templates) == [set |-> TRUE, of |-> templates]
Context(sources, anchor) == [sources |-> sources, anchor |-> anchor, templates |-> Unset]
Entry(who, key) == [who |-> who, ctx |-> key]

Init ==
    /\ tree \in Trees /\ argv \in Argvs
    /\ pc = "anchor"
    /\ entries = <<>> /\ contexts = <<>> /\ ended = <<>>
    /\ outcome = [e \in Targets |-> "unchecked"]
    /\ exit = "none"
    /\ faults = 0

Fault == faults < MaxFaults /\ faults' = faults + 1
Exit(code) == pc' = "done" /\ exit' = code
Fails == Exit("1") /\ UNCHANGED <<given, entries, contexts, ended, outcome>>
Proceed(from, to) ==
    /\ pc = from
    /\ pc' = to
    /\ UNCHANGED <<given, entries, contexts, ended, outcome, exit, faults>>

-----------------------------------------------------------------------------
(* Before the entry points.                                                *)

\* containers/flake.lock has to be there, and its original to be NixOS/nixpkgs.
AnchorFails ==
    /\ pc = "anchor"
    /\ tree.lock = Unread \/ SharedKey \notin tree.vouched
    /\ Fails /\ UNCHANGED faults

AnchorHolds ==
    tree.lock # Unread /\ SharedKey \in tree.vouched /\ Proceed("anchor", "select")

UnknownContainer ==
    /\ pc = "select"
    /\ ~(argv.containers \subseteq Containers)
    /\ Fails /\ UNCHANGED faults

Known == argv.containers \subseteq Containers /\ Proceed("select", "resolve")

\* select_entries.
Selected ==
    IF argv.containers = {} /\ argv.ringtail = "unset" THEN Targets
    ELSE IF argv.containers = {} /\ argv.ringtail = "no" THEN Containers
    ELSE argv.containers \union (IF argv.ringtail = "yes" THEN {Ringtail} ELSE {})

\* The pin's path is evaluated; with --flake-src a second ref is tried.
ResolveRetry ==
    /\ argv.flakeSrc
    /\ Fault
    /\ pc = "resolve" /\ pc' = "path"
    /\ UNCHANGED <<given, entries, contexts, ended, outcome, exit>>

ResolveFails ==
    /\ \/ pc = "resolve" /\ ~argv.flakeSrc
       \/ pc = "path"
    /\ Fault /\ Fails

Resolve == Proceed("resolve", "catalogue") \/ Proceed("path", "catalogue")

\* The fixtures are exactly the declared ones.
CatalogueFails == pc = "catalogue" /\ ~tree.closed /\ Fails /\ UNCHANGED faults
CatalogueHolds == tree.closed /\ Proceed("catalogue", "contexts")

-----------------------------------------------------------------------------
(* Contexts.                                                               *)

\* The source of a container: its own pin if its file has a fetchTarball of
\* the strict form, and containers/flake.lock if it has none.
SourcePin(c) == IF tree.pin[c] = Shared THEN tree.lock ELSE tree.pin[c]

\* Variant of Key: all containers with a pin share a context.
KeyOfAll(c) == IF tree.pin[c] = Shared THEN SharedKey ELSE "selfpin"

Key(c) == IF tree.pin[c] = Shared THEN SharedKey ELSE Prefix[tree.pin[c]]

\* The sources of a context: the pin an expression yields, the system, and
\* how the repeats among them are told before any is evaluated, if they are.
Source(pin, system, id) == [pin |-> pin, system |-> system, id |-> id]

\* A context is made for the first of its containers, in the order of names.
FirstOf(key, cs) ==
    LET those == {c \in cs : Key(c) = key} IN CHOOSE c \in those : TRUE

\* Some order of a set, as sorted() gives.
Order(S) == CHOOSE s \in [1..Cardinality(S) -> S] : {s[i] : i \in DOMAIN s} = S

MakeContexts ==
    LET chosen == Selected \intersect Containers
        pinned == {c \in chosen : tree.pin[c] # Odd}
        names == Order(pinned)
    IN /\ pc = "contexts"
       /\ pc' = IF Ringtail \in Selected THEN "flake" ELSE "entry"
       /\ contexts' = [key \in {Key(c) : c \in pinned} |->
              Context(<<Source(SourcePin(FirstOf(key, pinned)), Native, NoId)>>, {})]
       /\ entries' = [i \in DOMAIN names |-> Entry(names[i], Key(names[i]))]
       /\ outcome' = [e \in Targets |->
              IF e \in chosen \ pinned THEN "violations" ELSE outcome[e]]
       /\ UNCHANGED <<given, ended, exit, faults>>

\* flake_pkgs_sources: ringtail's own packages, then those of every input
\* that has packages; an input without falls back to ringtail's own.
Primary == tree.flake[NixpkgsInput]
Own == <<Source(Primary, Native, PrimaryId)>>
InputSource(i, probed) ==
    LET name == tree.inputs[i] IN
    IF name \in tree.usable
    THEN Source(tree.flake[name], Native, IF probed THEN tree.flake[name] ELSE NoId)
    ELSE Source(Primary, Native, IF probed THEN PrimaryId ELSE NoId)
FlakeSources(probed) == Own \o [i \in DOMAIN tree.inputs |-> InputSource(i, probed)]

\* Every source is evaluated for the second system as well.
WithMultilib(sources) ==
    sources \o [i \in DOMAIN sources |-> [sources[i] EXCEPT !.system = Multilib]]

\* Variant of AddRingtail: the entry point without its context.
AddRingtailBare(sources, anchor) ==
    /\ pc = "flake" /\ pc' = "entry"
    /\ entries' = Append(entries, Entry(Ringtail, Ringtail))
    /\ UNCHANGED <<given, contexts, ended, outcome, exit>>

AddRingtail(sources, anchor) ==
    /\ pc = "flake" /\ pc' = "entry"
    /\ contexts' = [key \in DOMAIN contexts \union {Ringtail} |->
           IF key = Ringtail THEN Context(WithMultilib(sources), anchor) ELSE contexts[key]]
    /\ entries' = Append(entries, Entry(Ringtail, Ringtail))
    /\ UNCHANGED <<given, ended, outcome, exit>>

\* The inputs that are template sources, ringtail's own among them, and whose
\* original is not NixOS/nixpkgs.
Untrusted == (tree.usable \union {NixpkgsInput}) \ tree.vouched

FlakeAnchor ==
    /\ tree.inputs # <<>>
    /\ AddRingtail(FlakeSources(TRUE), Untrusted)
    /\ UNCHANGED faults

\* Which inputs have packages could not be evaluated.
ProbeFails ==
    /\ tree.inputs # <<>>
    /\ Fault
    /\ AddRingtail(FlakeSources(FALSE), {"probe"} \union (Untrusted \intersect {NixpkgsInput}))

\* A lock file that cannot be read, or lists no inputs: there is nothing to
\* authenticate, and ringtail's own packages are the only source.
FlakeUnanchored ==
    /\ tree.inputs = <<>>
    /\ AddRingtail(Own, {})
    /\ UNCHANGED faults

-----------------------------------------------------------------------------
(* The entry points, one after the other.                                  *)

Now == Head(entries)
Here == contexts[Now.ctx]
Say(what) ==
    /\ outcome' = [outcome EXCEPT ![Now.who] = what]
    /\ entries' = Tail(entries)
    /\ pc' = "entry"
    /\ ended' = <<>>

AnchorRed ==
    /\ pc = "entry" /\ entries # <<>> /\ Here.anchor # {}
    /\ Say("violations")
    /\ UNCHANGED <<given, contexts, exit, faults>>

\* The repeats are not evaluated: a source that is told by what is locked, and
\* has come up before for the same system.
Repeat(sources, i) ==
    /\ sources[i].id # NoId
    /\ \E j \in 1..(i - 1) : sources[j].id = sources[i].id /\ sources[j].system = sources[i].system
Evaluated(sources) == {i \in DOMAIN sources : ~Repeat(sources, i)}

\* The entry point is instantiated and walked.
InstantiateAndWalk ==
    /\ pc = "entry" /\ entries # <<>> /\ Here.anchor = {}
    /\ pc' = IF Here.templates.set THEN "classify" ELSE "templates"
    /\ ended' = IF Here.templates.set THEN <<>>
                ELSE [i \in Evaluated(Here.sources) |-> "no"]
    /\ UNCHANGED <<given, entries, contexts, outcome, exit, faults>>

\* Variant of EntryFails: the run stops at the first error.
EntryFailsAndStops ==
    /\ pc = "entry" /\ entries # <<>> /\ Here.anchor = {}
    /\ Fault
    /\ outcome' = [outcome EXCEPT ![Now.who] = "error"]
    /\ entries' = <<>> /\ ended' = <<>>
    /\ UNCHANGED <<given, pc, contexts, exit>>

\* One of the two failed: an EvalError, and on to the next entry point.
EntryFails ==
    /\ pc = "entry" /\ entries # <<>> /\ Here.anchor = {}
    /\ Fault
    /\ Say("error")
    /\ UNCHANGED <<given, contexts, exit>>

\* Any of the workers ends its evaluation, well or not; they take the sources
\* in order.
EvaluateSource(i, how) ==
    /\ pc = "templates"
    /\ i \in DOMAIN ended /\ ended[i] = "no"
    /\ Cardinality({j \in DOMAIN ended : j < i /\ ended[j] = "no"}) < Workers
    /\ ended' = [ended EXCEPT ![i] = how]
    /\ IF how = "ok" THEN UNCHANGED faults ELSE Fault
    /\ UNCHANGED <<given, pc, entries, contexts, outcome, exit>>

\* Variant of TemplatesFail: only the failure of the first source is seen.
FirstTemplatesFail ==
    /\ pc = "templates"
    /\ 1 \in DOMAIN ended /\ ended[1] = "failed"
    /\ Say("error")
    /\ UNCHANGED <<given, contexts, exit, faults>>

\* The first failure in the order of the sources is raised: on to the next
\* entry point, and the context still has no templates.
TemplatesFail ==
    /\ pc = "templates"
    /\ \E i \in DOMAIN ended :
        ended[i] = "failed" /\ \A j \in DOMAIN ended : j < i => ended[j] = "ok"
    /\ Say("error")
    /\ UNCHANGED <<given, contexts, exit, faults>>

\* Templates are merged in the order of the sources and kept if none before
\* has the same name, builder and system.
TemplateOf(source) == [pin |-> source.pin, builder |-> Shell[source.pin], system |-> source.system]
SameKey(s, t) == Shell[s.pin] = Shell[t.pin] /\ s.system = t.system
Kept(sources) ==
    {TemplateOf(sources[i]) : i \in {n \in Evaluated(sources) :
        \A m \in Evaluated(sources) : m < n => ~SameKey(sources[m], sources[n])}}

TemplatesDone ==
    /\ pc = "templates"
    /\ \A i \in DOMAIN ended : ended[i] = "ok"
    /\ contexts' = [contexts EXCEPT ![Now.ctx].templates = Bundle(Kept(Here.sources))]
    /\ pc' = "classify"
    /\ ended' = <<>>
    /\ UNCHANGED <<given, entries, outcome, exit, faults>>

\* Every FOD of the closure has to match one of the context's templates.
Matched(fod, templates) ==
    \E t \in templates : t.pin = fod.pin /\ t.system = fod.system

Classify ==
    /\ pc = "classify"
    /\ Say(IF \A fod \in tree.fods[Now.who] : Matched(fod, Here.templates.of)
           THEN "green" ELSE "violations")
    /\ UNCHANGED <<given, contexts, exit, faults>>

\* A call takes more than half an hour: nobody catches that.
TimesOut ==
    /\ pc \in {"resolve", "path", "flake", "entry", "templates"}
    /\ pc = "entry" => entries # <<>> /\ Here.anchor = {}
    /\ Fault
    /\ Fails

\* Variant of Finish: errors are told but do not count.
FinishWithErrors ==
    /\ pc = "entry" /\ entries = <<>>
    /\ Exit(IF \E e \in Targets : outcome[e] = "violations" THEN "1" ELSE "0")
    /\ UNCHANGED <<given, entries, contexts, ended, outcome, faults>>

Finish ==
    /\ pc = "entry" /\ entries = <<>>
    /\ Exit(IF \E e \in Targets : outcome[e] \in {"violations", "error"} THEN "1" ELSE "0")
    /\ UNCHANGED <<given, entries, contexts, ended, outcome, faults>>

Main ==
    \/ AnchorFails \/ AnchorHolds \/ UnknownContainer \/ Known
    \/ Resolve \/ ResolveRetry \/ ResolveFails \/ CatalogueFails \/ CatalogueHolds
    \/ MakeContexts \/ FlakeAnchor \/ ProbeFails \/ FlakeUnanchored
    \/ AnchorRed \/ InstantiateAndWalk \/ EntryFails
    \/ \E i \in DOMAIN ended, how \in {"ok", "failed"} : EvaluateSource(i, how)
    \/ TemplatesFail \/ TemplatesDone \/ Classify \/ TimesOut \/ Finish

Next == Main
Spec == Init /\ [][Next]_vars
FairSpec == Spec /\ WF_vars(Next)

-----------------------------------------------------------------------------
(* Correctness.                                                            *)

\* What was asked for, in the words of the usage text.
Asked ==
    {e \in Targets :
        IF e = Ringtail
        THEN argv.ringtail = "yes" \/ (argv.ringtail = "unset" /\ argv.containers = {})
        ELSE e \in argv.containers
             \/ (argv.containers = {} /\ argv.ringtail \in {"unset", "no"})}

\* The sources of an entry point alone, and whether what the check looks at
\* authenticates them: the strict form of a fetchTarball, or the original of
\* every lock entry they come from.
OwnPins(e) ==
    IF e = Ringtail THEN {tree.flake[n] : n \in tree.usable \union {NixpkgsInput}}
    ELSE {SourcePin(e)}
Trusted(e) ==
    IF e = Ringtail THEN tree.inputs # <<>> => Untrusted = {}
    ELSE tree.pin[e] # Odd /\ (tree.pin[e] = Shared => SharedKey \in tree.vouched)

AllKnown(e) == \A fod \in tree.fods[e] :
    /\ fod.pin \in OwnPins(e)
    /\ e = Ringtail \/ fod.system = Native

TypeOK ==
    /\ pc \in {"anchor", "select", "resolve", "path", "catalogue", "contexts", "flake",
               "entry", "templates", "classify", "done"}
    /\ outcome \in [Targets -> {"unchecked", "green", "violations", "error"}]
    /\ exit \in {"none", "0", "1"} /\ (exit = "none" <=> pc # "done")
    /\ faults \in 0..MaxFaults
    /\ \A i \in DOMAIN entries : entries[i].ctx \in DOMAIN contexts

\* A FOD of one of the sources, whose templates have the builder of another's.
Shadowed(e) == \E fod \in tree.fods[e], pin \in OwnPins(e) :
    fod.pin \in OwnPins(e) \ {pin} /\ Shell[pin] = Shell[fod.pin]

\* Exit 0 only if everything that was asked for was evaluated, every FOD of it
\* is known from a source of its own, and every lock entry these come from
\* says that it is NixOS/nixpkgs (main).  It is the "original" that says so,
\* and a ringtail without listed inputs has nothing to say it.
GreenMeansChecked ==
    exit = "0" => \A e \in Asked :
        outcome[e] = "green" /\ Trusted(e) /\ AllKnown(e)

\* What is said of an entry point is what would be said of it alone: nothing
\* that other entry points, shared contexts, skipped repeats, the order of
\* the workers or an earlier failure bring about makes it red or green.  A
\* failed probe of ringtail's inputs is told as a violation, and so may be a
\* FOD of a source whose templates were taken for repeats of another's.
ProbeFailed(e) == e = Ringtail /\ Ringtail \in DOMAIN contexts /\ "probe" \in contexts[e].anchor
OwnOutcome ==
    \A e \in Targets :
        /\ outcome[e] = "green" => Trusted(e) /\ AllKnown(e)
        /\ outcome[e] = "violations" =>
              ~Trusted(e) \/ ~AllKnown(e) \/ ProbeFailed(e) \/ Shadowed(e)

\* A run that gets to its end has said something of everything that was asked
\* for, whatever failed before.
AllTold == pc = "entry" /\ entries = <<>> => \A e \in Asked : outcome[e] # "unchecked"

-----------------------------------------------------------------------------
(* Why it is so: the parts of an inductive invariant.                      *)

\* The shapes of entries and contexts, and that an entry is there to be told of.
Keys == {SharedKey, Ringtail} \union {Prefix[p] : p \in Pins}
ShapeInv ==
    /\ tree \in Trees /\ argv \in Argvs
    /\ entries \in Seq([who : Targets, ctx : Keys])
    /\ contexts = [key \in DOMAIN contexts |->
          [sources |-> contexts[key].sources, anchor |-> contexts[key].anchor,
           templates |-> contexts[key].templates]]
    /\ pc \in {"templates", "classify"} => entries # <<>>

\* What came before the contexts held.
GateInv ==
    /\ pc \notin {"anchor", "done"} => tree.lock # Unread /\ SharedKey \in tree.vouched
    /\ pc \notin {"anchor", "select", "done"} => argv.containers \subseteq Containers

\* What the sources of a context are, as long as its anchor is right: a
\* container's are its own, though it may share the context.
OwnSources(e) ==
    IF e = Ringtail THEN WithMultilib(FlakeSources(TRUE))
    ELSE <<Source(SourcePin(e), Native, NoId)>>
KeyFor(e) == IF e = Ringtail THEN Ringtail ELSE Key(e)
Pinned == {e \in Targets : e = Ringtail \/ tree.pin[e] # Odd}
ContextsInv ==
    /\ \A key \in DOMAIN contexts : contexts[key].templates.set =>
          contexts[key].templates.of = Kept(contexts[key].sources)
    /\ \A e \in Pinned : KeyFor(e) \in DOMAIN contexts =>
          /\ contexts[KeyFor(e)].anchor = {} =>
                contexts[KeyFor(e)].sources = OwnSources(e)
          /\ e # Ringtail => contexts[KeyFor(e)].anchor = {}
    /\ Ringtail \in DOMAIN contexts =>
          LET anchor == contexts[Ringtail].anchor
          IN IF tree.inputs # <<>> THEN anchor = Untrusted \/ "probe" \in anchor
             ELSE anchor = {}

\* Nothing is told before the contexts are made, nor of ringtail before its own is.
FreshInv ==
    /\ pc \in {"anchor", "select", "resolve", "path", "catalogue", "contexts"} =>
          \A e \in Targets : outcome[e] = "unchecked"
    /\ pc = "flake" => outcome[Ringtail] = "unchecked"

\* Whose entries are left, and what the current one has behind it.
EntriesInv ==
    /\ \A i \in DOMAIN entries :
          entries[i].who \in Pinned /\ entries[i].ctx = KeyFor(entries[i].who)
    /\ pc \in {"templates", "classify"} => entries # <<>> /\ Here.anchor = {}
    /\ pc = "classify" => Here.templates.set

\* Everything asked for was told of or has an entry.
Left(e) == outcome[e] # "unchecked" \/ \E i \in DOMAIN entries : entries[i].who = e
ToldInv ==
    /\ pc \in {"flake", "entry", "templates", "classify"} =>
          \A e \in Asked : Left(e) \/ (pc = "flake" /\ e = Ringtail)
    /\ exit = "0" => \A e \in Asked : outcome[e] = "green"

\* The check ends, with an exit code.
Ends == <>(exit # "none")

=============================================================================
