------------------------------ MODULE FodWalk ------------------------------
(***************************************************************************)
(* The FOD check of one entry point: classify_walk over the derivations    *)
(* that `nix derivation show -r` lists.                                    *)
(*                                                                         *)
(* First the setup hooks that FODs may run are gathered: the hooks in      *)
(* reach of the templates.  Then, FOD by FOD, the hooks it would run are   *)
(* gathered and each FOD is classified by its shape (FodShapes).  Both     *)
(* gatherings are worklists over a graph whose edges are sets of strings,  *)
(* which Python walks in any order, so a worklist is a set here.           *)
(*                                                                         *)
(* Before the check begins, packages shape the derivations: they hand      *)
(* fetchers their parameters, and they may do more than that.  What the    *)
(* templates depend on is named by a hash of itself and cannot change.     *)
(***************************************************************************)
EXTENDS FodShapes

CONSTANTS
    Drv,          \* names of derivations
    Listed,       \* those the walk lists
    Fixed,        \* those of nixpkgs that no package can change
    Templates,    \* label -> the canonical instances of it
    Catalogue,    \* the hand-written fixtures
    Initials,     \* the walks packages begin with: Listed -> derivation
    Texts,        \* the <<derivation, key, text>> a package may set
    Builds,       \* the <<derivation, derivation>> it may build one with
    Links,        \* the <<derivation, derivation>> it may make an input
    Scripts,      \* the <<derivation, source>> it may add as an input
    MaxChanges    \* bound on what packages change

ASSUME DrvAssumption == Fixed \subseteq Listed /\ Listed \subseteq Drv /\ Listed # {}
ASSUME InputsAssumption ==
    /\ \A w \in Initials : DOMAIN w = Listed
    /\ \A w \in Initials, d \in Listed : "inputs" \in DOMAIN w[d] /\ w[d].inputs \subseteq Drv
    /\ \A l \in DOMAIN Templates : \A t \in Templates[l] : t.inputs \subseteq Drv
    /\ \A c \in Links : c[2] \in Drv

\* Attributes are texts, of whoever writes them.
IsText(text) == text = [says |-> text.says, by |-> text.by, splice |-> text.splice]
HasTexts(d) == "attrs" \in DOMAIN d /\ \A k \in DOMAIN d.attrs : IsText(d.attrs[k])
AllTemplates == Catalogue \union UNION {Templates[l] : l \in DOMAIN Templates}

ASSUME TextsAssumption ==
    /\ \A w \in Initials, d \in Listed : HasTexts(w[d])
    /\ \A c \in Texts : IsText(c[3])
    /\ \A t \in AllTemplates : HasTexts(t)
ASSUME LabelsAssumption == Labels \subseteq DOMAIN Templates

\* "Each family is recognised by its distinguishing key set": a template is the
\* first to be told by its own family's test.  The switches of fetchgit stand
\* beside a revision, and builders whose tools are parameters have no url.
IsTold(t, family) ==
    /\ \E i \in LooksLike(t) : Tests(t)[i].family = family /\ \A j \in LooksLike(t) : i <= j
    /\ Sa(t, "fetchSubmodules") \/ Sa(t, "deepClone") => Sa(t, "rev")
    /\ family \in {"pnpmDeps", "goModules"} => ~Sa(t, "url") /\ ~Env(t, "url")

ASSUME FamiliesAssumption == \A l \in Families : \A t \in Templates[l] : IsTold(t, l)

VARIABLES
    walk,        \* the derivations, by name
    changes,     \* how much packages have changed
    phase,       \* "tree", "universe", "next", "hooks" or "done"
    queue, seen, \* the worklist and what was ever put on it
    universe,    \* the hooks that may run in a FOD
    cur,         \* the FOD under classification
    hooks,       \* the hooks found to run in it
    todo,        \* the FODs that are not classified yet
    violations   \* <<FOD, reason>> or <<FOD, hook>>

tree == <<walk, changes>>
worklist == <<queue, seen>>
vars == <<tree, phase, worklist, universe, cur, hooks, todo, violations>>

Inputs(d) == IF d \in Listed THEN walk[d].inputs ELSE {}
Providers == {d \in Listed : IsHookProvider(walk[d])}
Fods == {d \in Listed : IsFod(walk[d])}

\* The inputs of every template of the entry point, stdenvs included.
Seeds == UNION {t.inputs : t \in UNION {Templates[l] : l \in DOMAIN Templates}}

Init ==
    /\ walk \in Initials
    /\ changes = 0
    /\ phase = "tree"
    /\ queue = {} /\ seen = {} /\ universe = {}
    /\ cur = CHOOSE d \in Listed : TRUE
    /\ hooks = {} /\ todo = {} /\ violations = {}

-----------------------------------------------------------------------------
(* What packages do to their derivations.                                  *)

Change(d) ==
    /\ phase = "tree"
    /\ changes < MaxChanges
    /\ changes' = changes + 1
    /\ d \in Listed \ Fixed
    /\ UNCHANGED <<phase, worklist, universe, cur, hooks, todo, violations>>

SetAttr(d, key, text) ==
    /\ Change(d)
    /\ walk' = [walk EXCEPT ![d].attrs =
                    [k \in DOMAIN @ \union {key} |-> IF k = key THEN text ELSE @[k]]]

DropAttr(d, key) ==
    /\ Change(d)
    /\ key \in DOMAIN walk[d].attrs
    /\ walk' = [walk EXCEPT ![d].attrs = [k \in DOMAIN @ \ {key} |-> @[k]]]

SetBuilder(d, b) == Change(d) /\ walk' = [walk EXCEPT ![d].builder = b]

AddSrc(d, s) == Change(d) /\ walk' = [walk EXCEPT ![d].srcs = @ \union {s}]

AddInput(d, i) == Change(d) /\ walk' = [walk EXCEPT ![d].inputs = @ \union {i}]

-----------------------------------------------------------------------------
(* classify_walk.                                                          *)

\* Variant of Begin: the inputs of every derivation that is no FOD are seeds.
BeginAtAnyPackage ==
    /\ phase = "tree"
    /\ phase' = "universe"
    /\ queue' = Seeds \union UNION {walk[d].inputs : d \in Listed \ Fods}
    /\ seen' = queue'
    /\ todo' = Fods
    /\ UNCHANGED <<tree, universe, cur, hooks, violations>>

\* The templates' inputs are put on the worklist.
Begin ==
    /\ phase = "tree"
    /\ phase' = "universe"
    /\ queue' = Seeds
    /\ seen' = Seeds
    /\ todo' = Fods
    /\ UNCHANGED <<tree, universe, cur, hooks, violations>>

\* Variant of Visit: whatever is in reach counts as a hook.
VisitAll(d) ==
    /\ phase = "universe"
    /\ d \in queue
    /\ queue' = (queue \ {d}) \union (Inputs(d) \ seen)
    /\ seen' = seen \union Inputs(d)
    /\ universe' = universe \union {d}
    /\ UNCHANGED <<tree, phase, cur, hooks, todo, violations>>

\* Variant of Visit: a dead end is passed over and stays on the list.
VisitListed(d) ==
    /\ phase = "universe"
    /\ d \in queue /\ d \in Listed
    /\ queue' = (queue \ {d}) \union (Inputs(d) \ seen)
    /\ seen' = seen \union Inputs(d)
    /\ universe' = IF d \in Providers THEN universe \union {d} ELSE universe
    /\ UNCHANGED <<tree, phase, cur, hooks, todo, violations>>

\* hook_universe takes one off, which may not be listed in this walk.
Visit(d) ==
    /\ phase = "universe"
    /\ d \in queue
    /\ queue' = (queue \ {d}) \union (Inputs(d) \ seen)
    /\ seen' = seen \union Inputs(d)
    /\ universe' = IF d \in Providers THEN universe \union {d} ELSE universe
    /\ UNCHANGED <<tree, phase, cur, hooks, todo, violations>>

UniverseDone ==
    /\ phase = "universe"
    /\ queue = {}
    /\ phase' = "next"
    /\ UNCHANGED <<tree, worklist, universe, cur, hooks, todo, violations>>

\* The next FOD in the order of the names, where effective_hooks starts.
Classify ==
    /\ phase = "next"
    /\ todo # {}
    /\ phase' = "hooks"
    /\ cur' = CHOOSE f \in todo : TRUE
    /\ queue' = {cur'} /\ seen' = {} /\ hooks' = {}
    /\ UNCHANGED <<tree, universe, todo, violations>>

\* ... and goes on through hook providers only: what another input is built
\* with does not run in this FOD.
Descend(d) ==
    /\ phase = "hooks"
    /\ d \in queue
    /\ seen' = seen \union {d}
    /\ IF d = cur \/ d \in Providers
       THEN /\ hooks' = hooks \union (Inputs(d) \intersect Providers)
            /\ queue' = (queue \ {d}) \union (Inputs(d) \ seen')
       ELSE /\ queue' = queue \ {d}
            /\ UNCHANGED hooks
    /\ UNCHANGED <<tree, phase, universe, cur, todo, violations>>

\* What is said of a builder, of an unrecognised shape, that no template has:
\* it is the output of a FOD, or of nothing in the walk.  A FOD's output has
\* no path there until it is realised, and is then known by its name, among
\* the inputs.
Builders == {t.builder : t \in UNION {Templates[l] : l \in DOMAIN Templates}}
BuilderReason(d) ==
    LET b == walk[d].builder
        named == {i \in Inputs(d) \intersect Fods :
                    DOMAIN walk[i].outputs = {"out"} /\ b \in Listed /\ walk[i].name = walk[b].name}
    IN IF b \in Builders \/ (b \in Listed /\ b \notin Fods) THEN "unrecognised"
       ELSE IF b \in Listed /\ (walk[b].realised \/ Cardinality(named) = 1) THEN "downloaded builder"
       ELSE "unknown builder"

Reason(d) ==
    IF Recognised(walk[d], Templates, Catalogue) THEN "none"
    ELSE IF FamilyOf(walk[d]) \in Families THEN "template mismatch"
    ELSE IF NatOf(walk[d]) \/ CatalogueOf(walk[d], Catalogue) # {} THEN "no exact copy"
    ELSE BuilderReason(d)

\* Variant of Verdict: the hooks of a FOD with a known shape go unchecked.
VerdictShapeOnly ==
    /\ phase = "hooks"
    /\ queue = {}
    /\ violations' = violations
        \union (IF Reason(cur) = "none" THEN {}
                ELSE {<<cur, Reason(cur)>>} \union {<<cur, h>> : h \in hooks \ universe})
    /\ todo' = todo \ {cur}
    /\ phase' = "next"
    /\ UNCHANGED <<tree, worklist, universe, cur, hooks>>

\* The FOD's violations: its shape, and every hook from outside.
Verdict ==
    /\ phase = "hooks"
    /\ queue = {}
    /\ violations' = violations
        \union (IF Reason(cur) = "none" THEN {} ELSE {<<cur, Reason(cur)>>})
        \union {<<cur, h>> : h \in hooks \ universe}
    /\ todo' = todo \ {cur}
    /\ phase' = "next"
    /\ UNCHANGED <<tree, worklist, universe, cur, hooks>>

Done ==
    /\ phase = "next"
    /\ todo = {}
    /\ phase' = "done"
    /\ UNCHANGED <<tree, worklist, universe, cur, hooks, todo, violations>>

Package ==
    \/ \E c \in Texts : SetAttr(c[1], c[2], c[3])
    \/ \E d \in Listed : \E key \in DOMAIN walk[d].attrs : DropAttr(d, key)
    \/ \E c \in Builds : SetBuilder(c[1], c[2])
    \/ \E c \in Links : AddInput(c[1], c[2])
    \/ \E c \in Scripts : AddSrc(c[1], c[2])

Check ==
    \/ Begin \/ UniverseDone \/ Classify \/ Verdict \/ Done
    \/ \E d \in Drv : Visit(d) \/ Descend(d)

Next == Package \/ Check
Spec == Init /\ [][Next]_vars
FairSpec == Spec /\ WF_vars(Check)

-----------------------------------------------------------------------------
(* What the check is for, said without its worklists.                      *)

\* What is in reach of a set: in every set with it that inputs do not leave.
Within(S) == \A d \in S : Inputs(d) \subseteq S
Reach(roots) ==
    LET around == {S \in SUBSET Drv : roots \subseteq S /\ Within(S)}
    IN {d \in Drv : \A S \in around : d \in S}

\* The hooks that run in a FOD: its hook inputs, and those of its hooks.
RunHooks(f) ==
    LET around == {S \in SUBSET Providers :
            /\ Inputs(f) \intersect Providers \subseteq S
            /\ \A g \in S : Inputs(g) \intersect Providers \subseteq S}
    IN {h \in Providers : \A S \in around : h \in S}

\* What a build executes: the builder with its arguments, the phases and the
\* run-hooks, and the tools it is built with.
ExecutedNames ==
    {"stdenv", "preFetch", "buildCommand", "buildPhase", "checkPhase", "preBuild",
     "GOTOOLCHAIN", "nativeBuildInputs", "propagatedBuildInputs"}

\* What of that is the package's own all the same, and not compared: the tools
\* of pnpm's and Go's builders, the run-hooks that the builders of packages
\* forward, and checkPhase of Go's modules.
LeftToPackage(family) ==
    CASE family = "goModules" -> {"nativeBuildInputs", "preBuild", "checkPhase"}
      [] family = "pnpmDeps" -> {"nativeBuildInputs"}
      [] family \in {"npmDeps", "cargoDeps"} -> {"preBuild"}
      [] OTHER -> {}

Executed(d, family) ==
    [builder |-> d.builder, args |-> d.args, system |-> d.system,
     texts |-> {<<key[2], d.attrs[key].says, d.attrs[key].by>> :
        key \in {k \in DOMAIN d.attrs : k[2] \in ExecutedNames \ LeftToPackage(family)}}]

\* The sources in scope of it but the package's own and those that are data by
\* their names.
Scripted(d, family) == {s \in d.srcs : s \notin OwnSrcs(d, family) /\ ~IsDataSrc(s, family)}

PostFetch(d) ==
    {d.attrs[k] : k \in {k \in DOMAIN d.attrs : k[2] = "postFetch" /\ d.attrs[k].says # "nothing"}}

\* f executes nothing but what a template does, what was listed for it, or what
\* is left to the package.
ExecutesOnlyKnown(f) ==
    \/ walk[f].builder = Builtin
    \/ \E t \in AllTemplates :
        /\ Executed(walk[f], FamilyOf(walk[f])) = Executed(t, FamilyOf(walk[f]))
        /\ Scripted(walk[f], FamilyOf(walk[f])) \subseteq t.srcs /\ t.srcs \subseteq walk[f].srcs
        /\ PostFetch(walk[f]) \subseteq PostFetch(t) \union AllowedPostfetch

Green == phase = "done" /\ violations = {}

TypeOK ==
    /\ DOMAIN walk = Listed
    /\ \A d \in Listed : "inputs" \in DOMAIN walk[d] /\ walk[d].inputs \subseteq Drv
    /\ phase \in {"tree", "universe", "next", "hooks", "done"}
    /\ queue \subseteq Drv /\ seen \subseteq Drv
    /\ universe \subseteq Providers /\ hooks \subseteq Providers
    /\ cur \in Listed /\ todo \subseteq Listed
    /\ \A v \in violations : v[1] \in Listed

\* When the worklist is empty, the universe is exactly the hooks in reach of
\* the templates, whatever else the packages of the walk depend on
\* (hook_universe; a template's input that is not listed is a dead end).
UniverseIsReach ==
    phase \in {"next", "hooks", "done"} => universe = Providers \intersect Reach(Seeds)

\* When the second worklist is empty, the hooks found are exactly those that
\* run in the FOD's build (effective_hooks).
HooksAreRun == phase = "hooks" /\ queue = {} => hooks = RunHooks(cur)

\* A walk without violations has no FOD that executes anything but what a
\* canonical instance does and what is left to the package by name
\* (LeftToPackage), whatever packages did and wherever they wrote it
\* (classify_walk, classify_fod).
GreenMeansKnown == Green => \A f \in Fods : ExecutesOnlyKnown(f)

\* Nor has it one whose build runs a hook from elsewhere, directly or through
\* another hook (classify_walk, effective_hooks, hook_universe).
GreenMeansKnownHooks == Green => \A f \in Fods : RunHooks(f) \subseteq Reach(Seeds)

\* The texts of an instance: a parameter of its family, a post-fetch text that
\* was listed, or the template's, but for what generators splice into phases.
Spliced(name, family) ==
    name \in Phases /\ family \in {"npmDeps", "pnpmDeps", "caddyDeps", "goModules"}
ListsPostFetch(name, family) == name = "postFetch" /\ family \in PostfetchFamilies
IsInstanceText(d, t, k, family) ==
    \/ k[2] \in InstanceVars(family) \union {"SSL_CERT_FILE"}
    \/ /\ ListsPostFetch(k[2], family)
       /\ d.attrs[k].says = "nothing" \/ d.attrs[k] \in AllowedPostfetch
       /\ family = "fetchpatch" => d.attrs[k].says = "patch-prologue"
    \/ /\ ~ListsPostFetch(k[2], family)
       /\ k \in DOMAIN t.attrs
       /\ \/ d.attrs[k] = t.attrs[k]
          \/ /\ Spliced(k[2], family)
             /\ d.attrs[k].says = t.attrs[k].says /\ d.attrs[k].by = t.attrs[k].by

\* An instance: its template but for the parameters, the package's source and
\* patches.  A list of urls is what fetchurl's family takes and no other.
IsInstance(d, t, family) ==
    /\ d.builder = t.builder /\ d.args = t.args /\ d.system = t.system
    /\ d.outputs = t.outputs
    /\ d.name.claims = t.name.claims
    /\ t.srcs \subseteq d.srcs
    /\ \A s \in d.srcs \ t.srcs : s \in OwnSrcs(d, family) \/ IsDataSrc(s, family)
    /\ DOMAIN t.attrs \subseteq DOMAIN d.attrs
    /\ Sa(d, "urls") => Sa(t, "urls")
    /\ \A k \in DOMAIN d.attrs : IsInstanceText(d, t, k, family)

\* A walk in which every FOD is an instance of a fetcher and runs the
\* templates' hooks has no violation, whatever its other packages are and
\* whatever parameters its fetchers have: no family is mistaken for another
\* (family_of) and no parameter for a change.
GenuineIsGreen ==
    /\ phase = "done"
    /\ \A f \in Fods :
        /\ RunHooks(f) \subseteq Reach(Seeds)
        /\ \E l \in Families : \E t \in Templates[l] : IsInstance(walk[f], t, l)
    => violations = {}

\* The check of a walk ends, also over dead ends and cycles.
CheckEnds == phase = "universe" ~> phase = "done"

-----------------------------------------------------------------------------
(* Inductive invariants behind the safety properties. *)

\* The first worklist: what was taken off it is followed, and nothing is on it
\* that is not in reach.
UniverseInv ==
    /\ phase = "tree" => universe = {} /\ hooks = {}
    /\ phase = "universe" =>
        /\ Seeds \subseteq seen /\ queue \subseteq seen /\ seen \subseteq Reach(Seeds)
        /\ universe = Providers \intersect (seen \ queue)
        /\ \A d \in seen \ queue : Inputs(d) \subseteq seen
    /\ UniverseIsReach

\* The second: the hooks found are on it or followed, and every provider on it
\* but the FOD itself is a hook that runs.
HooksInv ==
    phase = "hooks" =>
        /\ cur \in queue \union seen
        /\ hooks \subseteq queue \union seen
        /\ hooks \subseteq RunHooks(cur)
        /\ \A d \in (queue \union seen) \intersect Providers : d = cur \/ d \in RunHooks(cur)
        /\ \A d \in seen : d = cur \/ d \in Providers =>
              Inputs(d) \intersect Providers \subseteq hooks

\* The verdicts given so far.
VerdictInv ==
    /\ phase = "universe" => todo = Fods
    /\ phase = "done" => todo = {}
    /\ phase \in {"next", "hooks", "done"} =>
        \A f \in Fods \ todo :
            /\ \A h \in RunHooks(f) \ universe : <<f, h>> \in violations
            /\ Reason(f) # "none" => <<f, Reason(f)>> \in violations

\* No verdict but those: every violation is of a FOD's shape, or of a hook that
\* it runs and no template reaches.
ExactInv ==
    /\ phase \in {"tree", "universe"} => violations = {}
    /\ phase = "tree" => todo = {}
    /\ todo \subseteq Fods
    /\ phase = "hooks" => cur \in Fods
    /\ \A v \in violations : \E f \in Fods :
        \/ Reason(f) # "none" /\ v = <<f, Reason(f)>>
        \/ \E h \in RunHooks(f) \ universe : v = <<f, h>>

\* Whatever packages do, attributes are texts.
TextsInv == \A d \in Listed : HasTexts(walk[d])
=============================================================================
