--------------------------- MODULE FodWalk_proofs ---------------------------
(***************************************************************************)
(* Proofs about FodWalk, for any closure, any templates and any changes by *)
(* packages: type correctness, that both worklists find exactly what they  *)
(* are for in whatever order they are worked off, that a green walk runs   *)
(* nothing unknown, and that a walk of genuine fetchers is green.          *)
(***************************************************************************)
EXTENDS FodWalk, TLAPS

LEMMA NextCases ==
    ASSUME Next
    PROVE  \/ Package \/ Begin \/ UniverseDone \/ Classify \/ Verdict \/ Done
           \/ \E d \in Drv : Visit(d) \/ Descend(d)
  BY DEF Next, Check

-----------------------------------------------------------------------------
(* The graph. *)

LEMMA SeedsInDrv == Seeds \subseteq Drv
  BY InputsAssumption DEF Seeds

\* What is in reach contains the roots, and inputs do not leave it.
LEMMA ReachRoots == ASSUME NEW R, R \subseteq Drv PROVE R \subseteq Reach(R)
  BY DEF Reach

LEMMA ReachClosed ==
    ASSUME TypeOK, NEW R, NEW d \in Reach(R)
    PROVE  Inputs(d) \subseteq Reach(R)
  <1>1. Inputs(d) \subseteq Drv
    BY DEF Inputs, TypeOK
  <1>2. ASSUME NEW S \in SUBSET Drv, R \subseteq S, Within(S) PROVE Inputs(d) \subseteq S
    <2>1. d \in S
      BY <1>2 DEF Reach
    <2> QED
      BY <1>2, <2>1 DEF Within
  <1> QED
    BY <1>1, <1>2 DEF Reach

LEMMA ReachLeast ==
    ASSUME NEW R, NEW S \in SUBSET Drv, R \subseteq S, Within(S)
    PROVE  Reach(R) \subseteq S
  BY DEF Reach

\* The hooks that run in a FOD: its own, those of its hooks, and no others.
LEMMA RunHooksOwn == ASSUME NEW f PROVE Inputs(f) \intersect Providers \subseteq RunHooks(f)
  BY DEF RunHooks

LEMMA RunHooksClosed ==
    ASSUME NEW f, NEW g \in RunHooks(f)
    PROVE  Inputs(g) \intersect Providers \subseteq RunHooks(f)
  <1>1. ASSUME NEW S \in SUBSET Providers, Inputs(f) \intersect Providers \subseteq S,
               \A h \in S : Inputs(h) \intersect Providers \subseteq S
        PROVE  Inputs(g) \intersect Providers \subseteq S
    <2>1. g \in S
      BY <1>1 DEF RunHooks
    <2> QED
      BY <1>1, <2>1
  <1> QED
    BY <1>1 DEF RunHooks

LEMMA RunHooksLeast ==
    ASSUME NEW f, NEW S \in SUBSET Providers, Inputs(f) \intersect Providers \subseteq S,
           \A g \in S : Inputs(g) \intersect Providers \subseteq S
    PROVE  RunHooks(f) \subseteq S
  BY DEF RunHooks

\* The check leaves the walk alone, and with it all that is said of it.
LEMMA SameWalk ==
    ASSUME UNCHANGED walk
    PROVE  /\ Providers' = Providers /\ Fods' = Fods
           /\ \A d : Inputs(d)' = Inputs(d)
           /\ \A f : RunHooks(f)' = RunHooks(f)
           /\ Reach(Seeds)' = Reach(Seeds)
  <1>1. Providers' = Providers /\ Fods' = Fods /\ \A d : Inputs(d)' = Inputs(d)
    BY DEF Providers, Fods, Inputs
  <1>2. \A f : RunHooks(f)' = RunHooks(f)
    BY <1>1 DEF RunHooks
  <1>3. \A S : Within(S)' = Within(S)
    BY <1>1 DEF Within
  <1>4. Reach(Seeds)' = Reach(Seeds)
    BY <1>3 DEF Reach
  <1> QED
    BY <1>1, <1>2, <1>4

-----------------------------------------------------------------------------
(* Type correctness. *)

\* Packages act before the check begins.
LEMMA PackageStep ==
    ASSUME Package
    PROVE  phase = "tree" /\ UNCHANGED <<phase, worklist, universe, cur, hooks, todo, violations>>
  BY DEF Package, SetAttr, DropAttr, SetBuilder, AddInput, AddSrc, Change

LEMMA PackageWalk ==
    ASSUME TypeOK, Package
    PROVE  /\ DOMAIN walk' = Listed
           /\ \A d \in Listed : "inputs" \in DOMAIN walk'[d] /\ walk'[d].inputs \subseteq Drv
  <1>1. ASSUME NEW d \in Listed, NEW new, walk' = [walk EXCEPT ![d] = new],
               "inputs" \in DOMAIN new, new.inputs \subseteq Drv
        PROVE  /\ DOMAIN walk' = Listed
               /\ \A e \in Listed : "inputs" \in DOMAIN walk'[e] /\ walk'[e].inputs \subseteq Drv
    BY <1>1 DEF TypeOK
  <1>2. CASE \E c \in Texts : SetAttr(c[1], c[2], c[3])
    <2>1. PICK c \in Texts : SetAttr(c[1], c[2], c[3])
      BY <1>2
    <2>2. c[1] \in Listed
      BY <2>1 DEF SetAttr, Change
    <2>3. PICK attrs : walk' = [walk EXCEPT ![c[1]] = [walk[c[1]] EXCEPT !.attrs = attrs]]
      BY <2>1, <2>2 DEF SetAttr, TypeOK
    <2> QED
      BY <2>2, <2>3, <1>1 DEF TypeOK
  <1>3. CASE \E d \in Listed : \E key \in DOMAIN walk[d].attrs : DropAttr(d, key)
    <2>1. PICK d \in Listed : \E key \in DOMAIN walk[d].attrs : DropAttr(d, key)
      BY <1>3
    <2>2. PICK attrs : walk' = [walk EXCEPT ![d] = [walk[d] EXCEPT !.attrs = attrs]]
      BY <2>1 DEF DropAttr, TypeOK
    <2> QED
      BY <2>1, <2>2, <1>1 DEF TypeOK
  <1>4. CASE \E c \in Builds : SetBuilder(c[1], c[2])
    <2>1. PICK c \in Builds : SetBuilder(c[1], c[2])
      BY <1>4
    <2>2. c[1] \in Listed /\ walk' = [walk EXCEPT ![c[1]] = [walk[c[1]] EXCEPT !.builder = c[2]]]
      BY <2>1 DEF SetBuilder, Change
    <2> QED
      BY <2>2, <1>1 DEF TypeOK
  <1>5. CASE \E c \in Links : AddInput(c[1], c[2])
    <2>1. PICK c \in Links : AddInput(c[1], c[2])
      BY <1>5
    <2> DEFINE more == walk[c[1]].inputs \union {c[2]}
    <2>2. c[1] \in Listed /\ walk' = [walk EXCEPT ![c[1]] = [walk[c[1]] EXCEPT !.inputs = more]]
      BY <2>1 DEF AddInput, Change, TypeOK
    <2>3. more \subseteq Drv
      BY <2>2, InputsAssumption DEF TypeOK
    <2> QED
      BY <2>2, <2>3, <1>1 DEF TypeOK
  <1>6. CASE \E c \in Scripts : AddSrc(c[1], c[2])
    <2>1. PICK c \in Scripts : AddSrc(c[1], c[2])
      BY <1>6
    <2>2. c[1] \in Listed
      BY <2>1 DEF AddSrc, Change
    <2>3. PICK srcs : walk' = [walk EXCEPT ![c[1]] = [walk[c[1]] EXCEPT !.srcs = srcs]]
      BY <2>1, <2>2 DEF AddSrc, TypeOK
    <2> QED
      BY <2>2, <2>3, <1>1 DEF TypeOK
  <1> QED
    BY <1>2, <1>3, <1>4, <1>5, <1>6 DEF Package

LEMMA InitTypeOK == Init => TypeOK /\ UniverseInv
  <1> SUFFICES ASSUME Init PROVE TypeOK /\ UniverseInv
    OBVIOUS
  <1>1. cur \in Listed
    BY DrvAssumption DEF Init
  <1> QED
    BY <1>1, InputsAssumption DEF Init, TypeOK, UniverseInv, UniverseIsReach

LEMMA StepTypeOK ==
    ASSUME TypeOK, UniverseInv, [Next]_vars
    PROVE  TypeOK'
  <1> USE DEF tree, worklist
  <1>1. CASE Package
    <2>1. universe' = {} /\ hooks' = {}
      BY <1>1, PackageStep DEF UniverseInv
    <2> QED
      BY <1>1, <2>1, PackageStep, PackageWalk DEF TypeOK
  <1>2. CASE Begin
    <2>1. Fods \subseteq Listed
      BY DEF Fods
    <2> QED
      BY <1>2, <2>1, SameWalk, SeedsInDrv DEF TypeOK, Begin
  <1>3. ASSUME NEW d \in Drv, Visit(d) PROVE TypeOK'
    <2>1. Inputs(d) \subseteq Drv
      BY DEF TypeOK, Inputs
    <2> QED
      BY <1>3, <2>1, SameWalk DEF TypeOK, Visit
  <1>4. CASE UniverseDone \/ Done
    BY <1>4, SameWalk DEF TypeOK, UniverseDone, Done
  <1>5. CASE Classify
    <2>1. cur' \in todo
      BY <1>5 DEF Classify
    <2>2. cur' \in Listed /\ cur' \in Drv
      BY <2>1, DrvAssumption DEF TypeOK
    <2> QED
      BY <1>5, <2>2, SameWalk DEF TypeOK, Classify
  <1>6. ASSUME NEW d \in Drv, Descend(d) PROVE TypeOK'
    <2>1. Inputs(d) \subseteq Drv
      BY DEF TypeOK, Inputs
    <2> QED
      BY <1>6, <2>1, SameWalk DEF TypeOK, Descend
  <1>7. CASE Verdict
    <2>1. \A v \in violations' : v \in violations \/ v[1] = cur
      BY <1>7 DEF Verdict
    <2>2. \A v \in violations' : v[1] \in Listed
      BY <2>1 DEF TypeOK
    <2>3. UNCHANGED <<walk, queue, seen, universe, cur, hooks>> /\ phase' = "next"
          /\ todo' \subseteq todo
      BY <1>7 DEF Verdict
    <2> QED
      BY <2>2, <2>3, SameWalk DEF TypeOK
  <1>8. CASE UNCHANGED vars
    BY <1>8, SameWalk DEF TypeOK, vars
  <1> QED
    BY <1>1, <1>2, <1>3, <1>4, <1>5, <1>6, <1>7, <1>8, NextCases

-----------------------------------------------------------------------------
(* The hooks that may run. *)

LEMMA StepUniverseInv ==
    ASSUME TypeOK, UniverseInv, [Next]_vars
    PROVE  UniverseInv'
  <1> USE DEF tree, worklist
  <1>1. CASE Package
    BY <1>1, PackageStep DEF UniverseInv, UniverseIsReach
  <1>2. CASE Begin
    <2>1. Seeds \subseteq Reach(Seeds)
      BY SeedsInDrv, ReachRoots
    <2>2. phase' = "universe" /\ queue' = Seeds /\ seen' = Seeds /\ universe' = {}
          /\ Reach(Seeds)' = Reach(Seeds)
      BY <1>2, SameWalk DEF Begin, UniverseInv
    <2> QED
      BY <2>1, <2>2 DEF UniverseInv, UniverseIsReach
  <1>3. ASSUME NEW d \in Drv, Visit(d) PROVE UniverseInv'
    <2>1. phase = "universe" /\ phase' = "universe" /\ d \in queue
          /\ queue' = (queue \ {d}) \union (Inputs(d) \ seen)
          /\ seen' = seen \union Inputs(d)
          /\ universe' = (IF d \in Providers THEN universe \union {d} ELSE universe)
      BY <1>3 DEF Visit
    <2>2. /\ Seeds \subseteq seen /\ queue \subseteq seen /\ seen \subseteq Reach(Seeds)
          /\ universe = Providers \intersect (seen \ queue)
          /\ \A e \in seen \ queue : Inputs(e) \subseteq seen
      BY <2>1 DEF UniverseInv
    <2>3. Inputs(d) \subseteq Reach(Seeds)
      BY <2>1, <2>2, ReachClosed
    <2>4. Providers' = Providers /\ Reach(Seeds)' = Reach(Seeds) /\ \A e : Inputs(e)' = Inputs(e)
      BY <1>3, SameWalk DEF Visit
    <2>5. seen' \ queue' = (seen \ queue) \union {d}
      BY <2>1, <2>2
    <2>6. universe' = Providers \intersect (seen' \ queue')
      BY <2>1, <2>2, <2>5
    <2>7. \A e \in seen' \ queue' : Inputs(e) \subseteq seen'
      BY <2>1, <2>2, <2>5
    <2> QED
      BY <2>1, <2>2, <2>3, <2>4, <2>6, <2>7 DEF UniverseInv, UniverseIsReach
  <1>4. CASE UniverseDone
    <2>1. seen \in SUBSET Drv /\ Seeds \subseteq seen /\ seen \subseteq Reach(Seeds)
          /\ universe = Providers \intersect seen /\ \A e \in seen : Inputs(e) \subseteq seen
      BY <1>4 DEF UniverseDone, UniverseInv, TypeOK
    <2>2. Reach(Seeds) = seen
      BY <2>1, ReachLeast DEF Within
    <2> QED
      BY <1>4, <2>1, <2>2, SameWalk DEF UniverseDone, UniverseInv, UniverseIsReach
  <1>5. CASE Classify \/ Verdict \/ Done \/ \E d \in Drv : Descend(d)
    <2>1. phase \in {"next", "hooks"} /\ phase' \in {"next", "hooks", "done"}
          /\ UNCHANGED <<walk, universe>>
      BY <1>5 DEF Classify, Verdict, Done, Descend
    <2> QED
      BY <2>1, SameWalk DEF UniverseInv, UniverseIsReach
  <1>6. CASE UNCHANGED vars
    BY <1>6, SameWalk DEF UniverseInv, UniverseIsReach, vars
  <1> QED
    BY <1>1, <1>2, <1>3, <1>4, <1>5, <1>6, NextCases

LEMMA Invariant == Spec => [](TypeOK /\ UniverseInv)
  <1>1. TypeOK /\ UniverseInv /\ [Next]_vars => (TypeOK /\ UniverseInv)'
    BY StepTypeOK, StepUniverseInv
  <1> QED
    BY <1>1, InitTypeOK, PTL DEF Spec

\* Every variable keeps its type, in any closure.
THEOREM TypeCorrect == Spec => []TypeOK
  BY Invariant, PTL

\* The hooks that may run are those in reach of the templates, in whatever
\* order the worklist is worked off, over cycles and dead ends.
THEOREM UniverseCorrect == Spec => []UniverseIsReach
  BY Invariant, PTL DEF UniverseInv

-----------------------------------------------------------------------------
(* The hooks that do run. *)

LEMMA StepHooksInv ==
    ASSUME TypeOK, HooksInv, [Next]_vars
    PROVE  HooksInv'
  <1> USE DEF tree, worklist
  <1>1. CASE Package
    BY <1>1, PackageStep DEF HooksInv
  <1>2. CASE Begin \/ UniverseDone \/ Verdict \/ Done \/ \E d \in Drv : Visit(d)
    BY <1>2 DEF Begin, UniverseDone, Verdict, Done, Visit, HooksInv
  <1>3. CASE Classify
    <2>1. queue' = {cur'} /\ seen' = {} /\ hooks' = {}
      BY <1>3 DEF Classify
    <2> QED
      BY <2>1 DEF HooksInv
  <1>4. ASSUME NEW d \in Drv, Descend(d) PROVE HooksInv'
    <2>1. phase = "hooks" /\ d \in queue /\ UNCHANGED <<walk, cur>> /\ seen' = seen \union {d}
      BY <1>4 DEF Descend
    <2>2. Providers' = Providers /\ RunHooks(cur)' = RunHooks(cur)
          /\ \A e : Inputs(e)' = Inputs(e)
      BY <2>1, SameWalk
    <2>3. /\ cur \in queue \union seen /\ hooks \subseteq queue \union seen
          /\ hooks \subseteq RunHooks(cur)
          /\ \A e \in (queue \union seen) \intersect Providers : e = cur \/ e \in RunHooks(cur)
          /\ \A e \in seen : e = cur \/ e \in Providers =>
                Inputs(e) \intersect Providers \subseteq hooks
      BY <2>1 DEF HooksInv
    <2>4. CASE d = cur \/ d \in Providers
      <3>1. hooks' = hooks \union (Inputs(d) \intersect Providers)
            /\ queue' = (queue \ {d}) \union (Inputs(d) \ seen')
        BY <1>4, <2>4 DEF Descend
      <3>2. Inputs(d) \intersect Providers \subseteq RunHooks(cur)
        BY <2>1, <2>3, <2>4, RunHooksOwn, RunHooksClosed
      <3>3. queue' \union seen' = queue \union seen \union Inputs(d)
        BY <2>1, <3>1
      <3>4. \A e \in (queue' \union seen') \intersect Providers : e = cur \/ e \in RunHooks(cur)
        BY <2>3, <3>2, <3>3
      <3>5. hooks' \subseteq queue' \union seen' /\ hooks' \subseteq RunHooks(cur)
            /\ cur \in queue' \union seen'
        BY <2>3, <3>1, <3>2, <3>3
      <3>6. \A e \in seen' : e = cur \/ e \in Providers =>
                Inputs(e) \intersect Providers \subseteq hooks'
        BY <2>1, <2>3, <3>1
      <3> QED
        BY <2>1, <2>2, <3>4, <3>5, <3>6 DEF HooksInv
    <2>5. CASE ~(d = cur \/ d \in Providers)
      <3>1. hooks' = hooks /\ queue' = queue \ {d}
        BY <1>4, <2>5 DEF Descend
      <3> QED
        BY <2>1, <2>2, <2>3, <2>5, <3>1 DEF HooksInv
    <2> QED
      BY <2>4, <2>5
  <1>5. CASE UNCHANGED vars
    BY <1>5, SameWalk DEF HooksInv, vars
  <1> QED
    BY <1>1, <1>2, <1>3, <1>4, <1>5, NextCases

LEMMA HooksFound == ASSUME TypeOK, HooksInv PROVE HooksAreRun
  <1> SUFFICES ASSUME phase = "hooks", queue = {} PROVE hooks = RunHooks(cur)
    BY DEF HooksAreRun
  <1>1. cur \in seen /\ hooks \subseteq seen /\ hooks \subseteq RunHooks(cur)
        /\ \A d \in seen : d = cur \/ d \in Providers =>
              Inputs(d) \intersect Providers \subseteq hooks
    BY DEF HooksInv
  <1>2. hooks \in SUBSET Providers
    BY DEF TypeOK
  <1> QED
    BY <1>1, <1>2, RunHooksLeast

LEMMA HooksInvariant == Spec => []HooksInv
  <1>1. Init => HooksInv
    BY DEF Init, HooksInv
  <1> QED
    BY <1>1, StepHooksInv, Invariant, PTL DEF Spec

\* The hooks found in a FOD are those its build runs.
THEOREM HooksCorrect == Spec => []HooksAreRun
  BY HooksFound, HooksInvariant, Invariant, PTL

-----------------------------------------------------------------------------
(* The texts. *)

\* A package's text is one of those it may set; what it drops leaves the others.
LEMMA PackageTexts ==
    ASSUME TypeOK, TextsInv, Package
    PROVE  TextsInv'
  <1>1. ASSUME NEW d \in Listed, NEW new, walk' = [walk EXCEPT ![d] = new], HasTexts(new)
        PROVE  TextsInv'
    BY <1>1 DEF TypeOK, TextsInv
  <1>2. CASE \E c \in Texts : SetAttr(c[1], c[2], c[3])
    <2>1. PICK c \in Texts : SetAttr(c[1], c[2], c[3])
      BY <1>2
    <2> DEFINE old == walk[c[1]]
               attrs == [k \in DOMAIN old.attrs \union {c[2]} |->
                            IF k = c[2] THEN c[3] ELSE old.attrs[k]]
    <2>2. c[1] \in Listed /\ walk' = [walk EXCEPT ![c[1]] = [old EXCEPT !.attrs = attrs]]
      BY <2>1 DEF SetAttr, Change, TypeOK, TextsInv, HasTexts
    <2>3. HasTexts(old) /\ IsText(c[3])
      BY <2>2, TextsAssumption DEF TextsInv
    <2>4. HasTexts([old EXCEPT !.attrs = attrs])
      <3>1. \A k \in DOMAIN attrs : IsText(attrs[k])
        BY <2>3 DEF HasTexts
      <3> HIDE DEF attrs
      <3> QED
        BY <2>3, <3>1 DEF HasTexts
    <2> QED
      BY <1>1, <2>2, <2>4
  <1>3. CASE \E d \in Listed : \E key \in DOMAIN walk[d].attrs : DropAttr(d, key)
    <2>1. PICK d \in Listed : \E key \in DOMAIN walk[d].attrs : DropAttr(d, key)
      BY <1>3
    <2>2. PICK key \in DOMAIN walk[d].attrs : DropAttr(d, key)
      BY <2>1
    <2> DEFINE old == walk[d]
               attrs == [k \in DOMAIN old.attrs \ {key} |-> old.attrs[k]]
    <2>3. walk' = [walk EXCEPT ![d] = [old EXCEPT !.attrs = attrs]]
      BY <2>2 DEF DropAttr, TypeOK, TextsInv, HasTexts
    <2>4. HasTexts([old EXCEPT !.attrs = attrs])
      <3>1. \A k \in DOMAIN attrs : IsText(attrs[k])
        BY DEF TextsInv, HasTexts
      <3>2. "attrs" \in DOMAIN old
        BY DEF TextsInv, HasTexts
      <3> HIDE DEF attrs
      <3> QED
        BY <3>1, <3>2 DEF HasTexts
    <2> QED
      BY <1>1, <2>3, <2>4
  <1>4. CASE \E c \in Builds : SetBuilder(c[1], c[2])
    <2>1. PICK c \in Builds : SetBuilder(c[1], c[2])
      BY <1>4
    <2>2. c[1] \in Listed /\ walk' = [walk EXCEPT ![c[1]] = [walk[c[1]] EXCEPT !.builder = c[2]]]
      BY <2>1 DEF SetBuilder, Change
    <2>3. HasTexts([walk[c[1]] EXCEPT !.builder = c[2]])
      BY <2>2 DEF TextsInv, HasTexts
    <2> QED
      BY <1>1, <2>2, <2>3
  <1>5. CASE \E c \in Links : AddInput(c[1], c[2])
    <2>1. PICK c \in Links : AddInput(c[1], c[2])
      BY <1>5
    <2> DEFINE more == walk[c[1]].inputs \union {c[2]}
    <2>2. c[1] \in Listed /\ walk' = [walk EXCEPT ![c[1]] = [walk[c[1]] EXCEPT !.inputs = more]]
      BY <2>1 DEF AddInput, Change, TypeOK
    <2>3. HasTexts([walk[c[1]] EXCEPT !.inputs = more])
      BY <2>2 DEF TextsInv, HasTexts
    <2> QED
      BY <1>1, <2>2, <2>3
  <1>6. CASE \E c \in Scripts : AddSrc(c[1], c[2])
    <2>1. PICK c \in Scripts : AddSrc(c[1], c[2])
      BY <1>6
    <2>2. c[1] \in Listed
      BY <2>1 DEF AddSrc, Change
    <2>3. PICK srcs : walk' = [walk EXCEPT ![c[1]] = [walk[c[1]] EXCEPT !.srcs = srcs]]
      BY <2>1, <2>2 DEF AddSrc, TypeOK
    <2>4. HasTexts([walk[c[1]] EXCEPT !.srcs = srcs])
      BY <2>2 DEF TextsInv, HasTexts
    <2> QED
      BY <1>1, <2>2, <2>3, <2>4
  <1> QED
    BY <1>2, <1>3, <1>4, <1>5, <1>6 DEF Package

LEMMA TextsInvariant == Spec => []TextsInv
  <1>1. Init => TextsInv
    BY TextsAssumption DEF Init, TextsInv
  <1>2. TypeOK /\ TextsInv /\ [Next]_vars => TextsInv'
    <2>1. ASSUME TextsInv, UNCHANGED walk PROVE TextsInv'
      BY <2>1 DEF TextsInv
    <2>2. ASSUME Next, ~Package PROVE UNCHANGED walk
      BY <2>2, NextCases DEF tree, Begin, UniverseDone, Classify, Verdict, Done, Visit, Descend
    <2> QED
      BY <2>1, <2>2, PackageTexts DEF vars, tree
  <1> QED
    BY <1>1, <1>2, TypeCorrect, PTL DEF Spec

-----------------------------------------------------------------------------
(* What a template's match says of a build. *)

\* No family takes as a parameter what its builds execute and is not left to the
\* package, or a post-fetch.
LEMMA NotParameters ==
    ASSUME NEW family \in Families \union {"none"}, NEW label,
           label = family \/ (family = "none" /\ label = Native)
    PROVE  /\ (ExecutedNames \ LeftToPackage(family)) \intersect Ivars(label) = {}
           /\ "postFetch" \notin Ivars(label) /\ "postFetch" \notin ExecutedNames
  <1> USE DEF ExecutedNames, LeftToPackage, Ivars, InstanceVars, FetcherCommon
  <1>1. CASE label = family /\ family \in Fetchurls
    BY <1>1 DEF Fetchurls
  <1>2. CASE label = family /\ family \in {"fetchgit", "fetchhg", "fetchsvn", "caddyDeps", "yarnDeps"}
    BY <1>2
  <1>3. CASE label = family /\ family \in {"npmDeps", "cargoDeps"}
    BY <1>3
  <1>4. CASE label = family /\ family = "pnpmDeps"
    BY <1>4
  <1>5. CASE label = family /\ family = "goModules"
    BY <1>5
  <1>6. CASE label \in {"none", "nat"} /\ family = "none"
    BY <1>6
  <1> QED
    BY <1>1, <1>2, <1>3, <1>4, <1>5, <1>6 DEF Families, Native

\* The masking of a parameter in a phase leaves what it says and whose it is.
LEMMA NormalisedText ==
    ASSUME NEW a, NEW b, IsText(a), IsText(b), NEW family, NEW name,
           Normalised(family, name, a) = Normalised(family, name, b)
    PROVE  a.says = b.says /\ a.by = b.by
  BY DEF Normalised, IsText

\* A derivation that matches a template executes what the template does.
LEMMA MatchExecutes ==
    ASSUME NEW d, NEW t, HasTexts(d), HasTexts(t),
           NEW family \in Families \union {"none"}, NEW label,
           label = family \/ (family = "none" /\ label = Native),
           Matches(d, t, label)
    PROVE  /\ Executed(d, family) = Executed(t, family)
           /\ Scripted(d, family) \subseteq t.srcs /\ t.srcs \subseteq d.srcs
           /\ PostFetch(d) \subseteq PostFetch(t) \union AllowedPostfetch
  <1>1. ASSUME NEW key, key[2] \in ExecutedNames \ LeftToPackage(family),
               key \in DOMAIN d.attrs \/ key \in DOMAIN t.attrs
        PROVE  /\ key \in DOMAIN d.attrs /\ key \in DOMAIN t.attrs
               /\ d.attrs[key].says = t.attrs[key].says /\ d.attrs[key].by = t.attrs[key].by
    <2>1. key[2] \notin Ivars(label) /\ key[2] # "postFetch"
      BY <1>1, NotParameters
    <2>2. key \notin AttrProblems(d, t, label)
      BY DEF Matches
    <2>3. /\ key \in DOMAIN d.attrs /\ key \in DOMAIN t.attrs
          /\ Normalised(label, key[2], d.attrs[key]) = Normalised(label, key[2], t.attrs[key])
      BY <1>1, <2>1, <2>2 DEF AttrProblems
    <2> QED
      BY <2>3, NormalisedText DEF HasTexts
  <1>2. Executed(d, family) = Executed(t, family)
    <2> DEFINE TextsOf(e) == {<<key[2], e.attrs[key].says, e.attrs[key].by>> :
                    key \in {k \in DOMAIN e.attrs : k[2] \in ExecutedNames \ LeftToPackage(family)}}
    <2>1. TextsOf(d) = TextsOf(t)
      BY <1>1
    <2>2. d.builder = t.builder /\ d.args = t.args /\ d.system = t.system
      BY DEF Matches
    <2> QED
      BY <2>1, <2>2 DEF Executed
  <1>3. Scripted(d, family) \subseteq t.srcs /\ t.srcs \subseteq d.srcs
    <2>1. ~SrcsProblem(d, t, label)
      BY DEF Matches
    <2>2. OwnSrcs(d, label) = OwnSrcs(d, family)
      <3>1. CASE label = family
        BY <3>1
      <3>2. CASE family = "none" /\ label = Native
        BY <3>2 DEF OwnSrcs, Native
      <3> QED
        BY <3>1, <3>2
    <2>3. \A s : IsDataSrc(s, label) = IsDataSrc(s, family)
      BY DEF IsDataSrc, DataSuffixes, Native
    <2> QED
      BY <2>1, <2>2, <2>3 DEF SrcsProblem, Scripted
  <1>4. ASSUME NEW key \in DOMAIN d.attrs, key[2] = "postFetch", d.attrs[key].says # "nothing"
        PROVE  d.attrs[key] \in PostFetch(t) \union AllowedPostfetch
    <2>1. key \notin AttrProblems(d, t, label) /\ key[2] \notin Ivars(label)
      BY <1>4, NotParameters DEF Matches
    <2>2. CASE label \in PostfetchFamilies
      BY <1>4, <2>1, <2>2 DEF AttrProblems, PostfetchProblem
    <2>3. CASE label \notin PostfetchFamilies
      <3>1. key \in DOMAIN t.attrs
            /\ Normalised(label, key[2], d.attrs[key]) = Normalised(label, key[2], t.attrs[key])
        BY <1>4, <2>1, <2>3 DEF AttrProblems
      <3>2. d.attrs[key] = t.attrs[key]
        BY <1>4, <3>1 DEF Normalised, Phases
      <3> QED
        BY <1>4, <3>1, <3>2 DEF PostFetch
    <2> QED
      BY <2>2, <2>3
  <1>5. PostFetch(d) \subseteq PostFetch(t) \union AllowedPostfetch
    BY <1>4 DEF PostFetch
  <1> QED
    BY <1>2, <1>3, <1>5

\* What is recognised executes nothing unknown.
LEMMA RecognisedIsKnown ==
    ASSUME NEW f, HasTexts(walk[f]), Recognised(walk[f], Templates, Catalogue)
    PROVE  ExecutesOnlyKnown(f)
  <1> DEFINE d == walk[f]
  <1>1. ASSUME NEW t \in AllTemplates, NEW label, FamilyOf(d) \in Families \union {"none"},
               label = FamilyOf(d) \/ (FamilyOf(d) = "none" /\ label = Native),
               Matches(d, t, label)
        PROVE  ExecutesOnlyKnown(f)
    <2>1. HasTexts(t)
      BY TextsAssumption
    <2> QED
      BY <1>1, <2>1, MatchExecutes DEF ExecutesOnlyKnown
  <1>2. Catalogue \subseteq AllTemplates
    BY DEF AllTemplates
  <1>3. \A l \in Labels : Templates[l] \subseteq AllTemplates
    BY LabelsAssumption DEF AllTemplates
  <1>4. CASE d.builder = Builtin
    BY <1>4 DEF ExecutesOnlyKnown
  <1>5. CASE FamilyOf(d) \in Families
             /\ \E t \in Candidates(FamilyOf(d), Templates) : Matches(d, t, FamilyOf(d))
    <2>1. PICK t \in Candidates(FamilyOf(d), Templates) : Matches(d, t, FamilyOf(d))
      BY <1>5
    <2>2. FamilyOf(d) \in Labels /\ "fetchpatch" \in Labels
      BY <1>5 DEF Labels, Families, Fetchurls
    <2>3. t \in AllTemplates
      BY <1>3, <2>1, <2>2 DEF Candidates
    <2> QED
      BY <1>1, <1>5, <2>1, <2>3
  <1>6. CASE FamilyOf(d) = "none" /\ \E t \in Templates[Native] : MatchesExactly(d, t)
    <2>1. PICK t \in Templates[Native] : Matches(d, t, Native)
      BY <1>6 DEF MatchesExactly
    <2>2. t \in AllTemplates
      BY <1>3, <2>1 DEF Labels
    <2> QED
      BY <1>1, <1>6, <2>1, <2>2
  <1>7. CASE FamilyOf(d) = "none" /\ \E t \in CatalogueOf(d, Catalogue) : MatchesExactly(d, t)
    <2>1. PICK t \in Catalogue : Matches(d, t, Native)
      BY <1>7 DEF CatalogueOf, MatchesExactly
    <2>2. t \in AllTemplates
      BY <1>2, <2>1
    <2> QED
      BY <1>1, <1>7, <2>1, <2>2
  <1> QED
    BY <1>4, <1>5, <1>6, <1>7 DEF Recognised

-----------------------------------------------------------------------------
(* The verdicts. *)

LEMMA SameReason == ASSUME UNCHANGED walk PROVE \A f : Reason(f)' = Reason(f)
  <1> SUFFICES ASSUME NEW f PROVE Reason(f)' = Reason(f)
    OBVIOUS
  <1>1. walk' = walk /\ Fods' = Fods /\ Inputs(f)' = Inputs(f)
    BY SameWalk
  <1>2. \A i \in Listed : walk'[i] = walk[i]
    BY <1>1
  <1>3. BuilderReason(f)' = BuilderReason(f)
    BY <1>1 DEF BuilderReason
  <1> QED
    BY <1>1, <1>3 DEF Reason

LEMMA StepVerdictInv ==
    ASSUME TypeOK, UniverseInv, HooksInv, VerdictInv, [Next]_vars
    PROVE  VerdictInv'
  <1> USE DEF tree, worklist
  <1>1. CASE Package
    BY <1>1, PackageStep DEF VerdictInv
  <1>2. CASE Begin
    BY <1>2, SameWalk, SameReason DEF Begin, VerdictInv
  <1>3. CASE UniverseDone \/ Classify \/ Done \/ \E d \in Drv : Visit(d) \/ Descend(d)
    <2>1. CASE UniverseDone
      BY <2>1, SameWalk, SameReason DEF UniverseDone, VerdictInv
    <2>2. CASE Classify \/ Done
      BY <2>2, SameWalk, SameReason DEF Classify, Done, VerdictInv
    <2>3. CASE \E d \in Drv : Visit(d)
      BY <2>3, SameWalk, SameReason DEF Visit, VerdictInv
    <2>4. CASE \E d \in Drv : Descend(d)
      BY <2>4, SameWalk, SameReason DEF Descend, VerdictInv
    <2> QED
      BY <1>3, <2>1, <2>2, <2>3, <2>4
  <1>4. CASE Verdict
    <2>1. /\ phase = "hooks" /\ phase' = "next" /\ UNCHANGED <<walk, universe>>
          /\ todo' = todo \ {cur} /\ violations \subseteq violations'
          /\ \A h \in hooks \ universe : <<cur, h>> \in violations'
          /\ Reason(cur) # "none" => <<cur, Reason(cur)>> \in violations'
      BY <1>4 DEF Verdict
    <2>2. hooks = RunHooks(cur)
      BY <1>4, HooksFound DEF HooksAreRun, Verdict
    <2>3. \A f \in Fods \ todo' :
            /\ \A h \in RunHooks(f) \ universe : <<f, h>> \in violations'
            /\ Reason(f) # "none" => <<f, Reason(f)>> \in violations'
      <3> SUFFICES ASSUME NEW f \in Fods \ todo'
                   PROVE  /\ \A h \in RunHooks(f) \ universe : <<f, h>> \in violations'
                          /\ Reason(f) # "none" => <<f, Reason(f)>> \in violations'
        OBVIOUS
      <3>1. CASE f = cur
        <4>1. \A h \in RunHooks(cur) \ universe : <<cur, h>> \in violations'
          BY <2>1, <2>2
        <4>2. Reason(cur) # "none" => <<cur, Reason(cur)>> \in violations'
          BY <2>1
        <4>3. RunHooks(f) = RunHooks(cur) /\ Reason(f) = Reason(cur)
          BY <3>1
        <4> QED
          BY <3>1, <4>1, <4>2, <4>3
      <3>2. CASE f \in Fods \ todo
        <4>1. /\ \A h \in RunHooks(f) \ universe : <<f, h>> \in violations
              /\ Reason(f) # "none" => <<f, Reason(f)>> \in violations
          BY <2>1, <3>2 DEF VerdictInv
        <4> QED
          BY <2>1, <4>1
      <3> QED
        BY <2>1, <3>1, <3>2
    <2>4. Fods' = Fods /\ universe' = universe
          /\ \A f : RunHooks(f)' = RunHooks(f) /\ Reason(f)' = Reason(f)
      BY <2>1, SameWalk, SameReason
    <2>5. \A f \in Fods' \ todo' :
            /\ \A h \in RunHooks(f)' \ universe' : <<f, h>> \in violations'
            /\ Reason(f)' # "none" => <<f, Reason(f)'>> \in violations'
      BY <2>3, <2>4
    <2> QED
      BY <2>1, <2>5 DEF VerdictInv
  <1>5. CASE UNCHANGED vars
    BY <1>5, SameWalk, SameReason DEF VerdictInv, vars
  <1> QED
    BY <1>1, <1>2, <1>3, <1>4, <1>5, NextCases

LEMMA VerdictInvariant == Spec => []VerdictInv
  <1>1. Init => VerdictInv
    BY DEF Init, VerdictInv
  <1> QED
    BY <1>1, StepVerdictInv, Invariant, HooksInvariant, PTL DEF Spec

\* In a walk that is green no FOD runs a hook that the templates do not reach,
\* whatever packages plant in its closure.
THEOREM GreenHooks == Spec => []GreenMeansKnownHooks
  <1>1. UniverseInv /\ VerdictInv => GreenMeansKnownHooks
    <2> SUFFICES ASSUME UniverseInv, VerdictInv, phase = "done", violations = {},
                        NEW f \in Fods
                 PROVE  RunHooks(f) \subseteq Reach(Seeds)
      BY DEF GreenMeansKnownHooks, Green
    <2>1. RunHooks(f) \subseteq universe
      BY DEF VerdictInv
    <2>2. universe \subseteq Reach(Seeds)
      BY DEF UniverseInv, UniverseIsReach
    <2> QED
      BY <2>1, <2>2
  <1> QED
    BY <1>1, Invariant, VerdictInvariant, PTL

\* In a walk that is green every FOD is built in or, but for what is left to the
\* package by name, executes what some template does, with the template's
\* scripts and listed post-fetch texts, whatever texts, scripts, builders and
\* inputs packages give it.
THEOREM GreenShapes == Spec => []GreenMeansKnown
  <1>1. TextsInv /\ VerdictInv => GreenMeansKnown
    <2> SUFFICES ASSUME TextsInv, VerdictInv, phase = "done", violations = {},
                        NEW f \in Fods
                 PROVE  ExecutesOnlyKnown(f)
      BY DEF GreenMeansKnown, Green
    <2>1. Reason(f) = "none"
      BY DEF VerdictInv
    <2>2. Recognised(walk[f], Templates, Catalogue)
      BY <2>1 DEF Reason, BuilderReason
    <2>3. HasTexts(walk[f])
      BY DEF TextsInv, Fods
    <2> QED
      BY <2>2, <2>3, RecognisedIsKnown
  <1> QED
    BY <1>1, TextsInvariant, VerdictInvariant, PTL

-----------------------------------------------------------------------------
(* No false alarm. *)

\* The first test that holds tells the family.
LEMMA FirstTest ==
    ASSUME NEW d, NEW n \in 1..13, Tests(d)[n].holds, \A j \in 1..13 : j < n => ~Tests(d)[j].holds
    PROVE  FamilyOf(d) = Tests(d)[n].family
  <1>1. DOMAIN Tests(d) = 1..13
    BY DEF Tests
  <1>2. n \in LooksLike(d) /\ LooksLike(d) \subseteq 1..13 /\ \A j \in LooksLike(d) : n <= j
    BY <1>1 DEF LooksLike
  <1>3. \A i \in LooksLike(d) : (\A j \in LooksLike(d) : i <= j) => i = n
    BY <1>2
  <1>4. (CHOOSE i \in LooksLike(d) : \A j \in LooksLike(d) : i <= j) = n
    BY <1>2, <1>3
  <1> QED
    BY <1>2, <1>4 DEF FamilyOf

\* What a template's own test says of the tests before it.
LEMMA ToldBy ==
    ASSUME NEW t, NEW family, IsTold(t, family)
    PROVE  \E n \in 1..13 : /\ Tests(t)[n].family = family /\ Tests(t)[n].holds
                            /\ \A j \in 1..13 : j < n => ~Tests(t)[j].holds
  <1>1. DOMAIN Tests(t) = 1..13
    BY DEF Tests
  <1>2. PICK n \in LooksLike(t) : Tests(t)[n].family = family /\ \A j \in LooksLike(t) : n <= j
    BY DEF IsTold
  <1>3. n \in 1..13 /\ Tests(t)[n].holds
    BY <1>1, <1>2 DEF LooksLike
  <1>4. \A j \in 1..13 : j < n => ~Tests(t)[j].holds
    <2> SUFFICES ASSUME NEW j \in 1..13, j < n, Tests(t)[j].holds PROVE FALSE
      OBVIOUS
    <2>1. j \in LooksLike(t)
      BY <1>1 DEF LooksLike
    <2> QED
      BY <1>2, <1>3, <2>1
  <1> QED
    BY <1>2, <1>3, <1>4

\* What an instance has beside its template is parameters and post-fetch texts.
LEMMA InstanceKeys ==
    ASSUME NEW d, NEW t, NEW family, IsInstance(d, t, family), NEW side, NEW name
    PROVE  /\ <<side, name>> \in DOMAIN t.attrs => <<side, name>> \in DOMAIN d.attrs
           /\ \/ name \in InstanceVars(family) \union {"SSL_CERT_FILE"}
              \/ ListsPostFetch(name, family)
              \/ <<side, name>> \in DOMAIN d.attrs =>
                    /\ <<side, name>> \in DOMAIN t.attrs
                    /\ d.attrs[<<side, name>>].says = t.attrs[<<side, name>>].says
  <1>1. <<side, name>> \in DOMAIN d.attrs => IsInstanceText(d, t, <<side, name>>, family)
    BY DEF IsInstance
  <1> QED
    BY <1>1 DEF IsInstance, IsInstanceText

\* Whether an attribute that is no parameter is there, and what it says.
LEMMA InstanceSays ==
    ASSUME NEW d, NEW t, NEW family, IsInstance(d, t, family),
           NEW name, name \notin InstanceVars(family) \union {"SSL_CERT_FILE", "postFetch"}
    PROVE  /\ Sa(d, name) <=> Sa(t, name)
           /\ Env(d, name) <=> Env(t, name)
           /\ \A what : Says(d, name, what) <=> Says(t, name, what)
           /\ \A what : PhaseSays(d, name, what) <=> PhaseSays(t, name, what)
  <1>1. ~ListsPostFetch(name, family)
    BY DEF ListsPostFetch
  <1>2. (<<"sa", name>> \in DOMAIN d.attrs <=> <<"sa", name>> \in DOMAIN t.attrs)
        /\ (<<"env", name>> \in DOMAIN d.attrs <=> <<"env", name>> \in DOMAIN t.attrs)
    BY <1>1, InstanceKeys
  <1>3. (Sa(d, name) <=> Sa(t, name)) /\ (Env(d, name) <=> Env(t, name))
    BY <1>2 DEF Sa, Env
  <1>4. (Sa(d, name) => d.attrs[<<"sa", name>>].says = t.attrs[<<"sa", name>>].says)
        /\ (Env(d, name) => d.attrs[<<"env", name>>].says = t.attrs[<<"env", name>>].says)
    BY <1>1, InstanceKeys DEF Sa, Env
  <1>5. ASSUME NEW what PROVE Says(d, name, what) <=> Says(t, name, what)
    BY <1>2, <1>3, <1>4 DEF Says, Sa, Env
  <1>6. ASSUME NEW what PROVE PhaseSays(d, name, what) <=> PhaseSays(t, name, what)
    BY <1>2, <1>3, <1>4 DEF PhaseSays, Sa, Env
  <1> QED
    BY <1>3, <1>5, <1>6

\* An instance has what its template has, and a list of urls if its template does.
LEMMA InstanceHas ==
    ASSUME NEW d, NEW t, NEW family, IsInstance(d, t, family)
    PROVE  /\ \A name : (Sa(t, name) => Sa(d, name)) /\ (Env(t, name) => Env(d, name))
           /\ Sa(d, "urls") <=> Sa(t, "urls")
           /\ d.name.claims = t.name.claims
  <1>1. \A name : (Sa(t, name) => Sa(d, name)) /\ (Env(t, name) => Env(d, name))
    BY DEF IsInstance, Sa, Env
  <1> QED
    BY <1>1 DEF IsInstance

\* The tests one by one.
LEMMA EachTest ==
    ASSUME NEW d
    PROVE  /\ Tests(d)[1].holds <=> Sa(d, "urls") /\ (Sa(d, "owner") \/ Sa(d, "repo"))
           /\ Tests(d)[2].holds <=> Sa(d, "urls") /\ Sa(d, "recursiveHash")
           /\ Tests(d)[3].holds <=> /\ Sa(d, "urls") /\ Sa(d, "postFetch")
                                    /\ d.attrs[<<"sa", "postFetch">>].says = "patch-prologue"
           /\ Tests(d)[4].holds <=> Sa(d, "urls")
           /\ Tests(d)[5].holds <=> /\ Sa(d, "rev")
                                    /\ Sa(d, "fetchSubmodules") \/ Sa(d, "deepClone")
           /\ Tests(d)[6].holds <=> Env(d, "SVN_SSH") \/ Sa(d, "SVN_SSH")
           /\ Tests(d)[7].holds <=> /\ Env(d, "url") \/ Sa(d, "url")
                                    /\ Says(d, "nativeBuildInputs", "mercurial")
           /\ Tests(d)[8].holds <=> Env(d, "NPM_FETCHER_VERSION")
           /\ Tests(d)[9].holds <=> Env(d, "fetcherVersion")
           /\ Tests(d)[10].holds <=> d.name.claims = "caddyDeps"
           /\ Tests(d)[11].holds <=> Env(d, "GOTOOLCHAIN") /\ Env(d, "modRoot")
           /\ Tests(d)[12].holds <=> PhaseSays(d, "buildPhase", "vendor-staging")
           /\ Tests(d)[13].holds <=> PhaseSays(d, "buildPhase", "yarn-prefetch")
  BY DEF Tests

\* The family each is for.
LEMMA TestFamilies ==
    ASSUME NEW d
    PROVE  [n \in 1..13 |-> Tests(d)[n].family] =
           <<"fetchgithub", "fetchzip", "fetchpatch", "fetchurl", "fetchgit", "fetchsvn", "fetchhg",
             "npmDeps", "pnpmDeps", "caddyDeps", "goModules", "cargoDeps", "yarnDeps">>
  BY DEF Tests

\* No family is mistaken for another: an instance is told by the test that tells
\* its template.
LEMMA InstanceTold ==
    ASSUME NEW d, NEW t, NEW family \in Families, IsTold(t, family), IsInstance(d, t, family)
    PROVE  FamilyOf(d) = family
  <1> DEFINE V == InstanceVars(family) \union {"SSL_CERT_FILE", "postFetch"}
  <1>1. PICK n \in 1..13 : /\ Tests(t)[n].family = family /\ Tests(t)[n].holds
                           /\ \A j \in 1..13 : j < n => ~Tests(t)[j].holds
    BY ToldBy
  <1>2. SUFFICES Tests(d)[n].holds /\ \A j \in 1..13 : j < n => ~Tests(d)[j].holds
    <2>1. Tests(d)[n].family = Tests(t)[n].family
      BY DEF Tests
    <2> QED
      BY <1>1, <2>1, FirstTest
  <1>3. \A name : (Sa(t, name) => Sa(d, name)) /\ (Env(t, name) => Env(d, name))
    BY InstanceHas
  <1>4. (Sa(d, "urls") <=> Sa(t, "urls")) /\ d.name.claims = t.name.claims
    BY InstanceHas
  <1>5. \A name : name \notin V =>
            /\ (Sa(d, name) <=> Sa(t, name)) /\ (Env(d, name) <=> Env(t, name))
            /\ \A what : /\ Says(d, name, what) <=> Says(t, name, what)
                         /\ PhaseSays(d, name, what) <=> PhaseSays(t, name, what)
    BY InstanceSays
  <1> HIDE DEF V
  <1>6. CASE n = 1
    BY <1>1, <1>3, <1>6, EachTest
  <1>7. CASE n = 2
    <2>1. family = "fetchzip"
      BY <1>1, <1>7, TestFamilies
    <2>2. "owner" \notin V /\ "repo" \notin V
      BY <2>1 DEF V, InstanceVars, FetcherCommon
    <2> QED
      BY <1>1, <1>3, <1>5, <1>7, <2>2, EachTest
  <1>8. CASE n = 3
    <2>1. family = "fetchpatch"
      BY <1>1, <1>8, TestFamilies
    <2>2. "owner" \notin V /\ "repo" \notin V /\ "recursiveHash" \notin V
      BY <2>1 DEF V, InstanceVars, FetcherCommon
    <2>3. Sa(d, "urls") /\ Sa(d, "postFetch")
      BY <1>1, <1>3, <1>8, EachTest
    <2>4. IsInstanceText(d, t, <<"sa", "postFetch">>, family)
      BY <2>3 DEF IsInstance, Sa
    <2>5. d.attrs[<<"sa", "postFetch">>].says = "patch-prologue"
      BY <2>1, <2>4 DEF IsInstanceText, ListsPostFetch, PostfetchFamilies, InstanceVars, FetcherCommon
    <2> QED
      BY <1>1, <1>4, <1>5, <1>8, <2>2, <2>3, <2>5, EachTest
  <1>9. CASE n = 4
    <2>1. family = "fetchurl"
      BY <1>1, <1>9, TestFamilies
    <2>2. "owner" \notin V /\ "repo" \notin V /\ "recursiveHash" \notin V
      BY <2>1 DEF V, InstanceVars, FetcherCommon
    <2>3. ~ListsPostFetch("postFetch", family)
          /\ "postFetch" \notin InstanceVars(family) \union {"SSL_CERT_FILE"}
      BY <2>1 DEF ListsPostFetch, PostfetchFamilies, InstanceVars, FetcherCommon
    <2>4. Sa(d, "postFetch") =>
            /\ Sa(t, "postFetch")
            /\ d.attrs[<<"sa", "postFetch">>].says = t.attrs[<<"sa", "postFetch">>].says
      BY <2>3, InstanceKeys DEF Sa
    <2>5. ~Sa(t, "owner") /\ ~Sa(t, "repo") /\ ~Sa(t, "recursiveHash") /\ Sa(t, "urls")
      <3>1. Sa(t, "urls")
        BY <1>1, <1>9, EachTest
      <3>2. ~Tests(t)[1].holds /\ ~Tests(t)[2].holds
        BY <1>1, <1>9
      <3> QED
        BY <3>1, <3>2, EachTest
    <2>6. ~Sa(d, "owner") /\ ~Sa(d, "repo") /\ ~Sa(d, "recursiveHash")
      BY <1>5, <2>2, <2>5
    <2>7. ~Tests(d)[1].holds /\ ~Tests(d)[2].holds
      BY <2>6, EachTest
    <2>8. ~Tests(d)[3].holds
      <3>1. ~Tests(t)[3].holds
        BY <1>1, <1>9
      <3>2. ~(Sa(t, "postFetch") /\ t.attrs[<<"sa", "postFetch">>].says = "patch-prologue")
        BY <2>5, <3>1, EachTest
      <3> QED
        BY <2>4, <3>2, EachTest
    <2>9. Tests(d)[4].holds
      BY <1>4, <2>5, EachTest
    <2> QED
      BY <1>9, <2>7, <2>8, <2>9
  <1>10. ASSUME n > 4
         PROVE  ~Sa(d, "urls") /\ \A j \in 1..4 : ~Tests(d)[j].holds
    <2>1. ~Sa(t, "urls")
      <3>1. ~Tests(t)[4].holds
        BY <1>1, <1>10
      <3> QED
        BY <3>1, EachTest
    <2>2. ~Sa(d, "urls")
      BY <1>4, <2>1
    <2>3. ~Tests(d)[1].holds /\ ~Tests(d)[2].holds /\ ~Tests(d)[3].holds /\ ~Tests(d)[4].holds
      BY <2>2, EachTest
    <2> QED
      BY <2>2, <2>3
  <1>11. CASE n = 5
    BY <1>1, <1>3, <1>10, <1>11, EachTest
  <1>12. (Sa(t, "fetchSubmodules") \/ Sa(t, "deepClone") => Sa(t, "rev"))
         /\ (family \in {"pnpmDeps", "goModules"} => ~Sa(t, "url") /\ ~Env(t, "url"))
    BY DEF IsTold
  <1>13. ASSUME n > 5 PROVE ~Tests(d)[5].holds
    <2>1. ~Sa(t, "fetchSubmodules") /\ ~Sa(t, "deepClone")
      BY <1>1, <1>12, <1>13, EachTest
    <2>2. family \in {"fetchsvn", "fetchhg", "npmDeps", "pnpmDeps", "caddyDeps", "goModules",
                      "cargoDeps", "yarnDeps"}
      BY <1>1, <1>13, TestFamilies
    <2>3. "fetchSubmodules" \notin V /\ "deepClone" \notin V
      BY <2>2 DEF V, InstanceVars, FetcherCommon
    <2> QED
      BY <1>5, <2>1, <2>3, EachTest
  <1>14. CASE n = 6
    BY <1>1, <1>3, <1>10, <1>13, <1>14, EachTest
  <1>15. ASSUME n > 6 PROVE ~Tests(d)[6].holds
    <2>1. family \in {"fetchhg", "npmDeps", "pnpmDeps", "caddyDeps", "goModules", "cargoDeps",
                      "yarnDeps"}
      BY <1>1, <1>15, TestFamilies
    <2>2. "SVN_SSH" \notin V
      BY <2>1 DEF V, InstanceVars, FetcherCommon
    <2> QED
      BY <1>1, <1>5, <1>15, <2>2, EachTest
  <1>16. CASE n = 7
    <2>1. family = "fetchhg"
      BY <1>1, <1>16, TestFamilies
    <2>2. "nativeBuildInputs" \notin V
      BY <2>1 DEF V, InstanceVars, FetcherCommon
    <2>3. Tests(d)[7].holds
      BY <1>1, <1>3, <1>5, <1>16, <2>2, EachTest
    <2> QED
      BY <1>10, <1>13, <1>15, <1>16, <2>3
  <1>17. ASSUME n > 7 PROVE ~Tests(d)[7].holds
    <2>1. family \in {"npmDeps", "pnpmDeps", "caddyDeps", "goModules", "cargoDeps", "yarnDeps"}
      BY <1>1, <1>17, TestFamilies
    <2>2. "url" \notin V
      BY <2>1 DEF V, InstanceVars
    <2>3. CASE family \in {"pnpmDeps", "goModules"}
      BY <1>5, <1>12, <2>2, <2>3, EachTest
    <2>4. CASE family \in {"npmDeps", "caddyDeps", "cargoDeps", "yarnDeps"}
      <3>1. "nativeBuildInputs" \notin V
        BY <2>4 DEF V, InstanceVars
      <3> QED
        BY <1>1, <1>5, <1>17, <2>2, <3>1, EachTest
    <2> QED
      BY <2>1, <2>3, <2>4
  <1>18. CASE n = 8
    <2>1. Tests(d)[8].holds
      BY <1>1, <1>3, <1>18, EachTest
    <2> QED
      BY <1>10, <1>13, <1>15, <1>17, <1>18, <2>1
  <1>19. ASSUME n > 8
         PROVE  /\ ~Tests(d)[8].holds
                /\ n > 9 => ~Tests(d)[9].holds
                /\ n > 10 => ~Tests(d)[10].holds
                /\ n > 11 => ~Tests(d)[11].holds
    <2>1. family \in {"pnpmDeps", "caddyDeps", "goModules", "cargoDeps", "yarnDeps"}
          /\ (n > 9 => family \in {"caddyDeps", "goModules", "cargoDeps", "yarnDeps"})
          /\ (n > 11 => family \in {"cargoDeps", "yarnDeps"})
      BY <1>1, <1>19, TestFamilies
    <2>2. /\ "NPM_FETCHER_VERSION" \notin V
          /\ n > 9 => "fetcherVersion" \notin V
          /\ n > 11 => "GOTOOLCHAIN" \notin V /\ "modRoot" \notin V
      BY <2>1 DEF V, InstanceVars
    <2>3. ~Tests(d)[8].holds
      BY <1>1, <1>5, <1>19, <2>2, EachTest
    <2>4. n > 9 => ~Tests(d)[9].holds
      BY <1>1, <1>5, <2>2, EachTest
    <2>5. n > 10 => ~Tests(d)[10].holds
      BY <1>1, <1>4, EachTest
    <2>6. n > 11 => ~Tests(d)[11].holds
      BY <1>1, <1>5, <2>2, EachTest
    <2> QED
      BY <2>3, <2>4, <2>5, <2>6
  <1>20. CASE n \in {9, 10, 11}
    <2>1. Tests(d)[n].holds
      BY <1>1, <1>3, <1>4, <1>20, EachTest
    <2> QED
      BY <1>10, <1>13, <1>15, <1>17, <1>19, <1>20, <2>1
  <1>21. CASE n \in {12, 13}
    <2>1. family \in {"cargoDeps", "yarnDeps"}
      BY <1>1, <1>21, TestFamilies
    <2>2. "buildPhase" \notin V
      BY <2>1 DEF V, InstanceVars
    <2>3. Tests(d)[n].holds /\ (n = 13 => ~Tests(d)[12].holds)
      BY <1>1, <1>5, <1>21, <2>2, EachTest
    <2> QED
      BY <1>10, <1>13, <1>15, <1>17, <1>19, <1>21, <2>3
  <1> QED
    BY <1>6, <1>7, <1>8, <1>9, <1>11, <1>14, <1>16, <1>18, <1>20, <1>21

\* Nothing but parameters tells an instance from its template.
LEMMA InstanceMatches ==
    ASSUME NEW d, NEW t, NEW family \in Families, HasTexts(d), HasTexts(t),
           IsInstance(d, t, family)
    PROVE  Matches(d, t, family)
  <1>1. d.builder = t.builder /\ d.args = t.args /\ d.system = t.system
    BY DEF IsInstance
  <1>2. ~OutputsProblem(d, t)
    BY DEF IsInstance, OutputsProblem
  <1>3. ~SrcsProblem(d, t, family)
    BY DEF IsInstance, SrcsProblem
  <1>4. ASSUME NEW key \in AttrProblems(d, t, family) PROVE FALSE
    <2>1. key \in DOMAIN d.attrs /\ key[2] \notin InstanceVars(family) \union {"SSL_CERT_FILE"}
          /\ (key \in DOMAIN t.attrs => key \in DOMAIN d.attrs)
      BY DEF AttrProblems, Ivars, IsInstance
    <2>2. IsInstanceText(d, t, key, family)
      BY <2>1 DEF IsInstance
    <2>3. CASE ListsPostFetch(key[2], family)
      <3>1. d.attrs[key].says = "nothing" \/ d.attrs[key] \in AllowedPostfetch
        BY <2>1, <2>2, <2>3 DEF IsInstanceText
      <3> QED
        BY <2>3, <3>1 DEF AttrProblems, ListsPostFetch, PostfetchProblem
    <2>4. CASE ~ListsPostFetch(key[2], family)
      <3>1. key \in DOMAIN t.attrs
            /\ Normalised(family, key[2], d.attrs[key]) # Normalised(family, key[2], t.attrs[key])
        BY <2>1, <2>2, <2>4 DEF AttrProblems, ListsPostFetch, IsInstanceText
      <3>2. Spliced(key[2], family)
            /\ d.attrs[key].says = t.attrs[key].says /\ d.attrs[key].by = t.attrs[key].by
        BY <2>1, <2>2, <2>4, <3>1 DEF IsInstanceText
      <3>3. IsText(d.attrs[key]) /\ IsText(t.attrs[key])
        BY <2>1, <3>1 DEF HasTexts
      <3>4. ASSUME NEW a, IsText(a)
            PROVE  Normalised(family, key[2], a)
                       = [says |-> a.says, by |-> a.by, splice |-> "masked"]
        BY <3>2, <3>4 DEF IsText, Normalised, Spliced
      <3> QED
        BY <3>1, <3>2, <3>3, <3>4
    <2> QED
      BY <2>3, <2>4
  <1> QED
    BY <1>1, <1>2, <1>3, <1>4 DEF Matches

LEMMA InstanceRecognised ==
    ASSUME NEW f, HasTexts(walk[f]), NEW l \in Families, NEW t \in Templates[l],
           IsInstance(walk[f], t, l)
    PROVE  Reason(f) = "none"
  <1>1. l \in DOMAIN Templates
    BY LabelsAssumption DEF Labels
  <1>2. HasTexts(t)
    BY <1>1, TextsAssumption DEF AllTemplates
  <1>3. FamilyOf(walk[f]) = l
    BY FamiliesAssumption, InstanceTold
  <1>4. Matches(walk[f], t, l)
    BY <1>2, InstanceMatches
  <1>5. t \in Candidates(l, Templates)
    BY DEF Candidates
  <1> QED
    BY <1>3, <1>4, <1>5 DEF Reason, Recognised

\* Every violation has its ground, and keeps it: the check leaves the walk and,
\* once it gives verdicts, the hooks that may run alone.
LEMMA StepExactInv ==
    ASSUME TypeOK, HooksInv, ExactInv, [Next]_vars
    PROVE  ExactInv'
  <1> USE DEF tree, worklist
  <1> DEFINE Ground(v, f) ==
                \/ Reason(f) # "none" /\ v = <<f, Reason(f)>>
                \/ \E h \in RunHooks(f) \ universe : v = <<f, h>>
  <1>1. CASE Package
    <2>1. phase' = "tree" /\ violations' = {} /\ todo' = {}
      BY <1>1, PackageStep DEF ExactInv
    <2> QED
      BY <2>1 DEF ExactInv
  <1>2. CASE Begin \/ \E d \in Drv : Visit(d)
    <2>1. phase' = "universe" /\ violations' = {} /\ UNCHANGED walk /\ todo' \subseteq Fods
      BY <1>2 DEF Begin, Visit, ExactInv
    <2> QED
      BY <2>1, SameWalk DEF ExactInv
  <1>3. ASSUME UNCHANGED <<walk, universe>>, phase' \notin {"tree", "universe"} \/ violations' = {},
               phase' = "tree" => todo' = {}, todo' \subseteq Fods, phase' = "hooks" => cur' \in Fods,
               \A v \in violations' : v \in violations \/ \E f \in Fods : Ground(v, f)
        PROVE  ExactInv'
    <2>1. \A v \in violations' : \E f \in Fods : Ground(v, f)
      BY <1>3 DEF ExactInv
    <2>2. Fods' = Fods /\ universe' = universe
          /\ \A f : RunHooks(f)' = RunHooks(f) /\ Reason(f)' = Reason(f)
      BY <1>3, SameWalk, SameReason
    <2>3. \A v \in violations' : \E f \in Fods' :
            \/ Reason(f)' # "none" /\ v = <<f, Reason(f)'>>
            \/ \E h \in RunHooks(f)' \ universe' : v = <<f, h>>
      BY <2>1, <2>2
    <2> QED
      BY <1>3, <2>2, <2>3 DEF ExactInv
  <1>4. CASE UniverseDone \/ Classify \/ Done \/ \E d \in Drv : Descend(d)
    <2>1. CASE UniverseDone \/ Done
      BY <1>3, <2>1 DEF UniverseDone, Done, ExactInv
    <2>2. CASE Classify
      BY <1>3, <2>2 DEF Classify, ExactInv
    <2>3. CASE \E d \in Drv : Descend(d)
      BY <1>3, <2>3 DEF Descend, ExactInv
    <2> QED
      BY <1>4, <2>1, <2>2, <2>3
  <1>5. CASE Verdict
    <2>1. hooks = RunHooks(cur)
      BY <1>5, HooksFound DEF HooksAreRun, Verdict
    <2>2. cur \in Fods
      BY <1>5 DEF ExactInv, Verdict
    <2>3. \A v \in violations' : v \in violations \/ Ground(v, cur)
      BY <1>5, <2>1 DEF Verdict
    <2>4. UNCHANGED <<walk, universe>> /\ phase' = "next" /\ todo' \subseteq Fods
      BY <1>5 DEF Verdict, ExactInv
    <2> QED
      BY <1>3, <2>2, <2>3, <2>4
  <1>6. CASE UNCHANGED vars
    BY <1>3, <1>6 DEF vars, ExactInv
  <1> QED
    BY <1>1, <1>2, <1>4, <1>5, <1>6, NextCases

LEMMA ExactInvariant == Spec => []ExactInv
  <1>1. Init => ExactInv
    BY DEF Init, ExactInv
  <1> QED
    BY <1>1, StepExactInv, Invariant, HooksInvariant, PTL DEF Spec

\* A walk whose FODs are all instances of fetchers, and run no hook but those the
\* templates reach, is green: whatever parameters they were given and in whatever
\* order the check worked, it raises no false alarm.
THEOREM GenuineGreen == Spec => []GenuineIsGreen
  <1>1. TextsInv /\ UniverseInv /\ ExactInv => GenuineIsGreen
    <2> SUFFICES ASSUME TextsInv, UniverseInv, ExactInv, phase = "done",
                        \A f \in Fods :
                            /\ RunHooks(f) \subseteq Reach(Seeds)
                            /\ \E l \in Families : \E t \in Templates[l] : IsInstance(walk[f], t, l),
                        NEW v \in violations
                 PROVE  FALSE
      BY DEF GenuineIsGreen
    <2>1. PICK f \in Fods : \/ Reason(f) # "none" /\ v = <<f, Reason(f)>>
                            \/ \E h \in RunHooks(f) \ universe : v = <<f, h>>
      BY DEF ExactInv
    <2>2. Reason(f) = "none"
      <3>1. HasTexts(walk[f])
        BY DEF TextsInv, Fods
      <3> QED
        BY <3>1, InstanceRecognised
    <2>3. RunHooks(f) \subseteq universe
      BY DEF UniverseInv, UniverseIsReach, RunHooks
    <2> QED
      BY <2>1, <2>2, <2>3
  <1> QED
    BY <1>1, TextsInvariant, Invariant, ExactInvariant, PTL

=============================================================================
