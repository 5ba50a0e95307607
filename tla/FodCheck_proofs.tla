--------------------------- MODULE FodCheck_proofs --------------------------
(***************************************************************************)
(* Proofs about FodCheck, for any containers, pins, trees, command lines   *)
(* and failures: type correctness, that everything asked for is told of,   *)
(* that exit 0 means everything was checked, and that an entry point's     *)
(* outcome is its own.                                                     *)
(***************************************************************************)
EXTENDS FodCheck, FiniteSetTheorems, SequenceTheorems, WellFoundedInduction, TLAPS

TypeInv == TypeOK /\ ShapeInv

-----------------------------------------------------------------------------
(* The operators.                                                          *)

LEMMA OrderLists ==
    ASSUME NEW S, IsFiniteSet(S)
    PROVE  /\ Cardinality(S) \in Nat
           /\ Order(S) \in [1..Cardinality(S) -> S]
           /\ {Order(S)[i] : i \in 1..Cardinality(S)} = S
  <1>1. Cardinality(S) \in Nat /\ ExistsBijection(1..Cardinality(S), S)
    BY FS_CardinalityType
  <1>2. PICK s \in [1..Cardinality(S) -> S] : \A e \in S : \E i \in 1..Cardinality(S) : s[i] = e
    BY <1>1 DEF ExistsBijection, Bijection, Surjection
  <1>3. {s[i] : i \in DOMAIN s} = S
    BY <1>2
  <1>4. Order(S) \in [1..Cardinality(S) -> S] /\ {Order(S)[i] : i \in DOMAIN Order(S)} = S
    BY <1>2, <1>3 DEF Order
  <1> QED
    BY <1>1, <1>4

LEMMA ListIsSeq ==
    ASSUME NEW S, NEW n \in Nat, NEW s \in [1..n -> S]
    PROVE  s \in Seq(S) /\ DOMAIN s = 1..n
  OBVIOUS

LEMMA KeyTypes ==
    ASSUME tree \in Trees, NEW c \in Containers, tree.pin[c] # Odd
    PROVE  Key(c) \in Keys \ {Ringtail}
  <1>1. tree.pin[c] \in Pins \union {Shared, Odd}
    BY TreesAssumption
  <1> QED
    BY <1>1, PinsAssumption, NamesAssumption DEF Key, Keys

-----------------------------------------------------------------------------
(* Types.                                                                  *)

LEMMA InitTypes == Init => TypeInv
  <1> SUFFICES ASSUME Init PROVE TypeInv
    OBVIOUS
  <1>1. TypeOK
    BY BoundsAssumption DEF Init, TypeOK
  <1>2. ShapeInv
    BY DEF Init, ShapeInv
  <1> QED
    BY <1>1, <1>2 DEF TypeInv

LEMMA FaultTypes == ASSUME TypeInv, Fault PROVE faults' \in 0..MaxFaults
  BY BoundsAssumption DEF TypeInv, TypeOK, Fault

LEMMA ExitTypes ==
    ASSUME TypeInv, NEW code \in {"0", "1"}, Exit(code),
           UNCHANGED <<given, entries, contexts, outcome>>, faults' \in 0..MaxFaults
    PROVE  TypeInv'
  BY DEF TypeInv, TypeOK, ShapeInv, Exit, given

\* Where only the place changes.
LEMMA MoveTypes ==
    ASSUME TypeInv, pc # "done", UNCHANGED <<given, entries, contexts, outcome, exit>>,
           faults' \in 0..MaxFaults,
           pc' \in {"select", "resolve", "path", "catalogue", "contexts", "entry"}
                  \union (IF entries = <<>> THEN {} ELSE {"templates", "classify"})
    PROVE  TypeInv'
  BY DEF TypeInv, TypeOK, ShapeInv, given

LEMMA BeforeTypes ==
    ASSUME TypeInv,
           AnchorFails \/ AnchorHolds \/ UnknownContainer \/ Known
           \/ Resolve \/ ResolveRetry \/ ResolveFails \/ CatalogueFails \/ CatalogueHolds
    PROVE  TypeInv'
  <1>0. faults \in 0..MaxFaults
    BY DEF TypeInv, TypeOK
  <1>1. CASE AnchorFails \/ UnknownContainer \/ CatalogueFails
    BY <1>0, <1>1, ExitTypes DEF AnchorFails, UnknownContainer, CatalogueFails, Fails
  <1>2. CASE ResolveFails
    BY <1>2, FaultTypes, ExitTypes DEF ResolveFails, Fails
  <1>3. CASE AnchorHolds \/ Known \/ Resolve \/ CatalogueHolds
    BY <1>0, <1>3, MoveTypes DEF AnchorHolds, Known, Resolve, CatalogueHolds, Proceed
  <1>4. CASE ResolveRetry
    BY <1>4, FaultTypes, MoveTypes DEF ResolveRetry
  <1> QED
    BY <1>1, <1>2, <1>3, <1>4

Chosen == Selected \intersect Containers
PinnedNow == {c \in Chosen : tree.pin[c] # Odd}

LEMMA NamesInOrder ==
    /\ Cardinality(PinnedNow) \in Nat
    /\ Order(PinnedNow) \in [1..Cardinality(PinnedNow) -> PinnedNow]
    /\ {Order(PinnedNow)[i] : i \in 1..Cardinality(PinnedNow)} = PinnedNow
  <1>1. IsFiniteSet(PinnedNow)
    BY NamesAssumption, FS_Subset DEF PinnedNow, Chosen
  <1> QED
    BY <1>1, OrderLists

\* What MakeContexts makes, with the names of its LET.
LEMMA Made ==
    ASSUME MakeContexts
    PROVE  /\ pc = "contexts" /\ pc' = IF Ringtail \in Selected THEN "flake" ELSE "entry"
           /\ contexts' = [key \in {Key(c) : c \in PinnedNow} |->
                 Context(<<Source(SourcePin(FirstOf(key, PinnedNow)), Native, NoId)>>, {})]
           /\ entries' = [i \in 1..Cardinality(PinnedNow) |->
                 Entry(Order(PinnedNow)[i], Key(Order(PinnedNow)[i]))]
           /\ outcome' = [e \in Targets |->
                 IF e \in Chosen \ PinnedNow THEN "violations" ELSE outcome[e]]
           /\ UNCHANGED <<given, ended, exit, faults>>
  <1>1. DOMAIN Order(PinnedNow) = 1..Cardinality(PinnedNow)
    BY NamesInOrder
  <1> QED
    BY <1>1 DEF MakeContexts, PinnedNow, Chosen

LEMMA MakeTypes == ASSUME TypeInv, MakeContexts PROVE TypeInv'
  <1> DEFINE n == Cardinality(PinnedNow)
  <1>1. \A i \in 1..n : Order(PinnedNow)[i] \in PinnedNow
    BY NamesInOrder
  <1>2. \A c \in PinnedNow : c \in Containers /\ Key(c) \in Keys
    BY KeyTypes DEF PinnedNow, Chosen, TypeInv, ShapeInv
  <1>3. entries' \in [1..n -> [who : Targets, ctx : Keys]]
    BY <1>1, <1>2, Made DEF Entry, Targets
  <1>4. entries' \in Seq([who : Targets, ctx : Keys]) /\ DOMAIN entries' = 1..n
    BY <1>3, NamesInOrder, ListIsSeq
  <1>5. DOMAIN contexts' = {Key(c) : c \in PinnedNow}
    BY Made
  <1>6. \A i \in DOMAIN entries' : entries'[i].ctx \in DOMAIN contexts'
    BY <1>1, <1>4, <1>5, Made DEF Entry
  <1>7. \A key \in DOMAIN contexts' : contexts'[key] =
            [sources |-> contexts'[key].sources, anchor |-> contexts'[key].anchor,
             templates |-> contexts'[key].templates]
    BY Made DEF Context
  <1>8. contexts' = [key \in DOMAIN contexts' |-> contexts'[key]]
    BY Made
  <1>9. contexts' = [key \in DOMAIN contexts' |->
            [sources |-> contexts'[key].sources, anchor |-> contexts'[key].anchor,
             templates |-> contexts'[key].templates]]
    BY <1>7, <1>8
  <1>10. outcome' \in [Targets -> {"unchecked", "green", "violations", "error"}]
    BY Made DEF TypeInv, TypeOK
  <1>11. TypeOK'
    BY <1>6, <1>10, Made DEF TypeInv, TypeOK
  <1>12. ShapeInv'
    BY <1>4, <1>9, Made DEF TypeInv, ShapeInv, given
  <1> QED
    BY <1>11, <1>12 DEF TypeInv

LEMMA AddTypes ==
    ASSUME TypeInv, NEW sources, NEW anchor, AddRingtail(sources, anchor),
           faults' \in 0..MaxFaults
    PROVE  TypeInv'
  <1>1. entries \in Seq([who : Targets, ctx : Keys])
        /\ Entry(Ringtail, Ringtail) \in [who : Targets, ctx : Keys]
    BY DEF TypeInv, ShapeInv, Entry, Targets, Keys
  <1>2. entries' \in Seq([who : Targets, ctx : Keys])
    BY <1>1 DEF AddRingtail
  <1>3. \A i \in DOMAIN entries' : entries'[i] = Entry(Ringtail, Ringtail)
            \/ (i \in DOMAIN entries /\ entries'[i] = entries[i])
    BY <1>1 DEF AddRingtail
  <1>4. DOMAIN contexts' = DOMAIN contexts \union {Ringtail}
    BY DEF AddRingtail
  <1>5. \A i \in DOMAIN entries' : entries'[i].ctx \in DOMAIN contexts'
    BY <1>3, <1>4 DEF TypeInv, TypeOK, Entry
  <1>6. \A key \in DOMAIN contexts : contexts[key] =
            [sources |-> contexts[key].sources, anchor |-> contexts[key].anchor,
             templates |-> contexts[key].templates]
    BY DEF TypeInv, ShapeInv
  <1>7. \A key \in DOMAIN contexts' : contexts'[key] =
            [sources |-> contexts'[key].sources, anchor |-> contexts'[key].anchor,
             templates |-> contexts'[key].templates]
    BY <1>4, <1>6 DEF AddRingtail, Context
  <1>8. contexts' = [key \in DOMAIN contexts' |-> contexts'[key]]
    BY DEF AddRingtail
  <1>9. contexts' = [key \in DOMAIN contexts' |->
            [sources |-> contexts'[key].sources, anchor |-> contexts'[key].anchor,
             templates |-> contexts'[key].templates]]
    BY <1>7, <1>8
  <1>10. TypeOK'
    BY <1>5 DEF TypeInv, TypeOK, AddRingtail
  <1>11. ShapeInv'
    BY <1>2, <1>9 DEF TypeInv, ShapeInv, AddRingtail, given
  <1> QED
    BY <1>10, <1>11 DEF TypeInv

LEMMA RingtailTypes ==
    ASSUME TypeInv, FlakeAnchor \/ ProbeFails \/ FlakeUnanchored PROVE TypeInv'
  <1>1. faults' \in 0..MaxFaults
    BY FaultTypes DEF TypeInv, TypeOK, FlakeAnchor, ProbeFails, FlakeUnanchored
  <1> QED
    BY <1>1, AddTypes DEF FlakeAnchor, ProbeFails, FlakeUnanchored

\* The current entry point, and those that are left after it.
LEMMA NowTypes ==
    ASSUME TypeInv, entries # <<>>
    PROVE  /\ Now = entries[1] /\ 1 \in DOMAIN entries
           /\ Now.who \in Targets /\ Now.ctx \in DOMAIN contexts
           /\ Tail(entries) \in Seq([who : Targets, ctx : Keys])
           /\ Len(Tail(entries)) = Len(entries) - 1
           /\ \A i \in DOMAIN Tail(entries) :
                  i + 1 \in DOMAIN entries /\ Tail(entries)[i] = entries[i + 1]
           /\ \A i \in DOMAIN entries : i = 1 \/ i - 1 \in DOMAIN Tail(entries)
  <1>1. entries \in Seq([who : Targets, ctx : Keys])
    BY DEF TypeInv, ShapeInv
  <1>2. 1 \in DOMAIN entries /\ Now = entries[1]
    BY <1>1 DEF Now
  <1>3. Now.who \in Targets /\ Now.ctx \in DOMAIN contexts
    <2>1. Now \in [who : Targets, ctx : Keys]
      BY <1>1, HeadTailProperties DEF Now
    <2>2. entries[1].ctx \in DOMAIN contexts
      BY <1>2 DEF TypeInv, TypeOK
    <2> QED
      BY <1>2, <2>1, <2>2
  <1>4. /\ Tail(entries) \in Seq([who : Targets, ctx : Keys])
        /\ Len(Tail(entries)) = Len(entries) - 1
        /\ \A i \in 1..Len(Tail(entries)) : Tail(entries)[i] = entries[i + 1]
    BY <1>1, HeadTailProperties
  <1>5. DOMAIN Tail(entries) = 1..(Len(entries) - 1) /\ DOMAIN entries = 1..Len(entries)
        /\ Len(entries) \in Nat
    BY <1>1, <1>4
  <1> QED
    BY <1>2, <1>3, <1>4, <1>5

LEMMA SayTypes ==
    ASSUME TypeInv, entries # <<>>, pc # "done",
           NEW what \in {"green", "violations", "error"}, Say(what),
           UNCHANGED <<given, contexts, exit>>, faults' \in 0..MaxFaults
    PROVE  TypeInv'
  <1>1. \A i \in DOMAIN entries' : i + 1 \in DOMAIN entries /\ entries'[i] = entries[i + 1]
    BY NowTypes DEF Say
  <1>2. outcome' \in [Targets -> {"unchecked", "green", "violations", "error"}]
    BY DEF TypeInv, TypeOK, Say
  <1>3. TypeOK'
    BY <1>1, <1>2 DEF TypeInv, TypeOK, Say
  <1>4. ShapeInv'
    BY NowTypes DEF TypeInv, ShapeInv, Say, given
  <1> QED
    BY <1>3, <1>4 DEF TypeInv

LEMMA SettleTypes ==
    ASSUME TypeInv, AnchorRed \/ EntryFails \/ TemplatesFail \/ Classify PROVE TypeInv'
  <1>0. faults \in 0..MaxFaults /\ (pc \in {"templates", "classify"} => entries # <<>>)
    BY DEF TypeInv, TypeOK, ShapeInv
  <1>1. CASE AnchorRed
    BY <1>0, <1>1, SayTypes DEF AnchorRed
  <1>2. CASE EntryFails
    BY <1>0, <1>2, FaultTypes, SayTypes DEF EntryFails
  <1>3. CASE TemplatesFail
    BY <1>0, <1>3, SayTypes DEF TemplatesFail
  <1>4. CASE Classify
    BY <1>0, <1>4, SayTypes DEF Classify
  <1> QED
    BY <1>1, <1>2, <1>3, <1>4

LEMMA WorkTypes ==
    ASSUME TypeInv,
           InstantiateAndWalk
           \/ (\E i \in DOMAIN ended, how \in {"ok", "failed"} : EvaluateSource(i, how))
    PROVE  TypeInv'
  <1>0. faults \in 0..MaxFaults /\ (pc \in {"templates", "classify"} => entries # <<>>)
    BY DEF TypeInv, TypeOK, ShapeInv
  <1>1. CASE InstantiateAndWalk
    BY <1>0, <1>1, MoveTypes DEF InstantiateAndWalk
  <1>2. ASSUME NEW i, NEW how, EvaluateSource(i, how) PROVE TypeInv'
    <2>1. faults' \in 0..MaxFaults
      BY <1>0, <1>2, FaultTypes DEF EvaluateSource
    <2> QED
      BY <1>0, <1>2, <2>1, MoveTypes DEF EvaluateSource
  <1> QED
    BY <1>1, <1>2

LEMMA DoneTypes == ASSUME TypeInv, TemplatesDone PROVE TypeInv'
  <1> DEFINE bundle == Bundle(Kept(Here.sources))
             here == [contexts[Now.ctx] EXCEPT !.templates = bundle]
  <1>1. entries # <<>> /\ faults \in 0..MaxFaults
    BY DEF TypeInv, TypeOK, ShapeInv, TemplatesDone
  <1>2. Now.ctx \in DOMAIN contexts
    BY <1>1, NowTypes
  <1>3. \A key \in DOMAIN contexts : contexts[key] =
            [sources |-> contexts[key].sources, anchor |-> contexts[key].anchor,
             templates |-> contexts[key].templates]
    BY DEF TypeInv, ShapeInv
  <1>4. contexts' = [contexts EXCEPT ![Now.ctx] = here]
    BY DEF TemplatesDone
  <1>5. here = [sources |-> contexts[Now.ctx].sources, anchor |-> contexts[Now.ctx].anchor,
                templates |-> bundle]
    BY <1>2, <1>3
  <1>6. DOMAIN contexts' = DOMAIN contexts
    BY <1>4
  <1>7. \A key \in DOMAIN contexts' : contexts'[key] = IF key = Now.ctx THEN here ELSE contexts[key]
    BY <1>4, <1>6
  <1>8. \A key \in DOMAIN contexts' : contexts'[key] =
            [sources |-> contexts'[key].sources, anchor |-> contexts'[key].anchor,
             templates |-> contexts'[key].templates]
    BY <1>3, <1>5, <1>6, <1>7
  <1>9. contexts' = [key \in DOMAIN contexts' |->
            [sources |-> contexts'[key].sources, anchor |-> contexts'[key].anchor,
             templates |-> contexts'[key].templates]]
    BY <1>4, <1>8
  <1>10. TypeOK'
    BY <1>6 DEF TypeInv, TypeOK, TemplatesDone
  <1>11. ShapeInv'
    BY <1>1, <1>9 DEF TypeInv, ShapeInv, TemplatesDone, given
  <1> QED
    BY <1>10, <1>11 DEF TypeInv

LEMMA EndTypes == ASSUME TypeInv, TimesOut \/ Finish PROVE TypeInv'
  <1>0. faults \in 0..MaxFaults
    BY DEF TypeInv, TypeOK
  <1>1. CASE TimesOut
    BY <1>1, FaultTypes, ExitTypes DEF TimesOut, Fails
  <1>2. CASE Finish
    BY <1>0, <1>2, ExitTypes DEF Finish
  <1> QED
    BY <1>1, <1>2

LEMMA StepTypes == TypeInv /\ [Next]_vars => TypeInv'
  <1> SUFFICES ASSUME TypeInv, [Next]_vars PROVE TypeInv'
    OBVIOUS
  <1>1. CASE Next
    BY <1>1, BeforeTypes, MakeTypes, RingtailTypes, SettleTypes, WorkTypes, DoneTypes, EndTypes
    DEF Next, Main
  <1>2. CASE UNCHANGED vars
    BY <1>2 DEF vars, TypeInv, TypeOK, ShapeInv
  <1> QED
    BY <1>1, <1>2

\* Types, for any trees, command lines and failures; every entry point that
\* is left has its context (main's entries and contexts).
THEOREM TypeCorrect == Spec => []TypeOK
  <1>1. TypeInv => TypeOK
    BY DEF TypeInv
  <1> QED
    BY <1>1, InitTypes, StepTypes, PTL DEF Spec

-----------------------------------------------------------------------------
(* What is told.                                                           *)

LEMMA GivenStays == [Next]_vars => UNCHANGED given
  <1> SUFFICES ASSUME [Next]_vars PROVE UNCHANGED given
    OBVIOUS
  <1>1. CASE AnchorFails \/ AnchorHolds \/ UnknownContainer \/ Known
             \/ Resolve \/ ResolveRetry \/ ResolveFails \/ CatalogueFails \/ CatalogueHolds
    BY <1>1 DEF AnchorFails, AnchorHolds, UnknownContainer, Known, Resolve, ResolveRetry,
                ResolveFails, CatalogueFails, CatalogueHolds, Fails, Proceed
  <1>2. CASE MakeContexts
    BY <1>2, Made
  <1>3. CASE FlakeAnchor \/ ProbeFails \/ FlakeUnanchored
    BY <1>3 DEF FlakeAnchor, ProbeFails, FlakeUnanchored, AddRingtail
  <1>4. CASE AnchorRed \/ InstantiateAndWalk \/ EntryFails
    BY <1>4 DEF AnchorRed, InstantiateAndWalk, EntryFails
  <1>5. CASE \E i \in DOMAIN ended, how \in {"ok", "failed"} : EvaluateSource(i, how)
    BY <1>5 DEF EvaluateSource
  <1>6. CASE TemplatesFail \/ TemplatesDone \/ Classify \/ TimesOut \/ Finish
    BY <1>6 DEF TemplatesFail, TemplatesDone, Classify, TimesOut, Finish, Fails
  <1>7. CASE UNCHANGED vars
    BY <1>7 DEF vars, given
  <1> QED
    BY <1>1, <1>2, <1>3, <1>4, <1>5, <1>6, <1>7 DEF Next, Main

\* The steps that touch neither entries, contexts nor outcomes.
Elsewhere ==
    \/ AnchorFails \/ AnchorHolds \/ UnknownContainer \/ Known
    \/ Resolve \/ ResolveRetry \/ ResolveFails \/ CatalogueFails \/ CatalogueHolds
    \/ InstantiateAndWalk \/ TimesOut \/ Finish
    \/ \E i \in DOMAIN ended, how \in {"ok", "failed"} : EvaluateSource(i, how)
Settle == AnchorRed \/ EntryFails \/ TemplatesFail \/ Classify
RingtailAdded == FlakeAnchor \/ ProbeFails \/ FlakeUnanchored

LEMMA Kinds == Next => Elsewhere \/ MakeContexts \/ RingtailAdded \/ Settle \/ TemplatesDone
  BY DEF Next, Main, Elsewhere, RingtailAdded, Settle

LEMMA ElsewhereStays ==
    ASSUME Elsewhere
    PROVE  /\ UNCHANGED <<entries, contexts, outcome>>
           /\ pc' \in {"entry", "flake"} => pc = pc'
           /\ pc' = "templates" => pc = pc' \/ (InstantiateAndWalk /\ ~Here.templates.set)
           /\ pc' = "classify" => InstantiateAndWalk /\ Here.templates.set
           /\ exit' = "0" => Finish \/ exit = "0"
  <1>1. CASE AnchorFails \/ AnchorHolds \/ UnknownContainer \/ Known
             \/ Resolve \/ ResolveRetry \/ ResolveFails \/ CatalogueFails \/ CatalogueHolds
    BY <1>1 DEF AnchorFails, AnchorHolds, UnknownContainer, Known, Resolve, ResolveRetry,
                ResolveFails, CatalogueFails, CatalogueHolds, Fails, Proceed, Exit
  <1>2. CASE InstantiateAndWalk
    BY <1>2 DEF InstantiateAndWalk
  <1>3. CASE TimesOut
    BY <1>3 DEF TimesOut, Fails, Exit
  <1>4. CASE Finish
    BY <1>4 DEF Finish, Exit
  <1>5. CASE \E i \in DOMAIN ended, how \in {"ok", "failed"} : EvaluateSource(i, how)
    BY <1>5 DEF EvaluateSource
  <1> QED
    BY <1>1, <1>2, <1>3, <1>4, <1>5 DEF Elsewhere

LEMMA SettleSays ==
    ASSUME TypeInv, Settle
    PROVE  /\ entries # <<>> /\ pc \in {"entry", "templates", "classify"}
           /\ entries' = Tail(entries) /\ pc' = "entry"
           /\ UNCHANGED <<contexts, exit>>
           /\ \E what \in {"green", "violations", "error"} :
                  outcome' = [outcome EXCEPT ![Now.who] = what]
  BY DEF Settle, AnchorRed, EntryFails, TemplatesFail, Classify, Say, TypeInv, ShapeInv

LEMMA GateInit == Init => GateInv
  BY DEF Init, GateInv

LEMMA GateStep == ASSUME TypeInv, GateInv, [Next]_vars PROVE GateInv'
  <1>0. UNCHANGED <<tree, argv>>
    BY GivenStays DEF given
  <1>1. CASE AnchorFails \/ UnknownContainer \/ CatalogueFails \/ ResolveFails \/ TimesOut \/ Finish
    BY <1>1 DEF GateInv, AnchorFails, UnknownContainer, CatalogueFails, ResolveFails, TimesOut,
                Finish, Fails, Exit
  <1>2. CASE AnchorHolds
    BY <1>0, <1>2 DEF GateInv, AnchorHolds, Proceed
  <1>3. CASE Known
    BY <1>0, <1>3 DEF GateInv, Known, Proceed
  <1>4. CASE Resolve \/ CatalogueHolds
    BY <1>0, <1>4 DEF GateInv, Resolve, CatalogueHolds, Proceed
  <1>5. CASE ResolveRetry
    BY <1>0, <1>5 DEF GateInv, ResolveRetry
  <1>6. CASE InstantiateAndWalk
    BY <1>0, <1>6 DEF GateInv, InstantiateAndWalk
  <1>7. CASE \E i \in DOMAIN ended, how \in {"ok", "failed"} : EvaluateSource(i, how)
    BY <1>0, <1>7 DEF GateInv, EvaluateSource
  <1>8. CASE MakeContexts
    BY <1>0, <1>8, Made DEF GateInv
  <1>9. CASE RingtailAdded
    BY <1>0, <1>9 DEF GateInv, RingtailAdded, FlakeAnchor, ProbeFails, FlakeUnanchored, AddRingtail
  <1>10. CASE Settle
    BY <1>0, <1>10, SettleSays DEF GateInv
  <1>11. CASE TemplatesDone
    BY <1>0, <1>11 DEF GateInv, TemplatesDone
  <1>12. CASE UNCHANGED vars
    BY <1>12 DEF GateInv, vars
  <1> QED
    BY <1>1, <1>2, <1>3, <1>4, <1>5, <1>6, <1>7, <1>8, <1>9, <1>10, <1>11, <1>12, Kinds
    DEF Elsewhere

LEMMA AskedIsSelected ==
    ASSUME argv \in Argvs, argv.containers \subseteq Containers
    PROVE  Asked = Selected
  <1>1. argv.ringtail \in {"unset", "yes", "no"}
    BY ArgvsAssumption
  <1>2. CASE argv.ringtail = "unset"
    BY <1>2, NamesAssumption DEF Asked, Selected, Targets
  <1>3. CASE argv.ringtail = "yes"
    BY <1>3, NamesAssumption DEF Asked, Selected, Targets
  <1>4. CASE argv.ringtail = "no"
    BY <1>4, NamesAssumption DEF Asked, Selected, Targets
  <1> QED
    BY <1>1, <1>2, <1>3, <1>4

ToldNow == \A e \in Asked : Left(e) \/ (pc = "flake" /\ e = Ringtail)

LEMMA ToldMake == ASSUME TypeInv, GateInv, ToldInv, MakeContexts PROVE ToldInv'
  <1>1. UNCHANGED <<tree, argv>> /\ pc = "contexts" /\ exit' = exit /\ exit = "none"
    BY Made DEF given, TypeInv, TypeOK
  <1>2. Asked = Selected
    BY <1>1, AskedIsSelected DEF GateInv, TypeInv, ShapeInv
  <1>3. Asked' = Asked
    BY <1>1 DEF Asked
  <1>4. ASSUME NEW e \in Asked PROVE Left(e)' \/ (pc' = "flake" /\ e = Ringtail)
    <2>1. CASE e = Ringtail
      BY <1>2, <2>1, Made
    <2>2. CASE e # Ringtail /\ tree.pin[e] # Odd
      <3>1. e \in PinnedNow
        BY <1>2, <2>2 DEF PinnedNow, Chosen, Asked, Targets
      <3>2. PICK i \in 1..Cardinality(PinnedNow) : Order(PinnedNow)[i] = e
        BY <3>1, NamesInOrder
      <3>3. i \in DOMAIN entries' /\ entries'[i].who = e
        BY <3>2, Made DEF Entry
      <3> QED
        BY <3>3 DEF Left
    <2>3. CASE e # Ringtail /\ tree.pin[e] = Odd
      <3>1. e \in Chosen \ PinnedNow /\ e \in Targets
        BY <1>2, <2>3 DEF PinnedNow, Chosen, Asked, Targets
      <3>2. outcome'[e] = "violations"
        BY <3>1, Made
      <3> QED
        BY <3>2 DEF Left
    <2> QED
      BY <2>1, <2>2, <2>3
  <1> QED
    BY <1>1, <1>3, <1>4 DEF ToldInv

LEMMA ToldRingtail == ASSUME TypeInv, ToldInv, RingtailAdded PROVE ToldInv'
  <1>1. /\ pc = "flake" /\ pc' = "entry" /\ UNCHANGED <<tree, argv, outcome, exit>>
        /\ entries' = Append(entries, Entry(Ringtail, Ringtail))
    BY DEF RingtailAdded, FlakeAnchor, ProbeFails, FlakeUnanchored, AddRingtail, given
  <1>2. entries \in Seq([who : Targets, ctx : Keys]) /\ exit = "none"
    BY <1>1 DEF TypeInv, TypeOK, ShapeInv
  <1>3. /\ \A i \in DOMAIN entries : i \in DOMAIN entries' /\ entries'[i] = entries[i]
        /\ \E i \in DOMAIN entries' : entries'[i] = Entry(Ringtail, Ringtail)
    <2>1. Len(entries) + 1 \in DOMAIN entries'
          /\ entries'[Len(entries) + 1] = Entry(Ringtail, Ringtail)
      BY <1>1, <1>2
    <2> QED
      BY <1>1, <1>2, <2>1
  <1>4. Asked' = Asked
    BY <1>1 DEF Asked
  <1>5. \A e \in Asked : Left(e) => Left(e)'
    BY <1>1, <1>3 DEF Left
  <1>6. Left(Ringtail)'
    BY <1>3 DEF Left, Entry
  <1> QED
    BY <1>1, <1>2, <1>4, <1>5, <1>6 DEF ToldInv

LEMMA ToldSettle == ASSUME TypeInv, ToldInv, Settle PROVE ToldInv'
  <1>1. UNCHANGED <<tree, argv>>
    BY GivenStays, Kinds DEF Settle, Next, Main, given
  <1>2. exit = "none" /\ exit' = "none"
    BY SettleSays DEF TypeInv, TypeOK
  <1>3. Asked' = Asked
    BY <1>1 DEF Asked
  <1>4. ASSUME NEW e \in Asked PROVE Left(e)'
    <2>1. Left(e) /\ e \in Targets
      BY SettleSays DEF ToldInv, Asked
    <2>2. PICK what \in {"green", "violations", "error"} :
              outcome' = [outcome EXCEPT ![Now.who] = what]
      BY SettleSays
    <2>3. CASE e = Now.who \/ outcome[e] # "unchecked"
      BY <2>1, <2>2, <2>3 DEF Left, TypeInv, TypeOK
    <2>4. ASSUME NEW i \in DOMAIN entries, entries[i].who = e, e # Now.who PROVE Left(e)'
      <3>1. i # 1 /\ i - 1 \in DOMAIN entries' /\ entries'[i - 1] = entries[(i - 1) + 1]
        BY <2>4, SettleSays, NowTypes
      <3>2. i \in Nat
        BY DEF TypeInv, ShapeInv
      <3>3. entries'[i - 1].who = e
        BY <2>4, <3>1, <3>2
      <3> QED
        BY <3>1, <3>3 DEF Left
    <2> QED
      BY <2>1, <2>3, <2>4 DEF Left
  <1> QED
    BY <1>2, <1>3, <1>4 DEF ToldInv

LEMMA ToldElsewhere == ASSUME TypeInv, ToldInv, Elsewhere PROVE ToldInv'
  <1>1. UNCHANGED <<tree, argv>>
    BY GivenStays DEF Elsewhere, Next, Main, given
  <1>2. Asked' = Asked /\ \A e : Left(e)' = Left(e)
    BY <1>1, ElsewhereStays DEF Asked, Left
  <1>3. pc' \in {"flake", "entry", "templates", "classify"} =>
            pc \in {"flake", "entry", "templates"} /\ (pc = "flake" => pc' = "flake")
    BY ElsewhereStays DEF InstantiateAndWalk
  <1>4. ASSUME Finish, exit' = "0" PROVE \A e \in Asked : outcome[e] = "green"
    <2>1. pc = "entry" /\ entries = <<>>
      BY <1>4 DEF Finish
    <2>2. \A e \in Targets : outcome[e] \notin {"violations", "error"}
      BY <1>4 DEF Finish, Exit
    <2>3. \A e \in Asked : e \in Targets /\ outcome[e] # "unchecked"
      BY <2>1 DEF ToldInv, Left, Asked
    <2> QED
      BY <2>2, <2>3 DEF TypeInv, TypeOK
  <1>5. exit' = "0" => \A e \in Asked : outcome[e] = "green"
    BY <1>4, ElsewhereStays DEF ToldInv
  <1>6. UNCHANGED outcome
    BY ElsewhereStays
  <1> QED
    BY <1>2, <1>3, <1>5, <1>6 DEF ToldInv

LEMMA ToldDone == ASSUME TypeInv, ToldInv, TemplatesDone PROVE ToldInv'
  <1>1. UNCHANGED <<tree, argv, entries, outcome, exit>> /\ pc = "templates" /\ pc' = "classify"
    BY DEF TemplatesDone, given
  <1>2. Asked' = Asked /\ \A e : Left(e)' = Left(e)
    BY <1>1 DEF Asked, Left
  <1> QED
    BY <1>1, <1>2 DEF ToldInv

LEMMA ToldInit == ASSUME Init PROVE ToldInv
  BY DEF Init, ToldInv

LEMMA ToldStep == ASSUME TypeInv, GateInv, ToldInv, [Next]_vars PROVE ToldInv'
  <1>1. CASE Next
    BY <1>1, Kinds, ToldMake, ToldRingtail, ToldSettle, ToldElsewhere, ToldDone
  <1>2. CASE UNCHANGED vars
    BY <1>2 DEF vars, ToldInv, Asked, Left
  <1> QED
    BY <1>1, <1>2

ReportInv == TypeInv /\ GateInv /\ ToldInv

LEMMA ReportInvariant == Spec => []ReportInv
  <1>1. Init => ReportInv
    BY InitTypes, GateInit, ToldInit DEF ReportInv
  <1>2. ReportInv /\ [Next]_vars => ReportInv'
    BY StepTypes, GateStep, ToldStep DEF ReportInv
  <1> QED
    BY <1>1, <1>2, PTL DEF Spec

\* A run that gets to its end has told of everything that was asked for:
\* whatever fails, main goes on to the next entry point.
THEOREM EverythingTold == Spec => []AllTold
  <1>1. ReportInv => AllTold
    <2> SUFFICES ASSUME ToldInv, pc = "entry", entries = <<>>, NEW e \in Asked
                 PROVE  outcome[e] # "unchecked"
      BY DEF ReportInv, AllTold
    <2>1. Left(e)
      BY DEF ToldInv
    <2> QED
      BY <2>1 DEF Left
  <1> QED
    BY <1>1, ReportInvariant, PTL

-----------------------------------------------------------------------------
(* Whose sources a context has.                                            *)

\* The starts of their hashes tell two pins apart.
PrefixesDiffer == \A p, q \in Pins : Prefix[p] = Prefix[q] => p = q

LEMMA KeyTellsPin ==
    ASSUME PrefixesDiffer, tree \in Trees, NEW c \in Containers, NEW d \in Containers,
           tree.pin[c] # Odd, tree.pin[d] # Odd, Key(c) = Key(d)
    PROVE  SourcePin(c) = SourcePin(d)
  <1>1. /\ tree.pin[c] \in Pins \union {Shared} /\ tree.pin[d] \in Pins \union {Shared}
    BY TreesAssumption
  <1> QED
    BY <1>1, PinsAssumption, NamesAssumption DEF PrefixesDiffer, Key, SourcePin

\* The containers are pinned ones, and only ringtail has ringtail's context.
LEMMA KeysOfPinned ==
    ASSUME tree \in Trees, NEW e \in Pinned
    PROVE  IF e = Ringtail THEN KeyFor(e) = Ringtail
           ELSE e \in Containers /\ tree.pin[e] # Odd /\ KeyFor(e) = Key(e) /\ Key(e) # Ringtail
  BY KeyTypes DEF Pinned, KeyFor, Targets

LEMMA ContextsMake ==
    ASSUME PrefixesDiffer, TypeInv, MakeContexts PROVE ContextsInv' /\ EntriesInv'
  <1>1. UNCHANGED <<tree, argv>> /\ tree \in Trees
    BY Made DEF given, TypeInv, ShapeInv
  <1>2. /\ Pinned' = Pinned /\ \A e : KeyFor(e)' = KeyFor(e) /\ OwnSources(e)' = OwnSources(e)
    BY <1>1 DEF Pinned, KeyFor, Key, OwnSources, SourcePin, FlakeSources, Own, InputSource, Primary
  <1>3. \A c \in PinnedNow : c \in Containers /\ tree.pin[c] # Odd /\ Key(c) # Ringtail
                             /\ c \in Pinned /\ KeyFor(c) = Key(c)
    BY <1>1, KeyTypes, NamesAssumption DEF PinnedNow, Chosen, Pinned, Targets, KeyFor
  <1>4. DOMAIN contexts' = {Key(c) : c \in PinnedNow}
    BY Made
  <1>5. \A key \in DOMAIN contexts' : contexts'[key] =
            Context(<<Source(SourcePin(FirstOf(key, PinnedNow)), Native, NoId)>>, {})
    BY Made
  <1>6. ASSUME NEW e \in Pinned, KeyFor(e) \in DOMAIN contexts'
        PROVE  /\ e # Ringtail /\ contexts'[KeyFor(e)] = Context(OwnSources(e), {})
    <2>1. PICK c \in PinnedNow : Key(c) = KeyFor(e)
      BY <1>4, <1>6
    <2>2. e # Ringtail /\ e \in Containers /\ tree.pin[e] # Odd /\ KeyFor(e) = Key(e)
      BY <1>1, <1>3, <2>1, KeysOfPinned
    <2> DEFINE f == FirstOf(Key(e), PinnedNow)
    <2>3. f \in PinnedNow /\ Key(f) = Key(e)
      BY <2>1, <2>2 DEF FirstOf
    <2>4. SourcePin(f) = SourcePin(e)
      BY <1>1, <1>3, <2>2, <2>3, KeyTellsPin
    <2> QED
      BY <1>5, <1>6, <2>2, <2>4 DEF OwnSources
  <1>7. ContextsInv'
    <2>1. \A key \in DOMAIN contexts' : ~contexts'[key].templates.set
      BY <1>5 DEF Context, Unset
    <2>2. Ringtail \notin DOMAIN contexts'
      BY <1>3, <1>4
    <2> QED
      BY <1>2, <1>6, <2>1, <2>2 DEF ContextsInv, Context
  <1>8. EntriesInv'
    <2>1. DOMAIN entries' = 1..Cardinality(PinnedNow)
          /\ \A i \in 1..Cardinality(PinnedNow) : Order(PinnedNow)[i] \in PinnedNow
               /\ entries'[i] = Entry(Order(PinnedNow)[i], Key(Order(PinnedNow)[i]))
      BY Made, NamesInOrder
    <2>2. pc' \notin {"templates", "classify"}
      BY Made
    <2> QED
      BY <1>2, <1>3, <2>1, <2>2 DEF EntriesInv, Entry
  <1> QED
    BY <1>7, <1>8

LEMMA ContextsRingtail ==
    ASSUME TypeInv, ContextsInv, EntriesInv, RingtailAdded PROVE ContextsInv' /\ EntriesInv'
  <1>1. PICK sources, anchor : AddRingtail(sources, anchor)
            /\ IF tree.inputs # <<>>
               THEN \/ sources = FlakeSources(TRUE) /\ anchor = Untrusted
                    \/ "probe" \in anchor
               ELSE sources = Own /\ anchor = {}
    BY DEF RingtailAdded, FlakeAnchor, ProbeFails, FlakeUnanchored
  <1>2. UNCHANGED <<tree, argv>> /\ tree \in Trees
    BY <1>1 DEF AddRingtail, given, TypeInv, ShapeInv
  <1>3. /\ Pinned' = Pinned /\ Untrusted' = Untrusted
        /\ \A e : KeyFor(e)' = KeyFor(e) /\ OwnSources(e)' = OwnSources(e)
    BY <1>2 DEF Pinned, KeyFor, Key, OwnSources, SourcePin, FlakeSources, Own, InputSource,
                Primary, Untrusted
  <1>4. DOMAIN contexts' = DOMAIN contexts \union {Ringtail}
        /\ contexts'[Ringtail] = Context(WithMultilib(sources), anchor)
        /\ \A key \in DOMAIN contexts : key # Ringtail => contexts'[key] = contexts[key]
    BY <1>1 DEF AddRingtail
  <1>5. \A e \in Pinned : KeyFor(e) = Ringtail <=> e = Ringtail
    BY <1>2, KeysOfPinned
  <1>6. anchor = {} => WithMultilib(sources) = OwnSources(Ringtail)
    <2>1. tree.inputs = <<>> => FlakeSources(TRUE) = Own
      BY DEF FlakeSources, Own
    <2> QED
      BY <1>1, <2>1 DEF OwnSources
  <1>7. ContextsInv'
    <2>1. \A key \in DOMAIN contexts' : contexts'[key].templates.set =>
              contexts'[key].templates.of = Kept(contexts'[key].sources)
      BY <1>4 DEF ContextsInv, Context, Unset
    <2>2. ASSUME NEW e \in Pinned, KeyFor(e) \in DOMAIN contexts'
          PROVE  /\ contexts'[KeyFor(e)].anchor = {} => contexts'[KeyFor(e)].sources = OwnSources(e)
                 /\ e # Ringtail => contexts'[KeyFor(e)].anchor = {}
      <3>1. CASE e = Ringtail
        BY <1>4, <1>5, <1>6, <3>1 DEF Context
      <3>2. CASE e # Ringtail
        BY <1>4, <1>5, <2>2, <3>2 DEF ContextsInv
      <3> QED
        BY <3>1, <3>2
    <2>3. contexts'[Ringtail].anchor = anchor
      BY <1>4 DEF Context
    <2>4. tree.inputs' = tree.inputs
      BY <1>2
    <2> QED
      BY <1>1, <1>3, <2>1, <2>2, <2>3, <2>4 DEF ContextsInv
  <1>8. EntriesInv'
    <2>1. entries' = Append(entries, Entry(Ringtail, Ringtail)) /\ pc' = "entry"
      BY <1>1 DEF AddRingtail
    <2>2. entries \in Seq([who : Targets, ctx : Keys])
      BY DEF TypeInv, ShapeInv
    <2>3. \A i \in DOMAIN entries' : entries'[i] = Entry(Ringtail, Ringtail)
              \/ (i \in DOMAIN entries /\ entries'[i] = entries[i])
      BY <2>1, <2>2
    <2>4. Ringtail \in Pinned /\ KeyFor(Ringtail) = Ringtail
      BY DEF Pinned, Targets, KeyFor
    <2> QED
      BY <1>3, <2>1, <2>3, <2>4 DEF EntriesInv, Entry
  <1> QED
    BY <1>7, <1>8

LEMMA ContextsSettle ==
    ASSUME TypeInv, ContextsInv, EntriesInv, Settle PROVE ContextsInv' /\ EntriesInv'
  <1>1. UNCHANGED <<tree, argv, contexts>>
    BY SettleSays, GivenStays, Kinds DEF Settle, Next, Main, given
  <1>2. ContextsInv'
    BY <1>1 DEF ContextsInv, Pinned, KeyFor, Key, OwnSources, SourcePin, FlakeSources, Own,
                InputSource, Primary, Untrusted
  <1>3. Pinned' = Pinned /\ \A e : KeyFor(e)' = KeyFor(e)
    BY <1>1 DEF Pinned, KeyFor, Key
  <1>4. \A i \in DOMAIN entries' : i + 1 \in DOMAIN entries /\ entries'[i] = entries[i + 1]
    BY SettleSays, NowTypes
  <1>5. pc' = "entry"
    BY SettleSays
  <1> QED
    BY <1>2, <1>3, <1>4, <1>5 DEF EntriesInv

LEMMA ContextsElsewhere ==
    ASSUME TypeInv, ContextsInv, EntriesInv, Elsewhere PROVE ContextsInv' /\ EntriesInv'
  <1>1. UNCHANGED <<tree, argv, contexts, entries>>
    BY ElsewhereStays, GivenStays DEF Elsewhere, Next, Main, given
  <1>2. ContextsInv'
    BY <1>1 DEF ContextsInv, Pinned, KeyFor, Key, OwnSources, SourcePin, FlakeSources, Own,
                InputSource, Primary, Untrusted
  <1>3. Pinned' = Pinned /\ (\A e : KeyFor(e)' = KeyFor(e)) /\ Here' = Here
    BY <1>1 DEF Pinned, KeyFor, Key, Here, Now
  <1>4. InstantiateAndWalk => entries # <<>> /\ Here.anchor = {}
    BY DEF InstantiateAndWalk
  <1>5. pc' \in {"templates", "classify"} => InstantiateAndWalk \/ pc = "templates"
    BY ElsewhereStays
  <1>6. pc' = "classify" => Here.templates.set
    BY ElsewhereStays
  <1> QED
    BY <1>1, <1>2, <1>3, <1>4, <1>5, <1>6 DEF EntriesInv

LEMMA ContextsDone ==
    ASSUME TypeInv, ContextsInv, EntriesInv, TemplatesDone PROVE ContextsInv' /\ EntriesInv'
  <1> DEFINE here == [sources |-> Here.sources, anchor |-> Here.anchor,
                      templates |-> Bundle(Kept(Here.sources))]
  <1>1. UNCHANGED <<tree, argv, entries>> /\ pc = "templates" /\ pc' = "classify"
        /\ entries # <<>> /\ Here.anchor = {}
    BY DEF TemplatesDone, given, EntriesInv
  <1>2. Now.ctx \in DOMAIN contexts
    BY <1>1, NowTypes
  <1>3. contexts[Now.ctx] = [sources |-> Here.sources, anchor |-> Here.anchor,
                             templates |-> Here.templates]
    BY <1>2 DEF TypeInv, ShapeInv, Here
  <1>4. [contexts[Now.ctx] EXCEPT !.templates = Bundle(Kept(Here.sources))] = here
    BY <1>3
  <1>5. contexts' = [contexts EXCEPT ![Now.ctx] = here]
    BY <1>4 DEF TemplatesDone
  <1>6. DOMAIN contexts' = DOMAIN contexts /\ contexts'[Now.ctx] = here
        /\ \A key \in DOMAIN contexts : key # Now.ctx => contexts'[key] = contexts[key]
    BY <1>2, <1>5
  <1>7. \A key \in DOMAIN contexts : contexts'[key].sources = contexts[key].sources
                                    /\ contexts'[key].anchor = contexts[key].anchor
    BY <1>6 DEF Here
  <1>8. /\ Pinned' = Pinned /\ Untrusted' = Untrusted /\ tree.inputs' = tree.inputs
        /\ \A e : KeyFor(e)' = KeyFor(e) /\ OwnSources(e)' = OwnSources(e)
    BY <1>1 DEF Pinned, KeyFor, Key, OwnSources, SourcePin, FlakeSources, Own, InputSource,
                Primary, Untrusted
  <1>9. \A key \in DOMAIN contexts' : contexts'[key].templates.set =>
            contexts'[key].templates.of = Kept(contexts'[key].sources)
    <2>1. here.templates.of = Kept(here.sources)
      BY DEF Bundle
    <2> QED
      BY <1>6, <2>1 DEF ContextsInv
  <1>10. ContextsInv'
    BY <1>6, <1>7, <1>8, <1>9 DEF ContextsInv
  <1>11. Here' = here /\ here.templates.set
    BY <1>1, <1>6 DEF Here, Now, Bundle
  <1>12. EntriesInv'
    BY <1>1, <1>8, <1>11 DEF EntriesInv
  <1> QED
    BY <1>10, <1>12

LEMMA ContextsInit == ASSUME Init PROVE ContextsInv /\ EntriesInv
  BY DEF Init, ContextsInv, EntriesInv

LEMMA ContextsStep ==
    ASSUME PrefixesDiffer, TypeInv, ContextsInv, EntriesInv, [Next]_vars
    PROVE  ContextsInv' /\ EntriesInv'
  <1>1. CASE Next
    BY <1>1, Kinds, ContextsMake, ContextsRingtail, ContextsSettle, ContextsElsewhere, ContextsDone
  <1>2. CASE UNCHANGED vars
    BY <1>2 DEF vars, ContextsInv, EntriesInv, Pinned, KeyFor, Key, OwnSources, SourcePin,
                FlakeSources, Own, InputSource, Primary, Untrusted, Here, Now
  <1> QED
    BY <1>1, <1>2

-----------------------------------------------------------------------------
(* The templates of an entry point.                                        *)

LEMMA LeastIsThere ==
    ASSUME NEW T \in SUBSET Nat, T # {}
    PROVE  \E m \in T : \A k \in T : ~(k < m)
  <1>1. PICK m \in T : \A k \in T : ~(<<k, m>> \in OpToRel(<, Nat))
    BY NatLessThanWellFounded, WFMin
  <1>2. \A k \in T : <<k, m>> \in OpToRel(<, Nat) <=> k < m
    BY DEF OpToRel
  <1> QED
    BY <1>1, <1>2

\* Neither the skipped repeats nor the merge lose the templates of a source,
\* but to a source with the same builder, if sources that are told by the same
\* id have the same pin.
LEMMA NoneIsLost ==
    ASSUME NEW n \in Nat, NEW sources, DOMAIN sources = 1..n,
           \A i, j \in 1..n : sources[i].id = sources[j].id /\ sources[i].id # NoId
                => sources[i].pin = sources[j].pin,
           NEW k \in 1..n
    PROVE  \E t \in Kept(sources) :
              Shell[t.pin] = Shell[sources[k].pin] /\ t.system = sources[k].system
  <1> DEFINE Same == {i \in 1..n : SameKey(sources[i], sources[k])}
  <1>0. Same \in SUBSET Nat /\ k \in Same
    BY DEF SameKey
  <1>1. PICK m \in Same : \A i \in Same : ~(i < m)
    <2> HIDE DEF Same
    <2> QED
      BY <1>0, LeastIsThere
  <1>2. \A i \in 1..n : SameKey(sources[i], sources[m]) => ~(i < m)
    BY <1>1 DEF SameKey
  <1>3. ~Repeat(sources, m)
    <2> SUFFICES ASSUME sources[m].id # NoId, NEW j \in 1..(m - 1),
                        sources[j].id = sources[m].id, sources[j].system = sources[m].system
                 PROVE  FALSE
      BY DEF Repeat
    <2>1. m \in 1..n /\ j \in 1..n /\ j < m
      BY <1>1
    <2>2. SameKey(sources[j], sources[m])
      BY <2>1 DEF SameKey
    <2> QED
      BY <1>2, <2>1, <2>2
  <1>4. m \in Evaluated(sources)
    BY <1>1, <1>3 DEF Evaluated
  <1>5. \A i \in Evaluated(sources) : i < m => ~SameKey(sources[i], sources[m])
    BY <1>2 DEF Evaluated
  <1>6. TemplateOf(sources[m]) \in Kept(sources)
    BY <1>4, <1>5 DEF Kept
  <1> QED
    BY <1>1, <1>6 DEF TemplateOf, SameKey

LEMMA NoneIsNew ==
    ASSUME NEW sources, NEW t \in Kept(sources)
    PROVE  \E i \in DOMAIN sources : t.pin = sources[i].pin /\ t.system = sources[i].system
  BY DEF Kept, Evaluated, TemplateOf

\* The sources of ringtail before they are doubled.
RingtailSources == FlakeSources(TRUE)
InputSources == [i \in DOMAIN tree.inputs |-> InputSource(i, TRUE)]
SizeOfRingtail == Len(tree.inputs) + 1

RingtailSource == [pin : OwnPins(Ringtail), system : {Native}, id : Pins \union {PrimaryId}]

LEMMA RingtailSourceTypes ==
    ASSUME NEW p \in OwnPins(Ringtail), NEW id \in Pins \union {PrimaryId}
    PROVE  Source(p, Native, id) \in RingtailSource
  BY DEF Source, RingtailSource

LEMMA RingtailSourcesAre ==
    ASSUME tree \in Trees
    PROVE  /\ SizeOfRingtail \in Nat /\ DOMAIN RingtailSources = 1..SizeOfRingtail
           /\ RingtailSources \in Seq(RingtailSource)
           /\ \A i \in 1..SizeOfRingtail : RingtailSources[i].pin =
                  IF RingtailSources[i].id = PrimaryId THEN Primary ELSE RingtailSources[i].id
           /\ \A p \in OwnPins(Ringtail) : \E i \in 1..SizeOfRingtail : RingtailSources[i].pin = p
  <1>1. tree.inputs \in Seq(Inputs) /\ DOMAIN tree.inputs = 1..Len(tree.inputs)
        /\ Len(tree.inputs) \in Nat
    BY TreesAssumption
  <1>2. Primary \in OwnPins(Ringtail) /\ Primary \in Pins
        /\ OwnPins(Ringtail) = {tree.flake[name] : name \in tree.usable \union {NixpkgsInput}}
    BY InputsAssumption, TreesAssumption DEF OwnPins, Primary
  <1>3. Own \in Seq(RingtailSource) /\ Len(Own) = 1 /\ Own[1] = Source(Primary, Native, PrimaryId)
    BY <1>2 DEF Own, Source, RingtailSource
  <1>4. ASSUME NEW i \in DOMAIN tree.inputs
        PROVE  InputSources[i] = IF tree.inputs[i] \in tree.usable
                         THEN Source(tree.flake[tree.inputs[i]], Native, tree.flake[tree.inputs[i]])
                         ELSE Source(Primary, Native, PrimaryId)
    BY DEF InputSource, InputSources
  <1>5. \A i \in DOMAIN tree.inputs : tree.flake[tree.inputs[i]] \in Pins
    BY TreesAssumption
  <1>6. \A i \in DOMAIN tree.inputs : InputSources[i] \in RingtailSource
    <2> TAKE i \in DOMAIN tree.inputs
    <2>1. CASE tree.inputs[i] \in tree.usable
      <3>1. tree.flake[tree.inputs[i]] \in OwnPins(Ringtail)
        BY <1>2, <2>1
      <3> QED
        BY <1>4, <1>5, <2>1, <3>1, RingtailSourceTypes
    <2>2. CASE tree.inputs[i] \notin tree.usable
      BY <1>2, <1>4, <2>2, RingtailSourceTypes
    <2> QED
      BY <2>1, <2>2
  <1>7. InputSources \in Seq(RingtailSource) /\ Len(InputSources) = Len(tree.inputs)
        /\ DOMAIN InputSources = 1..Len(tree.inputs)
    <2>1. InputSources \in [1..Len(tree.inputs) -> RingtailSource]
      BY <1>1, <1>6 DEF InputSources
    <2> QED
      BY <1>1, <2>1, ListIsSeq, LenProperties
  <1>8. RingtailSources = Own \o InputSources /\ SizeOfRingtail = Len(tree.inputs) + 1
    BY DEF RingtailSources, FlakeSources, SizeOfRingtail, InputSources
  <1>9. /\ Own \o InputSources \in Seq(RingtailSource)
        /\ Len(Own \o InputSources) = Len(tree.inputs) + 1
        /\ \A i \in 1..(Len(tree.inputs) + 1) :
              (Own \o InputSources)[i] = IF i <= 1 THEN Own[i] ELSE InputSources[i - 1]
    <2>1. Len(Own) + Len(InputSources) = Len(tree.inputs) + 1
      BY <1>1, <1>3, <1>7
    <2>2. /\ Own \o InputSources \in Seq(RingtailSource)
          /\ Len(Own \o InputSources) = Len(Own) + Len(InputSources)
          /\ \A i \in 1..(Len(Own) + Len(InputSources)) :
                (Own \o InputSources)[i] =
                    IF i <= Len(Own) THEN Own[i] ELSE InputSources[i - Len(Own)]
      BY <1>3, <1>7, ConcatProperties
    <2> QED
      BY <1>3, <2>1, <2>2
  <1>10. DOMAIN RingtailSources = 1..SizeOfRingtail /\ SizeOfRingtail \in Nat
    BY <1>1, <1>8, <1>9
  <1>11. \A i \in 1..SizeOfRingtail :
            \/ RingtailSources[i] = Source(Primary, Native, PrimaryId)
            \/ \E n \in DOMAIN tree.inputs : tree.inputs[n] \in tree.usable
                  /\ RingtailSources[i]
                       = Source(tree.flake[tree.inputs[n]], Native, tree.flake[tree.inputs[n]])
    <2> SUFFICES ASSUME NEW i \in 1..SizeOfRingtail
                 PROVE  \/ RingtailSources[i] = Source(Primary, Native, PrimaryId)
                        \/ \E n \in DOMAIN tree.inputs : tree.inputs[n] \in tree.usable
                             /\ RingtailSources[i]
                                    = Source(tree.flake[tree.inputs[n]], Native, tree.flake[tree.inputs[n]])
      OBVIOUS
    <2>1. CASE i = 1
      BY <1>3, <1>8, <1>9, <2>1
    <2>2. CASE i # 1
      <3>1. i - 1 \in DOMAIN tree.inputs /\ RingtailSources[i] = InputSources[i - 1]
        BY <1>1, <1>8, <1>9, <2>2
      <3> QED
        BY <1>4, <3>1
    <2> QED
      BY <2>1, <2>2
  <1>12. ASSUME NEW p \in OwnPins(Ringtail)
         PROVE  \E i \in 1..SizeOfRingtail : RingtailSources[i].pin = p
    <2>1. CASE p = Primary
      <3>1. 1 \in 1..SizeOfRingtail /\ RingtailSources[1] = Source(Primary, Native, PrimaryId)
        BY <1>1, <1>3, <1>8, <1>9
      <3> QED
        BY <2>1, <3>1 DEF Source
    <2>2. ASSUME NEW name \in tree.usable, p = tree.flake[name]
          PROVE  \E i \in 1..SizeOfRingtail : RingtailSources[i].pin = p
      <3>1. PICK i \in DOMAIN tree.inputs : tree.inputs[i] = name
        BY TreesAssumption
      <3>2. i + 1 \in 1..SizeOfRingtail /\ RingtailSources[i + 1] = InputSources[i]
        BY <1>1, <1>8, <1>9
      <3>3. InputSources[i] = Source(p, Native, p)
        BY <1>4, <2>2, <3>1
      <3> QED
        BY <3>2, <3>3 DEF Source
    <2> QED
      BY <1>2, <2>1, <2>2 DEF Primary
  <1> QED
    <2>1. \A i \in 1..SizeOfRingtail :
              RingtailSources[i].pin =
                  IF RingtailSources[i].id = PrimaryId THEN Primary ELSE RingtailSources[i].id
      <3> TAKE i \in 1..SizeOfRingtail
      <3>1. CASE RingtailSources[i] = Source(Primary, Native, PrimaryId)
        BY <3>1 DEF Source
      <3>2. ASSUME NEW n \in DOMAIN tree.inputs,
                   RingtailSources[i]
                     = Source(tree.flake[tree.inputs[n]], Native, tree.flake[tree.inputs[n]])
            PROVE  /\ RingtailSources[i].id = RingtailSources[i].pin
                   /\ RingtailSources[i].id # PrimaryId
        <4>1. tree.flake[tree.inputs[n]] # PrimaryId
          BY <1>5, PinsAssumption
        <4> QED
          BY <3>2, <4>1 DEF Source
      <3> QED
        BY <1>11, <3>1, <3>2
    <2> QED
      BY <1>8, <1>9, <1>10, <1>12, <2>1

\* What the templates of an entry point cover: its own pins, ringtail's for
\* both systems.
SystemsOf(e) == IF e = Ringtail THEN Systems ELSE {Native}

Doubled == WithMultilib(RingtailSources)
DoubleOf(i) == [RingtailSources[i] EXCEPT !.system = Multilib]
Doubles == [i \in DOMAIN RingtailSources |-> DoubleOf(i)]
AnySource == [pin : OwnPins(Ringtail), system : Systems, id : Pins \union {PrimaryId}]

LEMMA DoublesAre ==
    ASSUME NEW i, RingtailSources[i] \in RingtailSource
    PROVE  /\ RingtailSources[i] \in AnySource /\ DoubleOf(i) \in AnySource
           /\ RingtailSources[i].pin \in OwnPins(Ringtail) /\ RingtailSources[i].system = Native
           /\ DoubleOf(i).pin = RingtailSources[i].pin /\ DoubleOf(i).id = RingtailSources[i].id
           /\ DoubleOf(i).system = Multilib
  BY DEF RingtailSource, AnySource, DoubleOf, Systems

LEMMA DoubledSources ==
    ASSUME tree \in Trees, NEW n, n = SizeOfRingtail
    PROVE  /\ DOMAIN Doubled = 1..(n + n)
           /\ \A i \in 1..n : Doubled[i] = RingtailSources[i] /\ Doubled[n + i] = DoubleOf(i)
           /\ \A i \in 1..(n + n) : \E j \in 1..n :
                  Doubled[i] = RingtailSources[j] \/ Doubled[i] = DoubleOf(j)
  <1>1. n \in Nat /\ DOMAIN RingtailSources = 1..n
    BY RingtailSourcesAre
  <1>2. \A i \in 1..n : RingtailSources[i] \in RingtailSource
    BY <1>1, RingtailSourcesAre
  <1>3. RingtailSources \in Seq(AnySource) /\ Len(RingtailSources) = n
    <2>1. RingtailSources = [i \in 1..n |-> RingtailSources[i]]
      BY <1>1, RingtailSourcesAre
    <2>2. RingtailSources \in [1..n -> AnySource]
      BY <1>2, <2>1, DoublesAre
    <2> QED
      BY <1>1, <2>2, ListIsSeq, LenProperties
  <1>4. Doubles \in Seq(AnySource) /\ Len(Doubles) = n /\ \A i \in 1..n : Doubles[i] = DoubleOf(i)
    <2>1. Doubles \in [1..n -> AnySource]
      BY <1>1, <1>2, DoublesAre DEF Doubles
    <2> QED
      BY <1>1, <2>1, ListIsSeq, LenProperties DEF Doubles
  <1>5. Doubled = RingtailSources \o Doubles
    BY DEF Doubled, WithMultilib, Doubles, DoubleOf
  <1>6. /\ Doubled \in Seq(AnySource)
        /\ Len(Doubled) = Len(RingtailSources) + Len(Doubles)
        /\ \A i \in 1..(Len(RingtailSources) + Len(Doubles)) : Doubled[i] =
               IF i <= Len(RingtailSources) THEN RingtailSources[i]
               ELSE Doubles[i - Len(RingtailSources)]
    BY <1>3, <1>4, <1>5, ConcatProperties
  <1>7. DOMAIN Doubled = 1..(n + n)
    BY <1>3, <1>4, <1>6
  <1>8. \A i \in 1..(n + n) : Doubled[i] = IF i <= n THEN RingtailSources[i] ELSE Doubles[i - n]
    BY <1>3, <1>4, <1>6
  <1>9. \A i \in 1..n : /\ i \in 1..(n + n) /\ i <= n
                       /\ n + i \in 1..(n + n) /\ ~(n + i <= n) /\ (n + i) - n = i
    BY <1>1
  <1>10. \A i \in 1..(n + n) : IF i <= n THEN i \in 1..n ELSE i - n \in 1..n
    BY <1>1
  <1>11. \A i \in 1..n : Doubled[i] = RingtailSources[i] /\ Doubled[n + i] = DoubleOf(i)
    BY <1>4, <1>8, <1>9
  <1>12. \A i \in 1..(n + n) : \E j \in 1..n :
            Doubled[i] = RingtailSources[j] \/ Doubled[i] = DoubleOf(j)
    BY <1>4, <1>8, <1>10
  <1> QED
    BY <1>7, <1>11, <1>12

LEMMA OwnSourcesAre ==
    ASSUME tree \in Trees, GateInv, pc = "classify", NEW e \in Pinned
    PROVE  \E n \in Nat :
             /\ DOMAIN OwnSources(e) = 1..n
             /\ \A i \in 1..n : /\ OwnSources(e)[i].pin \in OwnPins(e) \intersect Pins
                               /\ OwnSources(e)[i].system \in SystemsOf(e)
             /\ \A i, j \in 1..n :
                   OwnSources(e)[i].id = OwnSources(e)[j].id /\ OwnSources(e)[i].id # NoId
                      => OwnSources(e)[i].pin = OwnSources(e)[j].pin
             /\ \A p \in OwnPins(e), s \in SystemsOf(e) : \E i \in 1..n :
                   OwnSources(e)[i].pin = p /\ OwnSources(e)[i].system = s
  <1>1. CASE e # Ringtail
    <2>1. OwnSources(e) = <<Source(SourcePin(e), Native, NoId)>> /\ OwnPins(e) = {SourcePin(e)}
          /\ SystemsOf(e) = {Native}
      BY <1>1 DEF OwnSources, OwnPins, SystemsOf
    <2>2. SourcePin(e) \in Pins
      BY <1>1, TreesAssumption, PinsAssumption DEF SourcePin, GateInv, Pinned, Targets
    <2>3. DOMAIN OwnSources(e) = 1..1 /\ OwnSources(e)[1] = Source(SourcePin(e), Native, NoId)
      BY <2>1
    <2>4. 1 \in Nat /\ \A i \in 1..1 : i = 1
      OBVIOUS
    <2> QED
      BY <2>1, <2>2, <2>3, <2>4 DEF Source
  <1>2. CASE e = Ringtail
    <2> DEFINE n == SizeOfRingtail
    <2>1. OwnSources(e) = Doubled /\ SystemsOf(e) = {Native, Multilib}
      BY <1>2 DEF OwnSources, RingtailSources, Doubled, SystemsOf, Systems
    <2>2. n \in Nat /\ n + n \in Nat
      BY RingtailSourcesAre
    <2>3. \A i \in 1..n : RingtailSources[i] \in RingtailSource
      BY RingtailSourcesAre
    <2>4. \A i \in 1..n : /\ DoubleOf(i).pin = RingtailSources[i].pin
                         /\ DoubleOf(i).id = RingtailSources[i].id
                         /\ DoubleOf(i).system = Multilib
      BY <2>3, DoublesAre
    <2>5. OwnPins(e) \subseteq Pins
      BY <1>2, InputsAssumption, TreesAssumption DEF OwnPins, Primary
    <2>6. \A i \in 1..n : RingtailSources[i].pin \in OwnPins(e) /\ RingtailSources[i].system = Native
      BY <1>2, <2>3, DoublesAre
    <2>7. \A i, j \in 1..n : RingtailSources[i].id = RingtailSources[j].id
              => RingtailSources[i].pin = RingtailSources[j].pin
      BY RingtailSourcesAre
    <2> HIDE DEF n
    <2>8. \A i \in 1..(n + n) : \E j \in 1..n :
              /\ OwnSources(e)[i].pin = RingtailSources[j].pin
              /\ OwnSources(e)[i].id = RingtailSources[j].id
              /\ OwnSources(e)[i].system \in {Native, Multilib}
      BY <2>1, <2>4, <2>6, DoubledSources DEF n
    <2>9. DOMAIN OwnSources(e) = 1..(n + n)
      BY <2>1, DoubledSources DEF n
    <2>10. \A i \in 1..(n + n) : /\ OwnSources(e)[i].pin \in OwnPins(e) \intersect Pins
                                 /\ OwnSources(e)[i].system \in SystemsOf(e)
      BY <2>1, <2>5, <2>6, <2>8
    <2>11. \A i, j \in 1..(n + n) : OwnSources(e)[i].id = OwnSources(e)[j].id
              => OwnSources(e)[i].pin = OwnSources(e)[j].pin
      <3> TAKE i, j \in 1..(n + n)
      <3>1. PICK k \in 1..n : /\ OwnSources(e)[i].pin = RingtailSources[k].pin
                              /\ OwnSources(e)[i].id = RingtailSources[k].id
        BY <2>8
      <3>2. PICK m \in 1..n : /\ OwnSources(e)[j].pin = RingtailSources[m].pin
                              /\ OwnSources(e)[j].id = RingtailSources[m].id
        BY <2>8
      <3> QED
        BY <2>7, <3>1, <3>2
    <2>12. ASSUME NEW p \in OwnPins(e), NEW s \in SystemsOf(e)
           PROVE  \E i \in 1..(n + n) : OwnSources(e)[i].pin = p /\ OwnSources(e)[i].system = s
      <3>1. PICK i \in 1..n : RingtailSources[i].pin = p
        BY <1>2, RingtailSourcesAre DEF n
      <3>2. i \in 1..(n + n) /\ n + i \in 1..(n + n)
        BY <2>2
      <3>3. CASE s = Native
        <4>1. OwnSources(e)[i] = RingtailSources[i]
          BY <2>1, DoubledSources DEF n
        <4> QED
          BY <2>6, <3>1, <3>2, <3>3, <4>1
      <3>4. CASE s = Multilib
        <4>1. OwnSources(e)[n + i] = DoubleOf(i)
          BY <2>1, DoubledSources DEF n
        <4> QED
          BY <2>4, <3>1, <3>2, <3>4, <4>1
      <3> QED
        BY <2>1, <3>3, <3>4
    <2> QED
      <3>1. \A p \in OwnPins(e), s \in SystemsOf(e) : \E i \in 1..(n + n) :
                OwnSources(e)[i].pin = p /\ OwnSources(e)[i].system = s
        BY <2>12
      <3>2. \A i, j \in 1..(n + n) :
                OwnSources(e)[i].id = OwnSources(e)[j].id /\ OwnSources(e)[i].id # NoId
                   => OwnSources(e)[i].pin = OwnSources(e)[j].pin
        BY <2>11
      <3> DEFINE k == n + n
      <3> k \in Nat
        BY <2>2
      <3> HIDE DEF k
      <3> WITNESS k \in Nat
      <3> QED
        BY <2>9, <2>10, <3>1, <3>2 DEF k
  <1> QED
    BY <1>1, <1>2

LEMMA KeptAreOwn ==
    ASSUME tree \in Trees, GateInv, pc = "classify", NEW e \in Pinned, NEW t \in Kept(OwnSources(e))
    PROVE  t.pin \in OwnPins(e) /\ t.system \in SystemsOf(e)
  <1>1. PICK i \in DOMAIN OwnSources(e) :
            t.pin = OwnSources(e)[i].pin /\ t.system = OwnSources(e)[i].system
    BY NoneIsNew
  <1> QED
    BY <1>1, OwnSourcesAre

LEMMA OwnAreKept ==
    ASSUME tree \in Trees, GateInv, pc = "classify", NEW e \in Pinned,
           NEW p \in OwnPins(e), NEW s \in SystemsOf(e)
    PROVE  \E t \in Kept(OwnSources(e)) :
              t.pin \in OwnPins(e) /\ Shell[t.pin] = Shell[p] /\ t.system = s
  <1>1. PICK n \in Nat :
             /\ DOMAIN OwnSources(e) = 1..n
             /\ \A i, j \in 1..n :
                   OwnSources(e)[i].id = OwnSources(e)[j].id /\ OwnSources(e)[i].id # NoId
                      => OwnSources(e)[i].pin = OwnSources(e)[j].pin
             /\ \E i \in 1..n : OwnSources(e)[i].pin = p /\ OwnSources(e)[i].system = s
    BY OwnSourcesAre
  <1>2. PICK i \in 1..n : OwnSources(e)[i].pin = p /\ OwnSources(e)[i].system = s
    BY <1>1
  <1>3. \E t \in Kept(OwnSources(e)) :
            Shell[t.pin] = Shell[OwnSources(e)[i].pin] /\ t.system = OwnSources(e)[i].system
    BY <1>1, NoneIsLost
  <1> QED
    BY <1>2, <1>3, KeptAreOwn

-----------------------------------------------------------------------------
(* Outcomes.                                                               *)

\* The current entry point, its context, and what it is checked against.
LEMMA HereIsOwn ==
    ASSUME TypeInv, ContextsInv, EntriesInv, pc \in {"entry", "templates", "classify"},
           entries # <<>>
    PROVE  /\ Now.who \in Pinned /\ Now.who \in Targets /\ Now.ctx = KeyFor(Now.who)
           /\ Here = contexts[KeyFor(Now.who)] /\ KeyFor(Now.who) \in DOMAIN contexts
           /\ Here.anchor = {} => Here.sources = OwnSources(Now.who)
           /\ Here.templates.set => Here.templates.of = Kept(Here.sources)
           /\ Now.who # Ringtail => Here.anchor = {}
  <1>1. Now = entries[1] /\ 1 \in DOMAIN entries /\ Now.ctx \in DOMAIN contexts
    BY NowTypes
  <1>2. Now.who \in Pinned /\ Now.ctx = KeyFor(Now.who)
    BY <1>1 DEF EntriesInv
  <1> QED
    BY <1>1, <1>2 DEF ContextsInv, Here, Pinned

GreenInv == \A e \in Targets : outcome[e] = "green" => Trusted(e) /\ AllKnown(e)
RedInv == \A e \in Targets :
    outcome[e] = "violations" =>
        ~Trusted(e) \/ ~AllKnown(e) \/ ProbeFailed(e) \/ Shadowed(e)

\* With an anchor without errors the sources are authenticated.
LEMMA AnchorTrusts ==
    ASSUME TypeInv, GateInv, ContextsInv, pc = "classify", NEW e \in Pinned,
           KeyFor(e) \in DOMAIN contexts, contexts[KeyFor(e)].anchor = {}
    PROVE  Trusted(e)
  <1>1. CASE e = Ringtail
    BY <1>1 DEF ContextsInv, KeyFor, Trusted
  <1>2. CASE e # Ringtail
    <2>1. SharedKey \in tree.vouched /\ tree.pin[e] # Odd
      BY <1>2 DEF GateInv, Pinned
    <2> QED
      BY <1>2, <2>1 DEF Trusted
  <1> QED
    BY <1>1, <1>2

\* What the templates of an entry point match is known from its own sources.
LEMMA GreenIsKnown ==
    ASSUME TypeInv, GateInv, pc = "classify", NEW e \in Pinned,
           \A fod \in tree.fods[e] : Matched(fod, Kept(OwnSources(e)))
    PROVE  AllKnown(e)
  <1> SUFFICES ASSUME NEW fod \in tree.fods[e]
               PROVE  fod.pin \in OwnPins(e) /\ (e = Ringtail \/ fod.system = Native)
    BY DEF AllKnown
  <1>1. PICK t \in Kept(OwnSources(e)) : t.pin = fod.pin /\ t.system = fod.system
    BY DEF Matched
  <1>2. t.pin \in OwnPins(e) /\ t.system \in SystemsOf(e)
    BY KeptAreOwn DEF TypeInv, ShapeInv
  <1> QED
    BY <1>1, <1>2 DEF SystemsOf

\* And what is known from them matches, unless another has its builder.
LEMMA KnownIsGreen ==
    ASSUME TypeInv, GateInv, pc = "classify", NEW e \in Pinned, AllKnown(e), ~Shadowed(e)
    PROVE  \A fod \in tree.fods[e] : Matched(fod, Kept(OwnSources(e)))
  <1> SUFFICES ASSUME NEW fod \in tree.fods[e] PROVE Matched(fod, Kept(OwnSources(e)))
    OBVIOUS
  <1>1. tree \in Trees /\ e \in Containers \union {Ringtail}
    BY DEF TypeInv, ShapeInv, Pinned, Targets
  <1>2. fod.pin \in OwnPins(e) /\ (e = Ringtail \/ fod.system = Native)
    BY DEF AllKnown
  <1>3. fod.system \in SystemsOf(e)
    BY <1>1, <1>2, TreesAssumption DEF SystemsOf, Systems, Native, Multilib
  <1>4. PICK t \in Kept(OwnSources(e)) :
            t.pin \in OwnPins(e) /\ Shell[t.pin] = Shell[fod.pin] /\ t.system = fod.system
    BY <1>1, <1>2, <1>3, OwnAreKept
  <1>5. t.pin = fod.pin
    BY <1>2, <1>4 DEF Shadowed
  <1> QED
    BY <1>4, <1>5 DEF Matched

\* Verdicts are about the tree, the selection and the contexts.
LEMMA VerdictsStay ==
    ASSUME UNCHANGED given
    PROVE  \A e : Trusted(e)' = Trusted(e) /\ AllKnown(e)' = AllKnown(e)
                 /\ Shadowed(e)' = Shadowed(e)
  BY DEF given, Trusted, Untrusted, AllKnown, Shadowed, OwnPins, SourcePin

LEMMA ProbesStay ==
    ASSUME TypeInv, [Next]_vars, pc # "contexts", NEW e, ProbeFailed(e)
    PROVE  ProbeFailed(e)' \/ RingtailAdded
  <1>1. CASE Elsewhere \/ Settle \/ UNCHANGED vars
    BY <1>1, ElsewhereStays, SettleSays DEF ProbeFailed, vars
  <1>2. CASE TemplatesDone
    <2>1. \A key \in DOMAIN contexts : contexts[key] =
              [sources |-> contexts[key].sources, anchor |-> contexts[key].anchor,
               templates |-> contexts[key].templates]
      BY DEF TypeInv, ShapeInv
    <2>2. DOMAIN contexts' = DOMAIN contexts
          /\ \A key \in DOMAIN contexts : contexts'[key] = contexts[key]
                \/ contexts'[key] = [contexts[key] EXCEPT !.templates = Bundle(Kept(Here.sources))]
      BY <1>2 DEF TemplatesDone
    <2>3. \A key \in DOMAIN contexts : contexts'[key].anchor = contexts[key].anchor
      BY <2>1, <2>2
    <2> QED
      BY <2>2, <2>3 DEF ProbeFailed
  <1>3. CASE MakeContexts
    BY <1>3, Made
  <1> QED
    BY <1>1, <1>2, <1>3, Kinds

LEMMA FreshInit == ASSUME Init PROVE FreshInv
  BY DEF Init, FreshInv, Targets

LEMMA FreshStep == ASSUME TypeInv, FreshInv, [Next]_vars PROVE FreshInv'
  <1>1. CASE AnchorFails \/ UnknownContainer \/ CatalogueFails \/ ResolveFails \/ TimesOut \/ Finish
    BY <1>1 DEF FreshInv, AnchorFails, UnknownContainer, CatalogueFails, ResolveFails, TimesOut,
                Finish, Fails, Exit
  <1>2. CASE AnchorHolds \/ Known \/ Resolve \/ CatalogueHolds \/ ResolveRetry
    BY <1>2 DEF FreshInv, AnchorHolds, Known, Resolve, CatalogueHolds, ResolveRetry, Proceed
  <1>3. CASE MakeContexts
    BY <1>3, Made, NamesAssumption DEF FreshInv, Chosen, Targets
  <1>4. CASE RingtailAdded
    BY <1>4 DEF FreshInv, RingtailAdded, FlakeAnchor, ProbeFails, FlakeUnanchored, AddRingtail
  <1>5. CASE InstantiateAndWalk
    BY <1>5 DEF FreshInv, InstantiateAndWalk
  <1>6. CASE \E i \in DOMAIN ended, how \in {"ok", "failed"} : EvaluateSource(i, how)
    BY <1>6 DEF FreshInv, EvaluateSource
  <1>7. CASE Settle
    BY <1>7, SettleSays DEF FreshInv
  <1>8. CASE TemplatesDone
    BY <1>8 DEF FreshInv, TemplatesDone
  <1>9. CASE UNCHANGED vars
    BY <1>9 DEF FreshInv, vars
  <1> QED
    BY <1>1, <1>2, <1>3, <1>4, <1>5, <1>6, <1>7, <1>8, <1>9, Kinds DEF Elsewhere

CheckInv ==
    ReportInv /\ ContextsInv /\ EntriesInv /\ FreshInv

\* What is said of the current entry point is right.
LEMMA SaidGreen ==
    ASSUME CheckInv, Settle, outcome'[Now.who] = "green"
    PROVE  Trusted(Now.who) /\ AllKnown(Now.who)
  <1>1. TypeInv /\ GateInv /\ ContextsInv /\ EntriesInv /\ Now.who \in Targets
    BY SettleSays, NowTypes DEF CheckInv, ReportInv
  <1>2. CASE AnchorRed \/ EntryFails \/ TemplatesFail
    BY <1>1, <1>2 DEF AnchorRed, EntryFails, TemplatesFail, Say, TypeInv, TypeOK
  <1>3. CASE Classify
    <2>1. pc = "classify" /\ entries # <<>> /\ Here.anchor = {} /\ Here.templates.set
      BY <1>1, <1>3 DEF Classify, EntriesInv
    <2>2. /\ Now.who \in Pinned /\ KeyFor(Now.who) \in DOMAIN contexts
          /\ Here = contexts[KeyFor(Now.who)] /\ Here.templates.of = Kept(OwnSources(Now.who))
      BY <1>1, <2>1, HereIsOwn
    <2>3. \A fod \in tree.fods[Now.who] : Matched(fod, Here.templates.of)
      BY <1>1, <1>3 DEF Classify, Say, TypeInv, TypeOK
    <2> QED
      BY <1>1, <2>1, <2>2, <2>3, AnchorTrusts, GreenIsKnown
  <1> QED
    BY <1>2, <1>3 DEF Settle

LEMMA SaidRed ==
    ASSUME CheckInv, Settle, outcome'[Now.who] = "violations"
    PROVE  ~Trusted(Now.who) \/ ~AllKnown(Now.who) \/ ProbeFailed(Now.who) \/ Shadowed(Now.who)
  <1>1. TypeInv /\ GateInv /\ ContextsInv /\ EntriesInv /\ Now.who \in Targets
    BY SettleSays, NowTypes DEF CheckInv, ReportInv
  <1>2. CASE EntryFails \/ TemplatesFail
    BY <1>1, <1>2 DEF EntryFails, TemplatesFail, Say, TypeInv, TypeOK
  <1>3. CASE AnchorRed
    <2>1. pc = "entry" /\ entries # <<>> /\ Here.anchor # {}
      BY <1>3 DEF AnchorRed
    <2>2. Now.who = Ringtail /\ Here = contexts[Ringtail] /\ Ringtail \in DOMAIN contexts
      BY <1>1, <2>1, HereIsOwn DEF KeyFor
    <2>3. CASE "probe" \in contexts[Ringtail].anchor
      BY <2>2, <2>3 DEF ProbeFailed
    <2>4. CASE contexts[Ringtail].anchor = Untrusted /\ tree.inputs # <<>>
      BY <2>1, <2>2, <2>4 DEF Trusted
    <2> QED
      BY <1>1, <2>1, <2>2, <2>3, <2>4 DEF ContextsInv
  <1>4. CASE Classify
    <2>1. pc = "classify" /\ entries # <<>> /\ Here.anchor = {} /\ Here.templates.set
      BY <1>1, <1>4 DEF Classify, EntriesInv
    <2>2. Now.who \in Pinned /\ Here.templates.of = Kept(OwnSources(Now.who))
      BY <1>1, <2>1, HereIsOwn
    <2>3. ~\A fod \in tree.fods[Now.who] : Matched(fod, Here.templates.of)
      BY <1>1, <1>4 DEF Classify, Say, TypeInv, TypeOK
    <2> QED
      BY <1>1, <2>1, <2>2, <2>3, KnownIsGreen
  <1> QED
    BY <1>2, <1>3, <1>4 DEF Settle

LEMMA GreenStep == ASSUME CheckInv, GreenInv, [Next]_vars PROVE GreenInv'
  <1>1. \A e : Trusted(e)' = Trusted(e) /\ AllKnown(e)' = AllKnown(e)
    BY GivenStays, VerdictsStay
  <1>2. TypeInv
    BY DEF CheckInv, ReportInv
  <1>3. CASE Settle
    <2>1. PICK what \in {"green", "violations", "error"} :
              outcome' = [outcome EXCEPT ![Now.who] = what]
      BY <1>2, <1>3, SettleSays
    <2>2. \A e \in Targets : outcome'[e] = outcome[e] \/ e = Now.who
      BY <1>2, <2>1 DEF TypeInv, TypeOK
    <2> QED
      BY <1>1, <1>3, <2>2, SaidGreen DEF GreenInv
  <1>4. CASE MakeContexts
    BY <1>1, <1>4, Made DEF GreenInv
  <1>5. CASE Elsewhere \/ RingtailAdded \/ TemplatesDone \/ UNCHANGED vars
    <2>1. outcome' = outcome
      BY <1>5, ElsewhereStays DEF RingtailAdded, FlakeAnchor, ProbeFails, FlakeUnanchored,
                                  AddRingtail, TemplatesDone, vars
    <2> QED
      BY <1>1, <2>1 DEF GreenInv
  <1> QED
    BY <1>3, <1>4, <1>5, Kinds

LEMMA RedStep == ASSUME CheckInv, RedInv, [Next]_vars PROVE RedInv'
  <1>1. \A e : Trusted(e)' = Trusted(e) /\ AllKnown(e)' = AllKnown(e)
               /\ Shadowed(e)' = Shadowed(e)
    BY GivenStays, VerdictsStay
  <1>2. TypeInv /\ FreshInv
    BY DEF CheckInv, ReportInv
  <1>3. CASE Settle
    <2>1. PICK what \in {"green", "violations", "error"} :
              outcome' = [outcome EXCEPT ![Now.who] = what]
      BY <1>2, <1>3, SettleSays
    <2>2. \A e \in Targets : outcome'[e] = outcome[e] \/ e = Now.who
      BY <1>2, <2>1 DEF TypeInv, TypeOK
    <2>3. \A e : ProbeFailed(e) => ProbeFailed(e)'
      BY <1>2, <1>3, SettleSays DEF ProbeFailed
    <2> QED
      BY <1>1, <1>3, <2>2, <2>3, SaidRed DEF RedInv
  <1>4. CASE MakeContexts
    <2> SUFFICES ASSUME NEW e \in Targets, outcome'[e] = "violations" PROVE ~Trusted(e)
      BY <1>1 DEF RedInv
    <2>1. outcome[e] = "unchecked"
      BY <1>2, <1>4, Made DEF FreshInv
    <2>2. e \in Chosen \ PinnedNow
      BY <1>4, <2>1, Made
    <2>3. e # Ringtail /\ tree.pin[e] = Odd
      BY <2>2, NamesAssumption DEF PinnedNow, Chosen
    <2> QED
      BY <2>3 DEF Trusted
  <1>5. CASE RingtailAdded
    <2>1. outcome' = outcome /\ pc = "flake"
      BY <1>5 DEF RingtailAdded, FlakeAnchor, ProbeFails, FlakeUnanchored, AddRingtail
    <2>2. outcome[Ringtail] # "violations"
      BY <1>2, <2>1 DEF FreshInv
    <2> QED
      BY <1>1, <2>1, <2>2 DEF RedInv, ProbeFailed
  <1>6. CASE (Elsewhere \/ TemplatesDone \/ UNCHANGED vars) /\ pc # "contexts"
    <2>1. outcome' = outcome
      BY <1>6, ElsewhereStays DEF TemplatesDone, vars
    <2>2. ASSUME NEW e, ProbeFailed(e) PROVE ProbeFailed(e)' \/ RingtailAdded
      BY <1>2, <1>6, <2>2, ProbesStay
    <2> QED
      BY <1>1, <1>5, <2>1, <2>2 DEF RedInv
  <1>7. CASE (Elsewhere \/ TemplatesDone \/ UNCHANGED vars) /\ pc = "contexts"
    <2>1. outcome' = outcome
      BY <1>7, ElsewhereStays DEF TemplatesDone, vars
    <2> QED
      BY <1>2, <1>7, <2>1 DEF RedInv, FreshInv
  <1> QED
    BY <1>3, <1>4, <1>5, <1>6, <1>7, Kinds

LEMMA CheckInvariant == ASSUME PrefixesDiffer PROVE Spec => [](CheckInv /\ GreenInv)
  <1>1. Init => CheckInv /\ GreenInv
    BY InitTypes, GateInit, ToldInit, ContextsInit, FreshInit
    DEF CheckInv, ReportInv, GreenInv, Init
  <1>2. CheckInv /\ GreenInv /\ [Next]_vars => (CheckInv /\ GreenInv)'
    BY StepTypes, GateStep, ToldStep, ContextsStep, FreshStep, GreenStep DEF CheckInv, ReportInv
  <1> QED
    BY <1>1, <1>2, PTL DEF Spec

\* Exit 0 means that every entry point that was asked for was evaluated, every
\* FOD of it is known from its own sources, and the lock entries of these name
\* NixOS/nixpkgs as their original, whatever failed on the way: main counts
\* violations and errors, and each entry point meets the templates of its own
\* sources.
THEOREM GreenIsChecked == ASSUME PrefixesDiffer PROVE Spec => []GreenMeansChecked
  <1>1. CheckInv /\ GreenInv => GreenMeansChecked
    BY DEF CheckInv, ReportInv, ToldInv, GreenInv, GreenMeansChecked, Asked
  <1> QED
    BY <1>1, CheckInvariant, PTL

\* What is said of an entry point is what would be said of it alone: shared
\* contexts, skipped repeats, concurrent evaluations and earlier failures
\* change nothing, and the merge of templates costs only FODs of a source that
\* shares its builder with another (Context, main).
THEOREM OutcomeIsOwn == ASSUME PrefixesDiffer PROVE Spec => []OwnOutcome
  <1>1. Init => RedInv
    BY DEF Init, RedInv
  <1>2. CheckInv /\ RedInv /\ [Next]_vars => RedInv'
    BY RedStep
  <1>3. CheckInv /\ GreenInv /\ RedInv => OwnOutcome
    BY DEF OwnOutcome, GreenInv, RedInv
  <1> QED
    BY <1>1, <1>2, <1>3, CheckInvariant, PTL DEF Spec

=============================================================================
