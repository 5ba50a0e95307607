---------------------- MODULE BlueprintExporter_proofs ----------------------
(***************************************************************************)
(* Proofs about BlueprintExporter, for any paths, page size, times and     *)
(* bounds: type correctness, what a poll and a scrape say of the           *)
(* instances, and the times in which a path that is gone stops being       *)
(* carried and alerting.                                                   *)
(***************************************************************************)
EXTENDS BlueprintExporter, FiniteSetTheorems, TLAPS

LEMMA NextCases ==
    ASSUME Next
    PROVE  \/ \E p \in Paths : Apply(p) \/ Discover(p)
           \/ \E p \in Paths, what \in {"good", "bad", "gone"} : p \in Edited /\ EditFile(p, what)
           \/ ClearFailed \/ StartPoll \/ FetchPage \/ PageMissing \/ CallFails
           \/ EmptyList \/ SnapshotFails \/ RecordPoll \/ OutageBegins \/ OutageEnds
           \/ Restart \/ Scrape \/ Tick
  BY PathsAssumption DEF Next, Blueprints, PollThread

-----------------------------------------------------------------------------
(* The list and its pages. *)

LEMMA ListedFinite ==
    /\ Listed \subseteq Paths /\ IsFiniteSet(Listed)
    /\ Cardinality(Listed) \in Nat /\ Cardinality(Paths) \in Nat
    /\ Cardinality(Listed) <= Cardinality(Paths)
  <1>1. Listed \subseteq Paths
    BY DEF Listed
  <1> QED
    BY <1>1, PathsAssumption, FS_Subset, FS_CardinalityType

\* The last place of a list is before its length.
LEMMA PlaceInList ==
    ASSUME NEW p \in Listed
    PROVE  Place(p) \in Nat /\ Place(p) < Cardinality(Listed)
  <1> DEFINE Before == {q \in Listed : Rank[q] < Rank[p]}
  <1>1. Before \subseteq Listed /\ Before # Listed
    <2>1. p \notin Before
      <3>1. Rank[p] \in Nat
        BY PathsAssumption, ListedFinite
      <3> QED
        BY <3>1
    <2> QED
      BY <2>1
  <1>2. Cardinality(Before) < Cardinality(Listed)
    BY <1>1, ListedFinite, FS_Subset, FS_CardinalityType
  <1>3. Cardinality(Before) \in Nat
    BY <1>1, ListedFinite, FS_Subset, FS_CardinalityType
  <1> QED
    BY <1>2, <1>3 DEF Place

\* One page more.
LEMMA NextPage ==
    ASSUME NEW n \in Nat \ {0}
    PROVE  (n + 1 - 1) * PageSize = n * PageSize /\ (n - 1) * PageSize <= n * PageSize
           /\ n * PageSize \in Nat /\ (n - 1) * PageSize \in Nat
  BY TimesAssumption

-----------------------------------------------------------------------------
(* Type correctness. *)

LEMMA NothingTyped ==
    /\ DOMAIN Nothing = {} /\ Nothing \in [DOMAIN Nothing -> Statuses]
    /\ DOMAIN NoErrors = {} /\ NoErrors \in [DOMAIN NoErrors -> 0..Carry]
  BY DEF Nothing, NoErrors

LEMMA InitTypeOK == Init => TypeOK
  <1> SUFFICES ASSUME Init PROVE TypeOK
    OBVIOUS
  <1>1. 0 \in 0..MaxGap /\ 0 \in 0..MaxEdits /\ 0 \in 0..MaxOutages /\ 0 \in 0..MaxRestarts
        /\ Window \in 0..Window
    BY TimesAssumption DEF MaxGap
  <1>2. file \in [Paths -> {"good", "bad", "gone"}] /\ gap \in [Paths -> 0..MaxGap]
        /\ status \in [Paths -> Statuses \union {"absent"}] /\ sample \in [Paths -> 0..Window]
    BY <1>1 DEF Init, Statuses
  <1>3. /\ DOMAIN got \subseteq Paths /\ got \in [DOMAIN got -> Statuses]
        /\ DOMAIN instances \subseteq Paths /\ instances \in [DOMAIN instances -> Statuses]
        /\ DOMAIN errorAt \subseteq Paths /\ errorAt \in [DOMAIN errorAt -> 0..Carry]
    BY NothingTyped DEF Init
  <1>4. page = 1 /\ page \in Nat \ {0} /\ count \in Nat
    BY DEF Init
  <1> QED
    BY <1>1, <1>2, <1>3, <1>4 DEF Init, TypeOK

\* The steps of authentik and of whoever edits the files keep the types.
LEMMA BlueprintsTypeOK ==
    ASSUME TypeOK,
           \/ \E p \in Paths : Apply(p) \/ Discover(p)
           \/ \E p \in Paths, what \in {"good", "bad", "gone"} : p \in Edited /\ EditFile(p, what)
           \/ ClearFailed
    PROVE  TypeOK'
  <1>1. CASE \E p \in Paths : Apply(p)
    BY <1>1 DEF TypeOK, Apply, Changed, Outcome, Statuses, fetched, state, trouble
  <1>2. CASE \E p \in Paths : Discover(p)
    <2>1. 0 \in 0..MaxGap
      BY TimesAssumption DEF MaxGap
    <2> QED
      BY <1>2, <2>1 DEF TypeOK, Discover, Changed, Outcome, Statuses, fetched, state, trouble
  <1>3. CASE \E p \in Paths, what \in {"good", "bad", "gone"} : EditFile(p, what)
    <2>1. edits' \in 0..MaxEdits
      BY <1>3, TimesAssumption DEF TypeOK, EditFile
    <2> QED
      BY <1>3, <2>1 DEF TypeOK, EditFile, fetched, state, trouble
  <1>4. CASE ClearFailed
    <2>1. 0 \in 0..MaxGap
      BY TimesAssumption DEF MaxGap
    <2> QED
      BY <1>4, <2>1 DEF TypeOK, ClearFailed, Changed, fetched, state, trouble
  <1> QED
    BY <1>1, <1>2, <1>3, <1>4

LEMMA PollTypeOK ==
    ASSUME TypeOK,
           \/ StartPoll \/ FetchPage \/ PageMissing \/ CallFails
           \/ EmptyList \/ SnapshotFails \/ RecordPoll
    PROVE  TypeOK'
  <1> USE DEF authentik, state, trouble
  <1>1. CASE StartPoll
    BY <1>1 DEF TypeOK, StartPoll, fetched
  <1>2. CASE FetchPage
    <2>1. DOMAIN got' \subseteq Paths /\ got' \in [DOMAIN got' -> Statuses]
      BY <1>2 DEF TypeOK, FetchPage, Page, Listed, Statuses
    <2>2. count' \in Nat /\ page' \in Nat \ {0}
      BY <1>2, ListedFinite DEF TypeOK, FetchPage
    <2>3. page' = 1 \/ (page' - 1) * PageSize < Cardinality(Paths)
      <3>1. CASE LastPage
        BY <1>2, <3>1 DEF FetchPage, TypeOK
      <3>2. CASE ~LastPage
        <4>1. page * PageSize < Cardinality(Listed)
          <5>1. page * PageSize \in Nat /\ Cardinality(Listed) \in Nat
            BY NextPage, ListedFinite DEF TypeOK
          <5> QED
            BY <3>2, <5>1 DEF LastPage
        <4> QED
          BY <1>2, <3>2, <4>1, NextPage, ListedFinite DEF FetchPage, TypeOK
      <3> QED
        BY <3>1, <3>2
    <2> QED
      BY <1>2, <2>1, <2>2, <2>3 DEF TypeOK, FetchPage
  <1>3. CASE PageMissing \/ CallFails \/ SnapshotFails
    <2>1. RecordFailure /\ UNCHANGED trouble
      BY <1>3 DEF PageMissing, CallFails, SnapshotFails
    <2>2. page' = 1 /\ page' \in Nat \ {0} /\ count' \in Nat
          /\ DOMAIN got' \subseteq Paths /\ got' \in [DOMAIN got' -> Statuses]
      BY <2>1, NothingTyped DEF RecordFailure, NoPages
    <2> QED
      BY <2>1, <2>2 DEF TypeOK, RecordFailure
  <1>4. CASE EmptyList
    BY <1>4 DEF TypeOK, EmptyList, fetched
  <1>5. CASE RecordPoll
    <2>1. DOMAIN errorAt' \subseteq Paths /\ errorAt' \in [DOMAIN errorAt' -> 0..Carry]
      BY <1>5, TimesAssumption DEF TypeOK, RecordPoll, InError, Carried
    <2> QED
      BY <1>5, <2>1, NothingTyped DEF TypeOK, RecordPoll, NoPages
  <1> QED
    BY <1>1, <1>2, <1>3, <1>4, <1>5

LEMMA RestTypeOK ==
    ASSUME TypeOK, OutageBegins \/ OutageEnds \/ Restart \/ Scrape \/ Tick
    PROVE  TypeOK'
  <1> USE DEF authentik, state, trouble, fetched
  <1>1. CASE OutageBegins
    BY <1>1, TimesAssumption DEF TypeOK, OutageBegins
  <1>2. CASE OutageEnds
    BY <1>2 DEF TypeOK, OutageEnds
  <1>3. CASE Restart
    BY <1>3, TimesAssumption, NothingTyped DEF TypeOK, Restart, NoPages
  <1>4. CASE Scrape
    BY <1>4, TimesAssumption DEF TypeOK, Scrape
  <1>5. CASE Tick
    <2>1. gap' \in [Paths -> 0..MaxGap]
      BY <1>5, TimesAssumption DEF TypeOK, Tick, Least, MaxGap
    <2>2. errorAt' \in [DOMAIN errorAt' -> 0..Carry] /\ DOMAIN errorAt' = DOMAIN errorAt
      BY <1>5, TimesAssumption DEF TypeOK, Tick, Least
    <2>3. sample' \in [Paths -> 0..Window]
      BY <1>5, TimesAssumption DEF TypeOK, Tick, Least
    <2> QED
      BY <1>5, <2>1, <2>2, <2>3 DEF TypeOK, Tick
  <1> QED
    BY <1>1, <1>2, <1>3, <1>4, <1>5

LEMMA StepTypeOK == TypeOK /\ [Next]_vars => TypeOK'
  <1>1. ASSUME TypeOK, UNCHANGED vars PROVE TypeOK'
    BY <1>1 DEF TypeOK, vars, authentik, state, trouble, fetched
  <1> QED
    BY <1>1, NextCases, BlueprintsTypeOK, PollTypeOK, RestTypeOK

\* Every variable keeps its type, with any bounds.
THEOREM TypeCorrect == Spec => []TypeOK
  BY InitTypeOK, StepTypeOK, PTL DEF Spec

-----------------------------------------------------------------------------
(* What is shown of a path that is there. *)

LEMMA StepErrorsAreKnown == ErrorsAreKnown /\ [Next]_vars => ErrorsAreKnown'
  <1>1. ASSUME ErrorsAreKnown, UNCHANGED <<instances, errorAt>> PROVE ErrorsAreKnown'
    BY <1>1 DEF ErrorsAreKnown
  <1>2. ASSUME ErrorsAreKnown, RecordPoll PROVE ErrorsAreKnown'
    BY <1>2 DEF ErrorsAreKnown, RecordPoll, InError, Carried
  <1>3. ASSUME ErrorsAreKnown, Tick PROVE ErrorsAreKnown'
    BY <1>3 DEF ErrorsAreKnown, Tick
  <1>4. ASSUME Restart PROVE ErrorsAreKnown'
    BY <1>4, NothingTyped DEF ErrorsAreKnown, Restart
  <1>5. ASSUME Next PROVE RecordPoll \/ Tick \/ Restart \/ UNCHANGED <<instances, errorAt>>
    BY <1>5, NextCases DEF Apply, Discover, EditFile, ClearFailed, Changed, StartPoll, FetchPage,
       PageMissing, CallFails, EmptyList, SnapshotFails, RecordFailure, OutageBegins,
       OutageEnds, Scrape, state
  <1> QED
    BY <1>1, <1>2, <1>3, <1>4, <1>5 DEF vars, state

\* The carried errors are of absent paths only.
THEOREM ErrorsKnown == Spec => []ErrorsAreKnown
  <1>1. Init => ErrorsAreKnown
    BY NothingTyped DEF Init, ErrorsAreKnown
  <1> QED
    BY <1>1, StepErrorsAreKnown, PTL DEF Spec

\* A path whose instance was not in error at the last good poll, and that
\* carries no error, is not shown in error.
LEMMA ShownError ==
    ASSUME ErrorsAreKnown, NEW p
    PROVE  Shown(p) = "error" <=> p \in DOMAIN errorAt
  BY DEF ErrorsAreKnown, Shown

-----------------------------------------------------------------------------
(* What a poll puts together from the pages. *)

\* Something changed since the last poll began, or the process is new.
LEMMA ChangedPollInv ==
    ASSUME PollInv, pollDue', UNCHANGED <<stage, page, got, count, outage, outages>>
    PROVE  PollInv'
  BY DEF PollInv

LEMMA BlueprintsPollInv ==
    ASSUME TypeOK, PollInv,
           \/ \E p \in Paths : Apply(p) \/ Discover(p)
           \/ \E p \in Paths, what \in {"good", "bad", "gone"} : p \in Edited /\ EditFile(p, what)
           \/ ClearFailed
    PROVE  PollInv'
  <1>1. CASE (\E p \in Paths : Apply(p) \/ Discover(p)) \/ ClearFailed
    BY <1>1, ChangedPollInv DEF Apply, Discover, ClearFailed, Changed, fetched, trouble
  <1>2. CASE \E p \in Paths, what \in {"good", "bad", "gone"} : EditFile(p, what)
    <2>1. UNCHANGED <<status, stage, page, got, count, pollDue, instances, up, outage, outages>>
      BY <1>2 DEF EditFile, fetched, state, trouble
    <2> QED
      BY <2>1 DEF PollInv, Listed, Place, Exists
  <1> QED
    BY <1>1, <1>2

\* A page adds the next places of the list.
LEMMA FetchPollInv == ASSUME TypeOK, PollInv, FetchPage PROVE PollInv'
  <1> USE DEF FetchPage, authentik, state, trouble
  <1>1. UNCHANGED <<status, pollDue, outage, outages>> /\ Listed' = Listed
        /\ Cardinality(Listed)' = Cardinality(Listed)
        /\ \A p : Place(p)' = Place(p)
    BY DEF Listed, Place
  <1>2. stage' # "sleep" /\ (stage' # "loaded" => page' # 1)
    BY DEF TypeOK
  <1>3. ASSUME ~pollDue' PROVE count' = Cardinality(Listed)
    BY <1>3, <1>1 DEF PollInv
  <1>4. ASSUME ~pollDue', NEW p \in DOMAIN got'
        PROVE  p \in Listed /\ got'[p] = status[p]
    <2>1. p \in Page => p \in Listed /\ got'[p] = status[p]
      BY DEF Page
    <2>2. p \notin Page => p \in DOMAIN got /\ got'[p] = got[p]
      OBVIOUS
    <2> QED
      BY <1>1, <1>4, <2>1, <2>2 DEF PollInv
  <1>5. ASSUME ~pollDue', NEW p \in Listed, Place(p) < page * PageSize
        PROVE  p \in DOMAIN got'
    <2>1. CASE Place(p) < (page - 1) * PageSize
      BY <1>1, <1>5, <2>1 DEF PollInv
    <2>2. CASE ~(Place(p) < (page - 1) * PageSize)
      <3>1. (page - 1) * PageSize <= Place(p)
        BY <2>2, NextPage, PlaceInList DEF TypeOK
      <3> QED
        BY <1>5, <3>1 DEF Page
    <2> QED
      BY <2>1, <2>2
  <1>6. CASE LastPage
    <2>1. ASSUME ~pollDue' PROVE DOMAIN got' = Listed
      <3>1. ASSUME NEW p \in Listed PROVE Place(p) < page * PageSize
        <4>1. page * PageSize \in Nat /\ Cardinality(Listed) <= page * PageSize
          BY <1>6, NextPage DEF LastPage, TypeOK
        <4> HIDE DEF FetchPage
        <4> QED
          BY <4>1, PlaceInList, ListedFinite
      <3> QED
        BY <2>1, <3>1, <1>4, <1>5
    <2>2. stage' = "loaded"
      BY <1>6
    <2>3. /\ ~pollDue' => DOMAIN got' = Listed /\ count' = Cardinality(Listed)
          /\ ~pollDue' => \A p \in Listed : got'[p] = status[p]
      BY <2>1, <1>3, <1>4
    <2> QED
      BY <2>2, <2>3, <1>1 DEF PollInv
  <1>7. CASE ~LastPage
    <2>1. stage' = "fetch" /\ page' = page + 1 /\ page' # 1
      BY <1>2, <1>7
    <2>2. (page' - 1) * PageSize = page * PageSize
      BY <2>1, NextPage DEF TypeOK
    <2>3. (page' - 1) * PageSize < Cardinality(Listed)
      BY <1>7, <2>2, NextPage, ListedFinite DEF LastPage, TypeOK
    <2>4. /\ ~pollDue' => \A p \in DOMAIN got' : p \in Listed /\ got'[p] = status[p]
          /\ ~pollDue' => \A p \in Listed : Place(p) < (page' - 1) * PageSize => p \in DOMAIN got'
          /\ ~pollDue' => count' = Cardinality(Listed)
      BY <1>3, <1>4, <1>5, <2>2
    <2>5. Exists'
      BY <1>1, <2>3 DEF Exists
    <2> HIDE DEF FetchPage
    <2>6. ~pollDue' => \A p \in Listed' : Place(p)' < (page' - 1) * PageSize => p \in DOMAIN got'
      BY <1>1, <2>4
    <2>7. ~pollDue' => \A p \in DOMAIN got' : p \in Listed' /\ got'[p] = status'[p]
      BY <1>1, <2>4
    <2>8. outage' => outages' > 0
      BY <1>1 DEF PollInv
    <2> QED
      BY <1>1, <2>1, <2>4, <2>5, <2>6, <2>7, <2>8 DEF PollInv
  <1> QED
    BY <1>6, <1>7

LEMMA RestPollInv ==
    ASSUME TypeOK, PollInv,
           \/ StartPoll \/ PageMissing \/ CallFails \/ EmptyList \/ SnapshotFails \/ RecordPoll
           \/ OutageBegins \/ OutageEnds \/ Restart \/ Scrape \/ Tick
    PROVE  PollInv'
  <1> USE DEF authentik, state, fetched
  <1>1. CASE StartPoll
    <2>1. UNCHANGED <<page, got, count, outage, outages>> /\ stage' = "fetch" /\ page = 1
          /\ got = Nothing /\ count = 0
      BY <1>1 DEF StartPoll, PollInv, trouble
    <2>2. \A p \in Listed' : ~((Place(p) < (page - 1) * PageSize)')
      <3>1. (page' - 1) * PageSize = 0
        BY <2>1, TimesAssumption
      <3>2. Listed' = Listed /\ \A p : Place(p)' = Place(p)
        BY <1>1 DEF StartPoll, Listed, Place
      <3> QED
        BY <3>1, <3>2, PlaceInList
    <2>3. PollInv!3
      BY DEF PollInv
    <2> QED
      BY <2>1, <2>2, <2>3, NothingTyped DEF PollInv
  <1>2. CASE PageMissing \/ CallFails \/ SnapshotFails
    <2>1. RecordFailure /\ UNCHANGED trouble
      BY <1>2 DEF PageMissing, CallFails, SnapshotFails
    <2>2. stage' = "sleep" /\ page' = 1 /\ got' = Nothing /\ count' = 0 /\ up' = 0
          /\ UNCHANGED <<outage, outages>>
      BY <2>1 DEF RecordFailure, NoPages, trouble
    <2> QED
      BY <2>2 DEF PollInv
  <1>3. CASE EmptyList
    <2>1. stage' = "loaded" /\ count' = 0 /\ UNCHANGED <<outage, outages>> /\ outages > 0
      BY <1>3 DEF EmptyList, PollInv, trouble
    <2> QED
      BY <2>1 DEF PollInv
  <1>4. CASE RecordPoll
    <2>1. stage' = "sleep" /\ page' = 1 /\ got' = Nothing /\ count' = 0
          /\ UNCHANGED <<status, pollDue, outage, outages>> /\ instances' = got
      BY <1>4 DEF RecordPoll, NoPages, trouble
    <2>2. ~pollDue => DOMAIN got = Listed /\ \A p \in Listed : got[p] = status[p]
      BY <1>4 DEF RecordPoll, PollInv
    <2>3. Listed' = Listed
      BY <2>1 DEF Listed
    <2> QED
      BY <2>1, <2>2, <2>3 DEF PollInv
  <1>5. CASE OutageBegins \/ OutageEnds
    <2>1. UNCHANGED <<status, stage, page, got, count, pollDue, instances, up>>
      BY <1>5 DEF OutageBegins, OutageEnds
    <2>2. outages' >= outages /\ (outage' => outages' > 0)
      BY <1>5 DEF OutageBegins, OutageEnds, TypeOK
    <2>3. outages > 0 => outages' > 0
      BY <2>2, <1>5 DEF OutageBegins, OutageEnds, TypeOK
    <2>4. Listed' = Listed /\ Cardinality(Listed)' = Cardinality(Listed) /\ Exists' = Exists
          /\ \A p : Place(p)' = Place(p)
      BY <2>1 DEF Listed, Place, Exists
    <2> QED
      BY <2>1, <2>2, <2>3, <2>4 DEF PollInv
  <1>6. CASE Restart
    <2>1. stage' = "sleep" /\ page' = 1 /\ got' = Nothing /\ count' = 0 /\ pollDue'
          /\ UNCHANGED <<outage, outages>>
      BY <1>6 DEF Restart, NoPages
    <2> QED
      BY <2>1 DEF PollInv
  <1>7. CASE Scrape
    <2>1. UNCHANGED <<status, stage, page, got, count, pollDue, instances, up, outage, outages>>
      BY <1>7 DEF Scrape, trouble
    <2> QED
      BY <2>1 DEF PollInv, Listed, Place, Exists
  <1>8. CASE Tick
    BY <1>8, ChangedPollInv DEF Tick, trouble
  <1> QED
    BY <1>1, <1>2, <1>3, <1>4, <1>5, <1>6, <1>7, <1>8

LEMMA StepPollInv == TypeOK /\ PollInv /\ [Next]_vars => PollInv'
  <1>1. ASSUME PollInv, UNCHANGED vars PROVE PollInv'
    BY <1>1 DEF PollInv, Listed, Place, Exists, vars, authentik, fetched, state, trouble
  <1> QED
    BY <1>1, NextCases, BlueprintsPollInv, FetchPollInv, RestPollInv

LEMMA PollInvariant == Spec => []PollInv
  <1>1. Init => PollInv
    BY DEF Init, PollInv
  <1> QED
    BY <1>1, StepPollInv, TypeCorrect, PTL DEF Spec

\* Whatever the page size, the number of blueprints and what changes between
\* two pages: at the end of a quarter in which the last poll was good, what is
\* shown is what is there.
THEOREM QuartersTell == Spec => []QuarterTells
  <1>1. TypeOK /\ PollInv /\ ErrorsAreKnown => QuarterTells
    <2> SUFFICES ASSUME TypeOK, PollInv, ErrorsAreKnown, QuarterOver, up = 1, NEW p \in Paths
                 PROVE  /\ status[p] = "error" => Shown(p) = "error"
                        /\ status[p] = "successful" => Shown(p) # "error"
      BY DEF QuarterTells
    <2>1. DOMAIN instances = Listed /\ \A q \in Listed : instances[q] = status[q]
      BY DEF PollInv, QuarterOver
    <2>2. status[p] # "absent" => p \in DOMAIN instances /\ instances[p] = status[p]
      BY <2>1 DEF Listed
    <2> QED
      BY <2>2, ShownError DEF ErrorsAreKnown
  <1> QED
    BY <1>1, TypeCorrect, PollInvariant, ErrorsKnown, PTL

-----------------------------------------------------------------------------
(* How long a path that is gone keeps alerting. *)

\* A list with a path that nobody edits is not empty.
LEMMA NeverEmpty ==
    ASSUME SilenceInv, Paths \ Edited # {}
    PROVE  Cardinality(Listed) # 0
  <1>1. PICK p \in Paths : p \in Paths \ Edited
    OBVIOUS
  <1>2. p \in Listed
    BY <1>1 DEF SilenceInv, Listed
  <1> QED
    BY <1>2, ListedFinite, FS_EmptySet

LEMMA InitSilenceInv == Init => SilenceInv
  <1> SUFFICES ASSUME Init PROVE SilenceInv
    OBVIOUS
  <1>1. DOMAIN errorAt = {} /\ \A p \in Paths : gap[p] = 0
    BY NothingTyped DEF Init
  <1> QED
    BY <1>1, TimesAssumption DEF Init, SilenceInv

LEMMA BlueprintsSilenceInv ==
    ASSUME TypeOK, SilenceInv,
           \/ \E p \in Paths : Apply(p) \/ Discover(p)
           \/ \E p \in Paths, what \in {"good", "bad", "gone"} : p \in Edited /\ EditFile(p, what)
           \/ ClearFailed
    PROVE  SilenceInv'
  <1>1. UNCHANGED <<stage, got, errorAt, sample, outages>>
    BY DEF Apply, Discover, EditFile, ClearFailed, Changed, fetched, state, trouble
  <1>2. ASSUME NEW p \in Paths
        PROVE  gap'[p] \in Nat /\ gap[p] \in Nat /\ (gap'[p] = gap[p] \/ gap'[p] = 0)
               /\ (gap'[p] > 0 /\ status[p] = "absent" => status'[p] = "absent")
    BY TimesAssumption DEF TypeOK, Apply, Discover, EditFile, ClearFailed, MaxGap
  <1>3. QuarterOver' => QuarterOver
    BY <1>1 DEF QuarterOver, Apply, Discover, EditFile, ClearFailed, Changed
  <1>4. \A p \in Paths \ Edited : file'[p] = "good" /\ status'[p] = "successful"
    BY DEF SilenceInv, TypeOK, Apply, Discover, EditFile, ClearFailed, Outcome
  <1>5. \A p \in Paths : gap'[p] > 0 => status'[p] = "absent" /\ p \notin DOMAIN got'
    BY <1>1, <1>2 DEF SilenceInv
  <1>6. \A p \in DOMAIN errorAt' : errorAt'[p] >= Least(gap'[p], Carry)
    <2> SUFFICES ASSUME NEW p \in DOMAIN errorAt PROVE errorAt[p] >= Least(gap'[p], Carry)
      BY <1>1
    <2>1. p \in Paths /\ errorAt[p] \in 0..Carry /\ errorAt[p] >= Least(gap[p], Carry)
      BY DEF TypeOK, SilenceInv
    <2> QED
      BY <2>1, <1>2, TimesAssumption DEF Least
  <1>7. ASSUME outages' = 0, NEW p \in Paths
        PROVE  /\ gap'[p] >= Carry /\ QuarterOver' => p \notin DOMAIN errorAt'
               /\ gap'[p] > Carry => p \notin DOMAIN errorAt' /\ sample'[p] >= gap'[p] - Carry
    BY <1>1, <1>2, <1>3, <1>7, TimesAssumption DEF SilenceInv
  <1> QED
    BY <1>4, <1>5, <1>6, <1>7 DEF SilenceInv

\* Without an outage a poll that nothing changed under is a good one.
LEMMA GoodPoll ==
    ASSUME TypeOK, PollInv, SilenceInv, Paths \ Edited # {}, outages = 0, ~pollDue
    PROVE  ~PageMissing /\ ~CallFails /\ ~SnapshotFails
  <1>1. ~PageMissing
    BY DEF PollInv, PageMissing, Exists
  <1>2. ~CallFails
    BY DEF PollInv, CallFails
  <1>3. ~SnapshotFails
    BY NeverEmpty DEF PollInv, SnapshotFails
  <1> QED
    BY <1>1, <1>2, <1>3

\* A good poll drops the error of a path that has been absent for too long.
LEMMA RecordDrops ==
    ASSUME TypeOK, SilenceInv, RecordPoll
    PROVE  /\ \A p \in DOMAIN errorAt' : errorAt'[p] >= Least(gap[p], Carry)
           /\ \A p \in Paths : gap[p] \in Nat /\ (gap[p] >= Carry => p \notin DOMAIN errorAt')
  <1>1. DOMAIN errorAt' = InError \union Carried
        /\ \A p \in DOMAIN errorAt' : errorAt'[p] = IF p \in InError THEN 0 ELSE errorAt[p]
    BY DEF RecordPoll
  <1>2. ASSUME NEW p \in InError PROVE p \in Paths /\ gap[p] = 0
    <2>1. p \in Paths /\ p \in DOMAIN got
      BY <1>2 DEF InError, TypeOK
    <2>2. gap[p] \in Nat
      BY <2>1, TimesAssumption DEF TypeOK, MaxGap
    <2> QED
      BY <2>1, <2>2 DEF SilenceInv
  <1>3. ASSUME NEW p \in Carried
        PROVE  p \in Paths /\ errorAt[p] < Carry /\ errorAt[p] >= Least(gap[p], Carry)
               /\ errorAt[p] \in Nat
    BY TimesAssumption DEF Carried, TypeOK, SilenceInv
  <1>4. ASSUME NEW p \in DOMAIN errorAt'
        PROVE  errorAt'[p] >= Least(gap[p], Carry) /\ gap[p] < Carry
    <2>1. p \in Paths /\ gap[p] \in Nat
      BY <1>1, <1>2, <1>3, TimesAssumption DEF TypeOK, MaxGap
    <2>2. CASE p \in InError
      BY <2>2, <1>1, <1>2, TimesAssumption DEF Least
    <2>3. CASE p \notin InError
      BY <2>1, <2>3, <1>1, <1>3, TimesAssumption DEF Least
    <2> QED
      BY <2>2, <2>3
  <1>5. \A p \in Paths : gap[p] \in Nat /\ (gap[p] >= Carry => p \notin DOMAIN errorAt')
    BY <1>4, TimesAssumption DEF TypeOK, MaxGap
  <1> QED
    BY <1>4, <1>5

LEMMA PollSilenceInv ==
    ASSUME TypeOK, PollInv, SilenceInv, Paths \ Edited # {},
           \/ StartPoll \/ FetchPage \/ PageMissing \/ CallFails
           \/ EmptyList \/ SnapshotFails \/ RecordPoll
    PROVE  SilenceInv'
  <1> USE DEF authentik
  <1>1. UNCHANGED <<file, status, gap, sample, outages>>
    BY DEF StartPoll, FetchPage, PageMissing, CallFails, EmptyList, SnapshotFails,
       RecordFailure, RecordPoll, trouble
  <1>2. \A p \in Paths : gap[p] > 0 => p \notin DOMAIN got'
    <2>1. CASE StartPoll \/ EmptyList
      BY <2>1 DEF StartPoll, EmptyList, fetched, SilenceInv
    <2>2. CASE FetchPage
      BY <2>2 DEF FetchPage, Page, Listed, SilenceInv
    <2>3. CASE PageMissing \/ CallFails \/ SnapshotFails \/ RecordPoll
      <3>1. got' = Nothing
        BY <2>3 DEF PageMissing, CallFails, SnapshotFails, RecordFailure, RecordPoll, NoPages
      <3> QED
        BY <3>1, NothingTyped
    <2> QED
      BY <2>1, <2>2, <2>3
  <1>3. CASE RecordPoll
    <2>1. \A p \in DOMAIN errorAt' : errorAt'[p] >= Least(gap[p], Carry)
      BY <1>3, RecordDrops
    <2>2. \A p \in Paths : gap[p] \in Nat /\ (gap[p] >= Carry => p \notin DOMAIN errorAt')
      BY <1>3, RecordDrops
    <2> QED
      BY <1>1, <1>2, <2>1, <2>2, TimesAssumption DEF SilenceInv
  <1>4. CASE ~RecordPoll
    <2>1. errorAt' = errorAt
      BY <1>4 DEF StartPoll, FetchPage, PageMissing, CallFails, EmptyList, SnapshotFails,
         RecordFailure, state
    <2>2. outages = 0 => ~QuarterOver'
      BY <1>4, GoodPoll DEF StartPoll, FetchPage, EmptyList, PageMissing, CallFails,
         SnapshotFails, RecordFailure, QuarterOver, fetched
    <2> QED
      BY <1>1, <1>2, <2>1, <2>2 DEF SilenceInv
  <1> QED
    BY <1>3, <1>4

LEMMA TickSilenceInv ==
    ASSUME TypeOK, PollInv, SilenceInv, ErrorsAreKnown, Tick
    PROVE  SilenceInv'
  <1>1. UNCHANGED <<file, status, stage, got, outages>> /\ stage = "sleep" /\ pollDue'
        /\ DOMAIN errorAt' = DOMAIN errorAt /\ QuarterOver
    BY DEF Tick, QuarterOver, fetched, trouble
  <1>2. DOMAIN got = {}
    BY <1>1, NothingTyped DEF PollInv
  <1>3. ASSUME NEW p \in Paths
        PROVE  /\ gap[p] \in Nat /\ gap'[p] \in Nat /\ gap'[p] <= gap[p] + 1
               /\ gap'[p] <= Carry + Window
               /\ gap'[p] > 0 => status[p] = "absent"
    BY TimesAssumption DEF Tick, TypeOK, Least, MaxGap
  <1>4. \A p \in DOMAIN errorAt' : errorAt'[p] >= Least(gap'[p], Carry)
    <2> SUFFICES ASSUME NEW p \in DOMAIN errorAt PROVE errorAt'[p] >= Least(gap'[p], Carry)
      BY <1>1
    <2>1. p \in Paths /\ errorAt[p] \in Nat /\ errorAt[p] >= Least(gap[p], Carry)
      BY TimesAssumption DEF TypeOK, SilenceInv
    <2>2. errorAt'[p] = Least(errorAt[p] + 1, Carry)
      BY DEF Tick
    <2> QED
      BY <2>1, <2>2, <1>3, TimesAssumption DEF Least
  <1>5. ASSUME outages = 0, NEW p \in Paths, gap'[p] > Carry
        PROVE  p \notin DOMAIN errorAt /\ sample'[p] >= gap'[p] - Carry
    <2>1. gap[p] >= Carry
      BY <1>3, <1>5, TimesAssumption
    <2>2. p \notin DOMAIN errorAt
      BY <1>1, <1>5, <2>1 DEF SilenceInv
    <2>3. sample'[p] = Least(sample[p] + 1, Window)
      BY <2>2, ShownError DEF Tick
    <2>4. sample[p] \in Nat /\ (gap[p] > Carry => sample[p] >= gap[p] - Carry)
      BY <1>5, TimesAssumption DEF TypeOK, SilenceInv
    <2> QED
      BY <2>1, <2>2, <2>3, <2>4, <1>3, TimesAssumption DEF Least
  <1>6. ~QuarterOver'
    BY <1>1 DEF QuarterOver
  <1> QED
    BY <1>1, <1>2, <1>3, <1>4, <1>5, <1>6 DEF SilenceInv

LEMMA RestSilenceInv ==
    ASSUME TypeOK, SilenceInv, ErrorsAreKnown, OutageBegins \/ OutageEnds \/ Restart \/ Scrape
    PROVE  SilenceInv'
  <1> USE DEF authentik
  <1>1. CASE OutageBegins \/ OutageEnds
    <2>1. UNCHANGED <<file, status, gap, stage, got, pollDue, errorAt, sample>>
      BY <1>1 DEF OutageBegins, OutageEnds, fetched, state
    <2>2. outages' = 0 => outages = 0
      BY <1>1 DEF OutageBegins, OutageEnds, TypeOK
    <2> QED
      BY <2>1, <2>2 DEF SilenceInv, QuarterOver
  <1>2. CASE Restart
    <2>1. UNCHANGED <<file, status, gap, sample, outages>> /\ pollDue'
          /\ DOMAIN got' = {} /\ DOMAIN errorAt' = {}
      BY <1>2, NothingTyped DEF Restart, NoPages
    <2> QED
      BY <2>1 DEF SilenceInv, QuarterOver
  <1>3. CASE Scrape
    <2>1. UNCHANGED <<file, status, gap, stage, got, pollDue, errorAt, outages>>
      BY <1>3 DEF Scrape, fetched, state, trouble
    <2>2. \A p \in Paths : p \notin DOMAIN errorAt => sample'[p] = sample[p]
      BY <1>3, ShownError DEF Scrape
    <2> QED
      BY <2>1, <2>2 DEF SilenceInv, QuarterOver
  <1> QED
    BY <1>1, <1>2, <1>3

LEMMA StepSilenceInv ==
    ASSUME Paths \ Edited # {}
    PROVE  TypeOK /\ PollInv /\ ErrorsAreKnown /\ SilenceInv /\ [Next]_vars => SilenceInv'
  <1>1. ASSUME SilenceInv, UNCHANGED vars PROVE SilenceInv'
    BY <1>1 DEF SilenceInv, QuarterOver, vars, authentik, fetched, state, trouble
  <1> QED
    BY <1>1, NextCases, BlueprintsSilenceInv, PollSilenceInv, TickSilenceInv, RestSilenceInv

\* Without an outage, and as long as one blueprint is left alone, a path that
\* is gone has stopped alerting when Carry + Window quarters have gone by,
\* whatever happens to the others, and through restarts.
THEOREM StopsInTimeAlways == ASSUME Paths \ Edited # {} PROVE Spec => []StopsInTime
  <1>1. TypeOK /\ SilenceInv => StopsInTime
    <2> SUFFICES ASSUME TypeOK, SilenceInv, NEW p \in Paths, gap[p] >= Carry + Window,
                        outages = 0
                 PROVE  ~Firing(p)
      BY DEF StopsInTime, TypeOK
    <2>1. gap[p] \in Nat /\ sample[p] \in Nat
      BY TimesAssumption DEF TypeOK, MaxGap
    <2>2. gap[p] > Carry
      BY <2>1, TimesAssumption
    <2>3. sample[p] >= gap[p] - Carry
      BY <2>2 DEF SilenceInv
    <2> QED
      BY <2>1, <2>3, TimesAssumption DEF Firing
  <1> QED
    BY <1>1, InitSilenceInv, StepSilenceInv, TypeCorrect, PollInvariant, ErrorsKnown, PTL
       DEF Spec

\* Only a good poll ends with the exporter up in the last moment of a quarter.
LEMMA StepCarryEnds ==
    TypeOK /\ SilenceInv /\ CarryEnds /\ ErrorsAreKnown /\ ErrorsAreKnown' /\ [Next]_vars
        => CarryEnds'
  <1> SUFFICES ASSUME TypeOK, SilenceInv, CarryEnds, ErrorsAreKnown, ErrorsAreKnown', [Next]_vars,
                      QuarterOver', up' = 1, NEW p \in Paths, gap'[p] >= Carry
               PROVE  p \notin DOMAIN errorAt'
    BY ShownError DEF CarryEnds, Shown, ErrorsAreKnown
  <1>1. CASE RecordPoll
    BY <1>1, RecordDrops DEF RecordPoll, authentik
  <1>2. CASE ~RecordPoll
    <2>1. ~Restart /\ ~Tick
      BY DEF Restart, Tick, QuarterOver
    <2>2. UNCHANGED <<errorAt, up, stage, pollDue>>
      <3>1. CASE Next
        <4>1. ~\E q \in Paths : Apply(q) \/ Discover(q)
          BY DEF Apply, Discover, Changed, QuarterOver
        <4>2. ~ClearFailed /\ ~StartPoll /\ ~FetchPage /\ ~EmptyList
          BY DEF ClearFailed, Changed, StartPoll, FetchPage, EmptyList, QuarterOver
        <4>3. ~PageMissing /\ ~CallFails /\ ~SnapshotFails
          BY DEF PageMissing, CallFails, SnapshotFails, RecordFailure
        <4>4. CASE \E q \in Paths, what \in {"good", "bad", "gone"} : EditFile(q, what)
          BY <4>4 DEF EditFile, state
        <4>5. CASE OutageBegins \/ OutageEnds \/ Scrape
          BY <4>5 DEF OutageBegins, OutageEnds, Scrape, state
        <4> QED
          BY <1>2, <2>1, <3>1, <4>1, <4>2, <4>3, <4>4, <4>5, NextCases
      <3>2. CASE UNCHANGED vars
        BY <3>2 DEF vars, state
      <3> QED
        BY <3>1, <3>2
    <2>3. gap'[p] = gap[p] \/ gap'[p] = 0
      <3>1. CASE \/ \E q \in Paths : Apply(q) \/ Discover(q)
                 \/ \E q \in Paths, what \in {"good", "bad", "gone"} : EditFile(q, what)
                 \/ ClearFailed
        BY <3>1 DEF TypeOK, Apply, Discover, EditFile, ClearFailed
      <3>2. CASE UNCHANGED gap
        BY <3>2
      <3> QED
        BY <1>2, <2>1, <3>1, <3>2, NextCases DEF StartPoll, FetchPage, PageMissing, CallFails,
           EmptyList, SnapshotFails, RecordFailure, OutageBegins, OutageEnds, Scrape, authentik, vars
    <2>4. gap[p] >= Carry /\ QuarterOver /\ up = 1
      BY <2>2, <2>3, TimesAssumption DEF QuarterOver
    <2> QED
      BY <2>2, <2>4, ShownError DEF CarryEnds
  <1> QED
    BY <1>1, <1>2

\* As long as one blueprint is left alone, the carried error of a path that is
\* gone ends with the first good poll of the quarter in which the carry is over,
\* through failing polls and restarts.
THEOREM CarryEndsAlways == ASSUME Paths \ Edited # {} PROVE Spec => []CarryEnds
  <1>1. Init => CarryEnds
    <2>1. Init => \A p \in Paths : Shown(p) # "error"
      BY NothingTyped DEF Init, Shown
    <2> QED
      BY <2>1 DEF CarryEnds
  <1> QED
    BY <1>1, InitSilenceInv, StepSilenceInv, StepCarryEnds, TypeCorrect, PollInvariant,
       ErrorsKnown, PTL DEF Spec

-----------------------------------------------------------------------------
(* The alert of a blueprint that keeps failing. *)

LEMMA InitAlert == Init => AlertInv /\ ShownInv /\ CarryInv
  <1> SUFFICES ASSUME Init PROVE AlertInv /\ ShownInv /\ CarryInv
    OBVIOUS
  <1>1. DOMAIN errorAt = {} /\ known = {} /\ stage = "sleep" /\ pollDue
        /\ \A p \in Paths : status[p] = "successful" /\ gap[p] = 0
    BY NothingTyped DEF Init
  <1>2. AlertInv
    BY <1>1 DEF AlertInv, QuarterOver
  <1>3. ShownInv
    BY <1>1 DEF ShownInv
  <1>4. Lasting = {}
    BY <1>1 DEF Lasting
  <1>5. CarryInv
    BY <1>1, <1>4 DEF CarryInv, QuarterOver
  <1> QED
    BY <1>2, <1>3, <1>5

\* At the end of a quarter, an instance in error is shown if the last poll was
\* good.
LEMMA ErrorShown ==
    ASSUME PollInv, ErrorsAreKnown, QuarterOver, up = 1,
           NEW p \in Paths, status[p] = "error"
    PROVE  p \in DOMAIN errorAt
  <1>1. p \in DOMAIN instances /\ instances[p] = status[p]
    BY DEF PollInv, QuarterOver, Listed
  <1> QED
    BY <1>1 DEF ErrorsAreKnown

\* A step neither takes back a time of failing polls nor a restart.
LEMMA TroubleGrows ==
    ASSUME TypeOK, Next
    PROVE  /\ outages <= outages' /\ restarts <= restarts'
           /\ outages \in Nat /\ outages' \in Nat /\ restarts \in Nat /\ restarts' \in Nat
  <1>1. outages \in Nat /\ restarts \in Nat
    BY TimesAssumption DEF TypeOK
  <1>2. UNCHANGED trouble \/ OutageBegins \/ OutageEnds \/ Restart
    BY NextCases DEF Scrape, Tick, Apply, Discover, EditFile, ClearFailed, Changed, StartPoll,
       FetchPage, PageMissing, CallFails, EmptyList, SnapshotFails, RecordPoll
  <1> QED
    BY <1>1, <1>2 DEF trouble, OutageBegins, OutageEnds, Restart

\* A quarter ends with a good poll unless polls failed.
LEMMA StepUp ==
    ASSUME TypeOK, PollInv, SilenceInv, Paths \ Edited # {}, AlertInv, Next, outages' = 0,
           QuarterOver'
    PROVE  up' = 1
  <1>1. outages = 0
    BY TroubleGrows
  <1>2. CASE UNCHANGED <<stage, pollDue, up>>
    BY <1>1, <1>2 DEF AlertInv, QuarterOver
  <1>3. CASE RecordPoll
    BY <1>3 DEF RecordPoll
  <1>4. CASE PageMissing \/ CallFails \/ SnapshotFails
    BY <1>1, <1>4, GoodPoll DEF PageMissing, CallFails, SnapshotFails, RecordFailure, QuarterOver
  <1>5. UNCHANGED <<stage, pollDue, up>> \/ RecordPoll \/ PageMissing \/ CallFails \/ SnapshotFails
    BY NextCases DEF OutageBegins, OutageEnds, Restart, Scrape, Tick, Apply, Discover, EditFile,
       ClearFailed, Changed, StartPoll, FetchPage, EmptyList, state, QuarterOver, TypeOK
  <1> QED
    BY <1>2, <1>3, <1>4, <1>5

\* What each step does to an instance and to what the alert looks back at.
LEMMA SampleStep ==
    ASSUME TypeOK, Next, ~Tick, NEW p \in Paths
    PROVE  sample'[p] = sample[p] \/ sample'[p] = 0
  <1>1. UNCHANGED sample \/ Scrape
    BY NextCases DEF OutageBegins, OutageEnds, Restart, Apply, Discover, EditFile,
       ClearFailed, Changed, StartPoll, FetchPage, PageMissing, CallFails, EmptyList,
       SnapshotFails, RecordFailure, RecordPoll
  <1> QED
    BY <1>1 DEF Scrape

LEMMA StatusStep ==
    ASSUME TypeOK, Next, ~Tick, NEW p \in Paths
    PROVE  \/ status'[p] = status[p] /\ gap'[p] = gap[p] /\ (moved' = moved \/ moved')
           \/ status'[p] # "absent" /\ moved' /\ gap'[p] = 0
           \/ status'[p] # "absent" /\ moved' /\ status[p] # "absent"
           \/ status'[p] = "absent" /\ gap'[p] = 0 /\ status[p] = "error" /\ ~moved
  <1>1. CASE UNCHANGED <<status, gap, moved>>
    BY <1>1
  <1>2. CASE \E q \in Paths : Apply(q) \/ Discover(q)
    BY <1>2 DEF Apply, Discover, Outcome, TypeOK
  <1>3. CASE ClearFailed
    BY <1>3 DEF ClearFailed
  <1> QED
    BY <1>1, <1>2, <1>3, NextCases DEF OutageBegins, OutageEnds, Restart, EditFile, Scrape,
       StartPoll, FetchPage, PageMissing, CallFails, EmptyList, SnapshotFails, RecordFailure,
       RecordPoll, authentik

\* As long as no poll has failed for good, the alert looks back no further than
\* the deletion.
LEMMA StepAlertInv ==
    ASSUME TypeOK, PollInv, ErrorsAreKnown, SilenceInv, Paths \ Edited # {}, AlertInv, Next
    PROVE  AlertInv'
  <1> SUFFICES ASSUME outages' = 0 PROVE AlertInv'
    BY DEF AlertInv
  <1>1. outages = 0
    BY TroubleGrows
  <1>2. QuarterOver' => up' = 1
    BY StepUp
  <1>3. ASSUME NEW p \in Paths
        PROVE  /\ status'[p] = "error" /\ ~moved' => sample'[p] = 0
               /\ status'[p] = "absent" => sample'[p] <= gap'[p]
    <2>1. gap[p] \in 0..MaxGap /\ sample[p] \in 0..Window /\ MaxGap \in Nat /\ moved \in BOOLEAN
      BY TimesAssumption DEF TypeOK, MaxGap
    <2>2. /\ status[p] = "error" /\ ~moved => sample[p] = 0
          /\ status[p] = "absent" => sample[p] <= gap[p]
      BY <1>1 DEF AlertInv
    <2>3. CASE Tick
      <3>1. QuarterOver /\ status' = status
        BY <2>3 DEF Tick
      <3>2. up = 1
        BY <1>1, <3>1 DEF AlertInv
      <3>3. sample'[p] = IF Shown(p) = "error" THEN 0 ELSE Least(sample[p] + 1, Window)
        BY <2>3 DEF Tick
      <3>4. status[p] = "absent" => gap'[p] = Least(gap[p] + 1, MaxGap)
        BY <2>3 DEF Tick
      <3>5. status[p] = "error" => sample'[p] = 0
        BY <3>1, <3>2, <3>3, ErrorShown, ShownError
      <3>6. status[p] = "absent" => sample'[p] <= gap'[p]
        BY <2>1, <2>2, <3>3, <3>4, TimesAssumption DEF Least, MaxGap
      <3> QED
        BY <3>1, <3>5, <3>6
    <2>4. CASE ~Tick
      <3>1. sample'[p] = sample[p] \/ sample'[p] = 0
        BY <2>4, SampleStep
      <3>2. \/ status'[p] = status[p] /\ gap'[p] = gap[p] /\ (moved' = moved \/ moved')
            \/ status'[p] # "absent" /\ moved'
            \/ status'[p] = "absent" /\ gap'[p] = 0 /\ status[p] = "error" /\ ~moved
        BY <2>4, StatusStep
      <3> QED
        BY <2>1, <2>2, <3>1, <3>2
    <2> QED
      BY <2>3, <2>4
  <1> QED
    BY <1>2, <1>3 DEF AlertInv

\* A path carries the errors of its poll; a step that is not a poll's record
\* and not a restart leaves what is carried, but for its age.
LEMMA CarriedStep ==
    ASSUME TypeOK, Next, ~Tick, ~RecordPoll, ~Restart
    PROVE  UNCHANGED <<errorAt, known>>
  BY NextCases DEF OutageBegins, OutageEnds, Scrape, Apply, Discover, EditFile, ClearFailed,
     Changed, StartPoll, FetchPage, PageMissing, CallFails, EmptyList, SnapshotFails,
     RecordFailure, state

LEMMA StepShownInv ==
    ASSUME TypeOK, PollInv, ErrorsAreKnown, SilenceInv, Paths \ Edited # {}, ShownInv, Next
    PROVE  ShownInv'
  <1>1. ASSUME NEW p \in DOMAIN errorAt' PROVE errorAt'[p] = 0 \/ sample'[p] = 0
    <2>1. p \in DOMAIN errorAt => p \in Paths /\ (errorAt[p] = 0 \/ sample[p] = 0)
      BY DEF ShownInv, TypeOK
    <2>2. CASE Tick
      <3>1. p \in DOMAIN errorAt /\ Shown(p) = "error"
        BY <2>2, <1>1, ShownError DEF Tick
      <3> QED
        BY <2>1, <2>2, <3>1 DEF Tick
    <2>3. CASE RecordPoll
      BY <1>1, <2>1, <2>3 DEF RecordPoll, Carried
    <2>4. CASE Restart
      BY <1>1, <2>4, NothingTyped DEF Restart
    <2>5. CASE ~Tick /\ ~RecordPoll /\ ~Restart
      BY <1>1, <2>1, <2>5, CarriedStep, SampleStep
    <2> QED
      BY <2>2, <2>3, <2>4, <2>5
  <1>2. ASSUME NEW p \in Paths, status'[p] = "absent", file'[p] # "gone" PROVE gap'[p] <= Cycle
    <2>1. file[p] # "gone"
      BY <1>2, NextCases DEF OutageBegins, OutageEnds, Scrape, Apply, Discover, EditFile,
         ClearFailed, Changed, StartPoll, FetchPage, PageMissing, CallFails, EmptyList,
         SnapshotFails, RecordFailure, RecordPoll, Restart, Tick, authentik, TypeOK
    <2>2. gap[p] \in Nat /\ (status[p] = "absent" => gap[p] <= Cycle)
      BY <2>1, TimesAssumption DEF ShownInv, TypeOK, MaxGap
    <2>3. CASE Tick
      <3>1. status[p] = "absent" /\ gap[p] < Cycle
        BY <1>2, <2>1, <2>2, <2>3, TimesAssumption DEF Tick, Overdue
      <3>2. gap'[p] = Least(gap[p] + 1, MaxGap)
        BY <2>3, <3>1 DEF Tick
      <3> QED
        BY <2>2, <3>1, <3>2, TimesAssumption DEF Least, MaxGap
    <2>4. CASE ~Tick
      BY <1>2, <2>2, <2>4, StatusStep, TimesAssumption
    <2> QED
      BY <2>3, <2>4
  <1>3. ASSUME stage' = "fetch", page' # 1 PROVE count' # 0
    <2>1. CASE FetchPage
      BY <1>3, <2>1, NeverEmpty DEF FetchPage, ShownInv
    <2>2. CASE UNCHANGED <<stage, page, count>>
      BY <1>3, <2>2 DEF ShownInv
    <2>3. stage' # "fetch" \/ (stage = "sleep" /\ page' = page)
          \/ FetchPage \/ UNCHANGED <<stage, page, count>>
      BY NextCases DEF OutageBegins, OutageEnds, Scrape, Apply, Discover, EditFile,
         ClearFailed, Changed, StartPoll, PageMissing, CallFails, EmptyList,
         SnapshotFails, RecordFailure, RecordPoll, Restart, Tick, fetched
    <2> QED
      BY <1>3, <2>1, <2>2, <2>3 DEF PollInv
  <1> QED
    BY <1>1, <1>2, <1>3 DEF ShownInv

\* A path that is to last was to last before, unless a poll has just seen it in
\* error.
LEMMA LastingStep ==
    ASSUME TypeOK, Next, NEW p \in Lasting'
    PROVE  /\ p \in Paths
           /\ p \in Lasting \/ (RecordPoll /\ p \in InError)
           /\ RecordPoll => p \in InError \/ (p \in Lasting /\ p \notin DOMAIN got)
  <1>1. p \in known' /\ (status'[p] # "absent" \/ file'[p] # "gone")
    BY DEF Lasting
  <1>2. CASE RecordPoll
    <2>1. UNCHANGED <<status, file>>
      BY <1>2 DEF RecordPoll, authentik
    <2>2. p \in InError \/ (p \in known /\ p \notin DOMAIN got)
      BY <1>1, <1>2 DEF RecordPoll
    <2> QED
      BY <1>1, <1>2, <2>1, <2>2 DEF Lasting, InError, TypeOK
  <1>3. CASE ~RecordPoll
    <2>1. known' = known
      BY <1>3, NextCases DEF OutageBegins, OutageEnds, Scrape, Apply, Discover, EditFile,
         ClearFailed, Changed, StartPoll, FetchPage, PageMissing, CallFails, EmptyList,
         SnapshotFails, RecordFailure, Restart, Tick
    <2>2. p \in Paths
      BY <1>1, <2>1 DEF TypeOK
    <2>3. status[p] = "absent" /\ file[p] = "gone" => status'[p] = "absent" /\ file'[p] = "gone"
      BY <2>2, NextCases DEF OutageBegins, OutageEnds, Scrape, Apply, Discover, EditFile,
         ClearFailed, StartPoll, FetchPage, PageMissing, CallFails, EmptyList,
         SnapshotFails, RecordFailure, RecordPoll, Restart, Tick, authentik, TypeOK
    <2> QED
      BY <1>1, <1>3, <2>1, <2>2, <2>3 DEF Lasting
  <1> QED
    BY <1>2, <1>3

LEMMA OldestBound ==
    ASSUME TypeOK, ShownInv, NEW p \in Lasting
    PROVE  p \in Paths /\ Oldest(p) \in Nat /\ Oldest(p) <= Cycle + 1
  <1>1. p \in Paths /\ gap[p] \in Nat
    BY TimesAssumption DEF Lasting, TypeOK, MaxGap
  <1>2. status[p] = "absent" => gap[p] <= Cycle
    BY <1>1 DEF Lasting, ShownInv
  <1> QED
    BY <1>1, <1>2, TimesAssumption DEF Oldest

\* While polls have not failed yet, or fail, a known error is carried.
LEMMA StepCarried ==
    ASSUME TypeOK, ShownInv, CarryInv, Next, Cycle + 1 < Carry,
           restarts' = 0, outages' <= 1, outages' = 0 \/ outage'
    PROVE  Lasting' \subseteq DOMAIN errorAt'
  <1>1. restarts = 0 /\ outages <= 1 /\ outages \in Nat
    BY TroubleGrows
  <1>2. outages = 0 \/ outage
    <2>1. CASE OutageBegins
      BY <2>1, <1>1 DEF OutageBegins
    <2>2. CASE ~OutageBegins
      <3>1. outages' = outages /\ (outage' => outage)
        BY <2>2, NextCases DEF OutageEnds, Scrape, Apply, Discover, EditFile, ClearFailed, Changed,
           StartPoll, FetchPage, PageMissing, CallFails, EmptyList, SnapshotFails,
           RecordFailure, RecordPoll, Restart, Tick, trouble
      <3> QED
        BY <3>1
    <2> QED
      BY <2>1, <2>2
  <1>3. Lasting \subseteq DOMAIN errorAt
    BY <1>1, <1>2 DEF CarryInv
  <1> SUFFICES ASSUME NEW p \in Lasting' PROVE p \in DOMAIN errorAt'
    OBVIOUS
  <1>4. CASE RecordPoll
    <2>1. DOMAIN errorAt' = InError \union Carried
      BY <1>4 DEF RecordPoll
    <2>2. CASE p \in InError
      BY <2>1, <2>2
    <2>3. CASE p \notin InError
      <3>1. p \in Lasting /\ p \notin DOMAIN got /\ p \in DOMAIN errorAt
        BY <1>3, <1>4, <2>3, LastingStep
      <3>2. errorAt[p] \in Nat
        BY <3>1 DEF TypeOK
      <3>3. CASE outages = 0
        <4>1. errorAt[p] <= Oldest(p)
          BY <1>1, <3>1, <3>3 DEF CarryInv
        <4> QED
          BY <2>1, <3>1, <3>2, <4>1, OldestBound, TimesAssumption DEF Carried
      <3>4. CASE outage
        <4>1. errorAt[p] < Carry
          BY <1>1, <1>4, <3>1, <3>4 DEF CarryInv, RecordPoll
        <4> QED
          BY <2>1, <3>1, <4>1 DEF Carried
      <3> QED
        BY <1>2, <3>3, <3>4
    <2> QED
      BY <2>2, <2>3
  <1>5. CASE ~RecordPoll
    <2>1. p \in Lasting
      BY <1>5, LastingStep
    <2>2. ~Restart
      BY <1>1 DEF Restart
    <2>3. DOMAIN errorAt' = DOMAIN errorAt
      BY <1>5, <2>2, CarriedStep DEF Tick
    <2> QED
      BY <1>3, <2>1, <2>3
  <1> QED
    BY <1>4, <1>5

\* ... and it is no older than what the instance has gone through since.
LEMMA StepAge ==
    ASSUME TypeOK, PollInv, SilenceInv, Paths \ Edited # {}, AlertInv, ShownInv, CarryInv, Next,
           restarts' = 0, outages' = 0, NEW p \in Lasting', p \in DOMAIN errorAt'
    PROVE  errorAt'[p] <= Oldest(p)'
  <1>1. restarts = 0 /\ outages = 0 /\ ~Restart
    BY TroubleGrows DEF Restart
  <1>2. p \in Paths /\ gap[p] \in 0..MaxGap /\ gap'[p] \in 0..MaxGap /\ MaxGap \in Nat
        /\ moved \in BOOLEAN /\ moved' \in BOOLEAN
    BY LastingStep, StepTypeOK, TimesAssumption DEF TypeOK, MaxGap
  <1>3. Oldest(p)' \in Nat
    BY <1>2, TimesAssumption DEF Oldest
  <1>4. CASE p \in Lasting /\ p \in DOMAIN errorAt
    <2>1. errorAt[p] \in Nat /\ errorAt[p] <= Oldest(p) /\ errorAt[p] \in 0..Carry
      BY <1>1, <1>4 DEF CarryInv, TypeOK
    <2>2. Oldest(p) \in Nat /\ Oldest(p) <= Cycle + 1
      BY <1>4, OldestBound
    <2>3. CASE Tick
      <3>1. errorAt'[p] = Least(errorAt[p] + 1, Carry) /\ QuarterOver /\ ~QuarterOver' /\ ~moved'
            /\ status' = status
        BY <1>4, <2>3 DEF Tick, QuarterOver
      <3>2. CASE status[p] = "absent"
        <4>1. Oldest(p)' = gap'[p] + 1 /\ Oldest(p) = gap[p] + 1
          BY <3>1, <3>2 DEF Oldest
        <4>2. gap'[p] = Least(gap[p] + 1, MaxGap)
          BY <1>2, <2>3, <3>2 DEF Tick
        <4> QED
          BY <1>2, <2>1, <3>1, <4>1, <4>2, TimesAssumption DEF Least, MaxGap
      <3>3. CASE status[p] # "absent"
        <4>1. Oldest(p)' = 1 /\ Oldest(p) = 0
          BY <3>1, <3>3 DEF Oldest
        <4> QED
          BY <2>1, <3>1, <4>1, TimesAssumption DEF Least
      <3> QED
        BY <3>2, <3>3
    <2>4. CASE RecordPoll
      <3>1. UNCHANGED <<status, gap, moved, pollDue>> /\ stage = "loaded" /\ stage' = "sleep"
        BY <2>4 DEF RecordPoll, authentik
      <3>2. errorAt'[p] = IF p \in InError THEN 0 ELSE errorAt[p]
        BY <2>4 DEF RecordPoll
      <3>3. CASE p \in InError
        BY <1>3, <3>2, <3>3
      <3>4. CASE p \notin InError
        <4>1. p \notin DOMAIN got
          BY <2>4, <3>4, LastingStep
        <4>2. QuarterOver' => status[p] = "absent"
          BY <1>1, <1>2, <2>4, <3>1, <4>1 DEF QuarterOver, PollInv, Listed, RecordPoll
        <4>3. Oldest(p)' = Oldest(p)
          BY <3>1, <4>2 DEF Oldest, QuarterOver
        <4> QED
          BY <2>1, <3>2, <3>4, <4>3
      <3> QED
        BY <3>3, <3>4
    <2>5. CASE ~Tick /\ ~RecordPoll
      <3>1. errorAt'[p] = errorAt[p]
        BY <1>1, <2>5, CarriedStep
      <3>2. QuarterOver' => QuarterOver
        BY <1>1, <2>5, GoodPoll, NextCases DEF OutageBegins, OutageEnds, Scrape, Apply, Discover,
           EditFile, ClearFailed, Changed, StartPoll, FetchPage, PageMissing, CallFails, EmptyList,
           SnapshotFails, RecordFailure, QuarterOver, fetched
      <3>3. status' = status \/ ~QuarterOver'
        BY <2>5, NextCases DEF OutageBegins, OutageEnds, Scrape, Apply, Discover, Restart,
           EditFile, ClearFailed, Changed, StartPoll, FetchPage, PageMissing, CallFails, EmptyList,
           SnapshotFails, RecordFailure, QuarterOver, authentik
      <3>4. Oldest(p) <= Oldest(p)'
        <4>1. CASE status'[p] = status[p] /\ gap'[p] = gap[p] /\ (moved' = moved \/ moved')
          BY <1>2, <2>2, <3>2, <4>1, TimesAssumption DEF Oldest
        <4>2. CASE status'[p] # "absent" /\ moved' /\ status[p] = "absent"
          <5>1. ~QuarterOver'
            BY <3>3, <4>2
          <5> QED
            BY <2>2, <4>2, <5>1 DEF Oldest
        <4>3. CASE status'[p] # "absent" /\ moved' /\ status[p] # "absent"
          BY <1>2, <2>2, <3>2, <4>3, TimesAssumption DEF Oldest
        <4>4. CASE status'[p] = "absent" /\ gap'[p] = 0 /\ status[p] = "error" /\ ~moved
          BY <1>2, <2>2, <4>4, TimesAssumption DEF Oldest
        <4> QED
          BY <1>2, <2>5, <4>1, <4>2, <4>3, <4>4, StatusStep
      <3> QED
        BY <1>3, <2>1, <2>2, <3>1, <3>4
    <2> QED
      BY <2>3, <2>4, <2>5
  <1>5. CASE RecordPoll /\ p \in InError
    BY <1>3, <1>5 DEF RecordPoll
  <1>6. p \in DOMAIN errorAt \/ RecordPoll
    BY <1>1, CarriedStep DEF Tick
  <1>7. RecordPoll => p \in InError \/ p \in DOMAIN errorAt
    BY DEF RecordPoll, Carried
  <1> QED
    BY <1>4, <1>5, <1>6, <1>7, LastingStep

\* The steps but a tick, a poll's record and a restart leave what is carried,
\* and let nothing new last.
LEMMA LastingKept ==
    ASSUME TypeOK, Next, ~RecordPoll, restarts' = 0
    PROVE  /\ Lasting' \subseteq Lasting /\ DOMAIN errorAt' = DOMAIN errorAt
           /\ ~Tick => errorAt' = errorAt
  <1>1. ~Restart
    BY TroubleGrows DEF Restart
  <1> QED
    BY <1>1, LastingStep, CarriedStep DEF Tick

\* A list that was read before polls failed drops no known error.
LEMMA StepLoaded ==
    ASSUME TypeOK, PollInv, ShownInv, CarryInv, Next, Cycle + 1 < Carry,
           restarts' = 0, outages' <= 1, outage', stage' = "loaded", count' # 0,
           NEW p \in Lasting'
    PROVE  errorAt'[p] < Carry
  <1>1. restarts = 0 /\ outages <= 1 /\ outages \in Nat
    BY TroubleGrows
  <1>2. ~RecordPoll /\ ~Tick /\ ~FetchPage /\ (EmptyList => count' = count)
    BY TimesAssumption DEF RecordPoll, Tick, QuarterOver, FetchPage, EmptyList, trouble, fetched
  <1>3. p \in Lasting /\ errorAt' = errorAt
    BY <1>2, LastingKept
  <1>4. CASE OutageBegins
    <2>1. outages = 0
      BY <1>1, <1>4 DEF OutageBegins
    <2>2. p \in DOMAIN errorAt /\ errorAt[p] <= Oldest(p)
      BY <1>1, <1>3, <2>1 DEF CarryInv
    <2>3. errorAt[p] \in Nat
      BY <2>2 DEF TypeOK
    <2> QED
      BY <1>3, <2>2, <2>3, OldestBound, TimesAssumption
  <1>5. CASE EmptyList
    <2>1. count = 0
      BY <1>5 DEF EmptyList, PollInv
    <2> QED
      BY <1>2, <1>5, <2>1
  <1>6. CASE ~OutageBegins /\ ~EmptyList
    <2>1. outage /\ stage = "loaded" /\ count # 0
      BY <1>2, <1>6, NextCases DEF OutageEnds, Scrape, Apply, Discover, Restart,
         EditFile, ClearFailed, Changed, StartPoll, PageMissing, CallFails,
         SnapshotFails, RecordFailure, NoPages, fetched, trouble
    <2> QED
      BY <1>1, <1>3, <2>1 DEF CarryInv
  <1> QED
    BY <1>4, <1>5, <1>6

\* An empty list is that of polls that fail: it is not recorded, and while the
\* last poll was not a good one, what is known is carried.
LEMMA StepEmpty ==
    ASSUME TypeOK, PollInv, SilenceInv, Paths \ Edited # {}, ShownInv, CarryInv, Next,
           restarts' = 0, outages' <= 1, stage' = "loaded", count' = 0
    PROVE  Lasting' \subseteq DOMAIN errorAt'
  <1>1. restarts = 0 /\ outages <= 1 /\ outages \in Nat
    BY TroubleGrows
  <1>2. ~RecordPoll
    BY DEF RecordPoll
  <1>3. CASE FetchPage
    BY <1>3, NeverEmpty DEF FetchPage, ShownInv
  <1>4. CASE EmptyList
    BY <1>1, <1>2, <1>4, LastingKept DEF CarryInv, EmptyList
  <1>5. CASE ~FetchPage /\ ~EmptyList
    <2>1. stage = "loaded" /\ count = 0
      BY <1>2, <1>5, NextCases DEF OutageBegins, OutageEnds, Scrape, Apply, Discover, Restart,
         EditFile, ClearFailed, Changed, StartPoll, PageMissing, CallFails, Tick,
         SnapshotFails, RecordFailure, NoPages, fetched, trouble
    <2> QED
      BY <1>1, <1>2, <2>1, LastingKept DEF CarryInv
  <1> QED
    BY <1>3, <1>4, <1>5

LEMMA StepDown ==
    ASSUME TypeOK, PollInv, SilenceInv, Paths \ Edited # {}, CarryInv, Next,
           restarts' = 0, outages' <= 1, QuarterOver', up' = 0
    PROVE  Lasting' \subseteq DOMAIN errorAt'
  <1>1. restarts = 0 /\ outages <= 1 /\ outages \in Nat
    BY TroubleGrows
  <1>2. ~RecordPoll /\ ~Tick
    BY DEF RecordPoll, Tick, QuarterOver
  <1>3. CASE PageMissing \/ CallFails \/ SnapshotFails
    <2>1. ~pollDue
      BY <1>3 DEF PageMissing, CallFails, SnapshotFails, RecordFailure, QuarterOver
    <2>2. outage \/ (stage = "loaded" /\ count = 0)
      BY <1>3, <2>1 DEF PageMissing, CallFails, SnapshotFails, PollInv, Exists
    <2> QED
      BY <1>1, <1>2, <2>2, LastingKept DEF CarryInv
  <1>4. CASE ~(PageMissing \/ CallFails \/ SnapshotFails)
    <2>1. UNCHANGED <<stage, pollDue, up>> \/ pollDue' \/ stage' # "sleep"
      BY <1>2, <1>4, NextCases DEF OutageBegins, OutageEnds, Scrape, Apply, Discover, Restart,
         EditFile, ClearFailed, Changed, StartPoll, FetchPage, EmptyList, state
    <2>2. QuarterOver /\ up = 0
      BY <2>1 DEF QuarterOver
    <2> QED
      BY <1>1, <1>2, <2>2, LastingKept DEF CarryInv
  <1> QED
    BY <1>3, <1>4

\* A known error that is not carried any more was shown when it was dropped.
LEMMA StepDropped ==
    ASSUME TypeOK, PollInv, ErrorsAreKnown, ShownInv, CarryInv, Next,
           restarts' = 0, outages' <= 1, NEW p \in Lasting' \ DOMAIN errorAt'
    PROVE  /\ status'[p] = "absent" => sample'[p] <= gap'[p]
           /\ status'[p] = "error" /\ ~moved' => sample'[p] = 0
  <1>1. restarts = 0 /\ outages <= 1 /\ outages \in Nat
    BY TroubleGrows
  <1>2. p \in Paths /\ gap[p] \in 0..MaxGap /\ sample[p] \in 0..Window /\ MaxGap \in Nat
        /\ gap'[p] \in 0..MaxGap
    BY LastingStep, StepTypeOK, TimesAssumption DEF TypeOK, MaxGap
  <1>3. CASE RecordPoll
    <2>1. UNCHANGED <<status, gap, moved, sample>>
      BY <1>3 DEF RecordPoll, authentik
    <2>2. p \in Lasting /\ p \notin DOMAIN got
      BY <1>3, LastingStep DEF RecordPoll
    <2>3. CASE p \in DOMAIN errorAt
      <3>1. errorAt[p] \in 0..Carry /\ ~(errorAt[p] < Carry)
        BY <1>3, <2>2, <2>3 DEF RecordPoll, Carried, TypeOK
      <3>2. sample[p] = 0
        BY <2>3, <3>1, TimesAssumption DEF ShownInv
      <3> QED
        BY <1>2, <2>1, <3>2
    <2>4. CASE p \notin DOMAIN errorAt
      BY <1>1, <2>1, <2>2, <2>4 DEF CarryInv
    <2> QED
      BY <2>3, <2>4
  <1>4. CASE ~RecordPoll
    <2>1. p \in Lasting \ DOMAIN errorAt
      BY <1>4, LastingKept
    <2>2. /\ status[p] = "absent" => sample[p] <= gap[p]
          /\ status[p] = "error" /\ ~moved => sample[p] = 0
      BY <1>1, <2>1 DEF CarryInv
    <2>3. CASE Tick
      <3>1. QuarterOver /\ status' = status
        BY <2>3 DEF Tick
      <3>2. up # 0
        BY <1>1, <2>1, <3>1 DEF CarryInv
      <3>3. status[p] # "error"
        BY <1>2, <2>1, <3>1, <3>2, ErrorShown DEF TypeOK
      <3>4. sample'[p] = Least(sample[p] + 1, Window)
        BY <1>2, <2>1, <2>3, ShownError DEF Tick
      <3>5. status[p] = "absent" => gap'[p] = Least(gap[p] + 1, MaxGap)
        BY <1>2, <2>3 DEF Tick
      <3> QED
        BY <1>2, <2>2, <3>1, <3>3, <3>4, <3>5, TimesAssumption DEF Least, MaxGap
    <2>4. CASE ~Tick
      <3>1. sample'[p] = sample[p] \/ sample'[p] = 0
        BY <1>2, <2>4, SampleStep
      <3>2. \/ status'[p] = status[p] /\ gap'[p] = gap[p] /\ (moved' = moved \/ moved')
            \/ status'[p] # "absent" /\ moved'
            \/ status'[p] = "absent" /\ gap'[p] = 0 /\ status[p] = "error" /\ ~moved
        BY <1>2, <2>4, StatusStep
      <3> QED
        BY <1>2, <2>2, <3>1, <3>2
    <2> QED
      BY <2>3, <2>4
  <1> QED
    BY <1>3, <1>4

LEMMA StepCarryInv ==
    ASSUME TypeOK, PollInv, ErrorsAreKnown, SilenceInv, Paths \ Edited # {}, AlertInv, ShownInv,
           CarryInv, Next, Cycle + 1 < Carry
    PROVE  CarryInv'
  <1> SUFFICES ASSUME restarts' = 0, outages' <= 1 PROVE CarryInv'
    BY DEF CarryInv
  <1>1. (outages' = 0 \/ outage') => Lasting' \subseteq DOMAIN errorAt'
    BY StepCarried
  <1>2. outages' = 0 => \A p \in Lasting' : errorAt'[p] <= Oldest(p)'
    <2> SUFFICES ASSUME outages' = 0, NEW p \in Lasting' PROVE errorAt'[p] <= Oldest(p)'
      OBVIOUS
    <2>1. p \in DOMAIN errorAt'
      BY <1>1
    <2> QED
      BY <2>1, StepAge
  <1>3. outage' /\ stage' = "loaded" /\ count' # 0 => \A p \in Lasting' : errorAt'[p] < Carry
    BY StepLoaded
  <1>4. QuarterOver' /\ up' = 0 => Lasting' \subseteq DOMAIN errorAt'
    BY StepDown
  <1>5. stage' = "loaded" /\ count' = 0 => Lasting' \subseteq DOMAIN errorAt'
    BY StepEmpty
  <1>6. \A p \in Lasting' \ DOMAIN errorAt' :
              /\ status'[p] = "absent" => sample'[p] <= gap'[p]
              /\ status'[p] = "error" /\ ~moved' => sample'[p] = 0
    BY StepDropped
  <1> QED
    BY <1>1, <1>2, <1>3, <1>4, <1>5, <1>6 DEF CarryInv

-----------------------------------------------------------------------------
\* At the end of a quarter, the alert of a blueprint that keeps failing looks
\* back far enough.
LEMMA StepNeverReset ==
    ASSUME TypeOK, PollInv, ErrorsAreKnown, SilenceInv, AlertInv, ShownInv, CarryInv, Next,
           Cycle < Window, NEW p \in Paths, Firing(p), Failing(p),
           ~(outages > 0 /\ (restarts > 0 \/ outages > 1 \/ p \notin known))
    PROVE  Firing(p)'
  <1>1. gap[p] \in Nat /\ sample[p] \in Nat /\ sample'[p] \in Nat /\ outages \in Nat
        /\ restarts \in Nat
    BY StepTypeOK, TimesAssumption DEF TypeOK, MaxGap
  <1>2. CASE ~Tick
    BY <1>1, <1>2, SampleStep, TimesAssumption DEF Firing
  <1>3. CASE Tick
    <2>1. QuarterOver /\ (Overdue(p) => FALSE)
          /\ sample'[p] = IF Shown(p) = "error" THEN 0 ELSE Least(sample[p] + 1, Window)
      BY <1>3 DEF Tick
    <2>2. CASE p \in DOMAIN errorAt
      BY <2>1, <2>2, ShownError, TimesAssumption DEF Firing
    <2>3. CASE p \notin DOMAIN errorAt
      <3>1. status[p] = "absent" => sample[p] <= gap[p]
        <4>1. CASE outages = 0
          BY <4>1 DEF AlertInv
        <4>2. CASE outages # 0
          <5>1. restarts = 0 /\ outages <= 1 /\ p \in known
            BY <1>1, <4>2
          <5>2. status[p] = "absent" => p \in Lasting
            BY <5>1 DEF Failing, Lasting
          <5> QED
            BY <2>3, <5>1, <5>2 DEF CarryInv
        <4> QED
          BY <4>1, <4>2
      <3>2. status[p] # "error"
        <4> SUFFICES ASSUME status[p] = "error" PROVE FALSE
          OBVIOUS
        <4>1. up = 0
          BY <2>1, <2>3, ErrorShown DEF TypeOK
        <4>2. outages # 0
          BY <2>1, <4>1 DEF AlertInv
        <4>3. restarts = 0 /\ outages <= 1 /\ p \in Lasting
          BY <1>1, <4>2 DEF Lasting
        <4> QED
          BY <2>1, <2>3, <4>1, <4>3 DEF CarryInv
      <3>3. status[p] = "absent" /\ file[p] = "bad"
        BY <3>2 DEF Failing
      <3>4. gap[p] < Cycle
        BY <1>1, <2>1, <3>3, TimesAssumption DEF Overdue
      <3> QED
        BY <1>1, <2>1, <3>1, <3>3, <3>4, TimesAssumption DEF Firing, Least
    <2> QED
      BY <2>2, <2>3
  <1> QED
    BY <1>2, <1>3

\* If the carry outlasts the cycle of deletion and re-creation and so does the
\* alert's window, the alert of a blueprint that keeps failing is not reset,
\* however often the files change and the process restarts while polls succeed,
\* and through a time in which they fail.
THEOREM AlertNotReset ==
    ASSUME Paths \ Edited # {}, Cycle < Window, Cycle + 1 < Carry
    PROVE  Spec => NeverReset
  <1> DEFINE Inv == /\ TypeOK /\ PollInv /\ ErrorsAreKnown /\ SilenceInv
                    /\ AlertInv /\ ShownInv /\ CarryInv
  <1>1. Init => Inv
    <2>1. Init => PollInv /\ ErrorsAreKnown
      BY NothingTyped DEF Init, PollInv, ErrorsAreKnown
    <2> QED
      BY <2>1, InitTypeOK, InitSilenceInv, InitAlert
  <1>2. Inv /\ [Next]_vars => Inv'
    <2> SUFFICES ASSUME Inv, [Next]_vars PROVE Inv'
      OBVIOUS
    <2>1. TypeOK' /\ PollInv' /\ ErrorsAreKnown' /\ SilenceInv'
      BY StepTypeOK, StepPollInv, StepErrorsAreKnown, StepSilenceInv
    <2>2. CASE Next
      BY <2>1, <2>2, StepAlertInv, StepShownInv, StepCarryInv
    <2>3. CASE UNCHANGED vars
      <3>1. AlertInv' /\ ShownInv'
        BY <2>3 DEF AlertInv, ShownInv, QuarterOver, vars, authentik, fetched, state, trouble
      <3>2. CarryInv'
        BY <2>3 DEF CarryInv, Lasting, Oldest, QuarterOver, vars, authentik, fetched, state,
           trouble
      <3> QED
        BY <2>1, <3>1, <3>2
    <2> QED
      BY <2>2, <2>3
  <1>3. Inv /\ [Next]_vars =>
          [\A p \in Paths :
              Firing(p) /\ Failing(p) /\ Failing(p)' =>
                \/ Firing(p)'
                \/ outages > 0 /\ (restarts > 0 \/ outages > 1 \/ p \notin known)]_vars
    BY StepNeverReset
  <1> HIDE DEF Inv
  <1> QED
    BY <1>1, <1>2, <1>3, PTL DEF Spec, NeverReset

=============================================================================
