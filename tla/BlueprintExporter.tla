------------------------- MODULE BlueprintExporter --------------------------
(***************************************************************************)
(* The exporter of authentik's blueprint states, from the blueprint files  *)
(* to the alert.                                                           *)
(*                                                                         *)
(* authentik applies blueprints, every hour it deletes the instances that  *)
(* failed, and every hour it creates those that are missing again.  The    *)
(* exporter's poll thread reads the list of instances page by page while   *)
(* that goes on and keeps, under a lock, what it has seen and which paths  *)
(* were in error lately.  Prometheus scrapes it, and the alert is on while *)
(* a path was shown in error within the alert's window.                    *)
(*                                                                         *)
(* Time is counted in quarters of an hour, and ages in place of times.  A  *)
(* poll (every minute) and a scrape (every half) are short beside that: no *)
(* quarter ends before a poll that began after the last change, and there  *)
(* is a scrape at its end.  A poll that nothing changed before would say   *)
(* the same again and is left out.                                         *)
(***************************************************************************)
EXTENDS Naturals, FiniteSets

CONSTANTS
    Paths,       \* of blueprints
    Rank,        \* their order in the list
    PageSize,    \* of the list
    Carry,       \* quarters an absent path stays in error (2 h)
    Window,      \* quarters the alert looks back (75 min)
    Cycle,       \* quarters until a missing instance is created again (1 h)
    Edited,      \* the paths whose files change
    MaxEdits,    \* bound on changes of blueprint files
    MaxOutages,  \* bound on times in which polls fail
    MaxRestarts  \* bound on restarts of the exporter

ASSUME PathsAssumption == IsFiniteSet(Paths) /\ Edited \subseteq Paths /\ Rank \in [Paths -> Nat]
ASSUME TimesAssumption ==
    /\ PageSize \in Nat \ {0}
    /\ Carry \in Nat \ {0} /\ Window \in Nat \ {0} /\ Cycle \in Nat \ {0}
    /\ MaxEdits \in Nat /\ MaxOutages \in Nat /\ MaxRestarts \in Nat

VARIABLES
    file,        \* path -> what its file is: "good", "bad" or "gone"
    edits,       \* changes of files so far
    status,      \* path -> the status of its instance, or "absent"
    gap,         \* path -> quarters its instance has been absent
    moved,       \* an instance was applied or created in this quarter
    stage,       \* of the poll thread: "sleep", "fetch" or "loaded"
    page,        \* the page it asks for
    got, count,  \* what the pages said: path -> status, and the first page's total
    pollDue,     \* no poll has begun since the last change
    instances,   \* BlueprintState: path -> status at the last good poll
    up,          \* whether the last poll was good
    errorAt,     \* path -> quarters since it was last seen in error
    sample,      \* path -> quarters since a scrape showed it in error
    outage,      \* polls fail at present
    outages,     \* such times so far
    restarts,    \* restarts so far
    known        \* history: the paths that were in error at the last good poll
                 \* that had them

authentik == <<file, edits, status, gap, moved>>
fetched == <<page, got, count>>
state == <<instances, up, errorAt>>
trouble == <<outage, outages, restarts>>
vars == <<authentik, stage, fetched, pollDue, state, sample, trouble, known>>

Statuses == {"successful", "error"}
Nothing == [p \in {} |-> "successful"]
NoErrors == [p \in {} |-> 0]
MaxGap == Carry + Window
Least(m, n) == IF m < n THEN m ELSE n

Init ==
    /\ file = [p \in Paths |-> "good"] /\ edits = 0
    /\ status = [p \in Paths |-> "successful"] /\ gap = [p \in Paths |-> 0] /\ moved = FALSE
    /\ stage = "sleep" /\ page = 1 /\ got = Nothing /\ count = 0
    /\ pollDue = TRUE
    /\ instances = Nothing /\ up = 0 /\ errorAt = NoErrors
    /\ sample = [p \in Paths |-> Window]
    /\ outage = FALSE /\ outages = 0 /\ restarts = 0
    /\ known = {}

NoPages == page' = 1 /\ got' = Nothing /\ count' = 0

-----------------------------------------------------------------------------
(* The blueprints.                                                         *)

Changed == pollDue' = TRUE /\ UNCHANGED <<stage, fetched, state, sample, trouble, known>>

\* Someone breaks a file, mends it, or removes it for good.
EditFile(p, what) ==
    /\ edits < MaxEdits
    /\ file[p] \notin {what, "gone"}
    /\ file' = [file EXCEPT ![p] = what]
    /\ edits' = edits + 1
    /\ UNCHANGED <<status, gap, moved>>
    /\ UNCHANGED <<pollDue, stage, fetched, state, sample, trouble, known>>

Outcome(p) == IF file[p] = "good" THEN "successful" ELSE "error"

Apply(p) ==
    /\ status[p] \notin {"absent", Outcome(p)}
    /\ status' = [status EXCEPT ![p] = Outcome(p)]
    /\ moved' = TRUE
    /\ UNCHANGED <<file, edits, gap>>
    /\ Changed

\* clear_failed_blueprints, hourly: not in the quarter in which an instance
\* was applied or created.
ClearFailed ==
    /\ ~moved
    /\ \E p \in Paths : status[p] = "error"
    /\ status' = [p \in Paths |-> IF status[p] = "error" THEN "absent" ELSE status[p]]
    /\ gap' = [p \in Paths |-> IF status[p] = "error" THEN 0 ELSE gap[p]]
    /\ UNCHANGED <<file, edits, moved>>
    /\ Changed

\* The discovery, for one path.
Discover(p) ==
    /\ status[p] = "absent" /\ file[p] # "gone" /\ gap[p] > 0
    /\ status' = [status EXCEPT ![p] = Outcome(p)]
    /\ gap' = [gap EXCEPT ![p] = 0]
    /\ moved' = TRUE
    /\ UNCHANGED <<file, edits>>
    /\ Changed

-----------------------------------------------------------------------------
(* The poll thread.                                                        *)

StartPoll ==
    /\ stage = "sleep" /\ pollDue
    /\ stage' = "fetch"
    /\ pollDue' = FALSE
    /\ UNCHANGED <<authentik, fetched, state, sample, trouble, known>>

\* The page of the list as it is now, whether one follows, and whether it is
\* there at all.
Listed == {p \in Paths : status[p] # "absent"}
Place(p) == Cardinality({q \in Listed : Rank[q] < Rank[p]})
Page == {p \in Listed : (page - 1) * PageSize <= Place(p) /\ Place(p) < page * PageSize}
LastPage == Cardinality(Listed) <= page * PageSize
Exists == page = 1 \/ (page - 1) * PageSize < Cardinality(Listed)

\* Variant of RecordFailure: without instances there are no errors.
RecordFailureClears ==
    /\ stage' = "sleep" /\ NoPages
    /\ up' = 0 /\ errorAt' = NoErrors
    /\ UNCHANGED <<authentik, pollDue, instances, sample, known>>

\* record_poll with no instances: the snapshot and its errors stay.
RecordFailure ==
    /\ stage' = "sleep" /\ NoPages
    /\ up' = 0
    /\ UNCHANGED <<authentik, pollDue, instances, errorAt, sample, known>>

\* Variant of FetchPage: there is always a next page.
FetchOn ==
    /\ stage = "fetch" /\ ~outage /\ Exists
    /\ got' = [p \in DOMAIN got \union Page |-> IF p \in Page THEN status[p] ELSE got[p]]
    /\ count' = IF page = 1 THEN Cardinality(Listed) ELSE count
    /\ page' = page + 1
    /\ UNCHANGED <<authentik, stage, pollDue, state, sample, trouble, known>>

\* fetch_all: a page, keyed by path, and the total if it is the first.
FetchPage ==
    /\ stage = "fetch" /\ ~outage /\ Exists
    /\ got' = [p \in DOMAIN got \union Page |-> IF p \in Page THEN status[p] ELSE got[p]]
    /\ count' = IF page = 1 THEN Cardinality(Listed) ELSE count
    /\ stage' = IF LastPage THEN "loaded" ELSE "fetch"
    /\ page' = IF LastPage THEN page ELSE page + 1
    /\ UNCHANGED <<authentik, pollDue, state, sample, trouble, known>>

\* The list has become shorter than the next page.
PageMissing ==
    /\ stage = "fetch" /\ ~Exists
    /\ RecordFailure
    /\ UNCHANGED trouble

OutageBegins ==
    /\ ~outage /\ outages < MaxOutages
    /\ outage' = TRUE /\ outages' = outages + 1
    /\ UNCHANGED <<authentik, stage, fetched, pollDue, state, sample, restarts, known>>

OutageEnds ==
    /\ outage
    /\ outage' = FALSE
    /\ UNCHANGED <<authentik, stage, fetched, pollDue, state, sample, outages, restarts, known>>

\* Variant of CallFails: the exception ends the thread.
CallFailsAndEnds ==
    /\ stage = "fetch" /\ outage
    /\ stage' = "ended"
    /\ UNCHANGED <<authentik, fetched, pollDue, state, sample, trouble, known>>

\* No answer, no JSON, a next page that does not advance, too many pages.
CallFails ==
    /\ stage = "fetch" /\ outage
    /\ RecordFailure
    /\ UNCHANGED trouble

\* The token has no permission any more: an empty list.
EmptyList ==
    /\ stage = "fetch" /\ page = 1 /\ outage
    /\ stage' = "loaded"
    /\ UNCHANGED <<authentik, fetched, pollDue, state, sample, trouble, known>>

\* load_snapshot: what was put together is not as many as there were, or there
\* is nothing.
SnapshotFails ==
    /\ stage = "loaded"
    /\ Cardinality(DOMAIN got) # count \/ count = 0
    /\ RecordFailure
    /\ UNCHANGED trouble

InError == {p \in DOMAIN got : got[p] = "error"}

\* Variants of Carried: whatever the poll says of the path; and for ever.
CarriedAnyway == {p \in DOMAIN errorAt : errorAt[p] < Carry}
CarriedForEver == DOMAIN errorAt \ DOMAIN got

\* Absent paths, while they were in error lately.
Carried == {p \in DOMAIN errorAt \ DOMAIN got : errorAt[p] < Carry}

RecordPoll ==
    /\ stage = "loaded"
    /\ Cardinality(DOMAIN got) = count /\ count # 0
    /\ stage' = "sleep" /\ NoPages
    /\ instances' = got /\ up' = 1
    /\ errorAt' = [p \in InError \union Carried |-> IF p \in InError THEN 0 ELSE errorAt[p]]
    /\ known' = InError \union (known \ DOMAIN got)
    /\ UNCHANGED <<authentik, pollDue, sample, trouble>>

\* The pod is replaced: a new process starts polling, with nothing.
Restart ==
    /\ restarts < MaxRestarts
    /\ restarts' = restarts + 1
    /\ stage' = "sleep" /\ NoPages
    /\ pollDue' = TRUE
    /\ instances' = Nothing /\ up' = 0 /\ errorAt' = NoErrors
    /\ UNCHANGED <<authentik, sample, outage, outages, known>>

-----------------------------------------------------------------------------
(* Prometheus and time.                                                    *)

\* What /metrics shows of a path; both under the lock.
Shown(p) ==
    IF p \in DOMAIN instances
    THEN IF p \in DOMAIN errorAt THEN "error" ELSE instances[p]
    ELSE IF p \in DOMAIN errorAt THEN "error" ELSE "nothing"

Scrape ==
    /\ sample' = [p \in Paths |-> IF Shown(p) = "error" THEN 0 ELSE sample[p]]
    /\ UNCHANGED <<authentik, stage, fetched, pollDue, state, trouble, known>>

\* The alert's condition: max_over_time(...{status="error"}[75m]).
Firing(p) == sample[p] < Window

\* A quarter has gone by, up to a last scrape at its end.
QuarterOver == stage = "sleep" /\ ~pollDue
Overdue(p) == status[p] = "absent" /\ file[p] # "gone" /\ gap[p] >= Cycle

Tick ==
    /\ QuarterOver
    /\ ~\E p \in Paths : Overdue(p)
    /\ gap' = [p \in Paths |-> IF status[p] = "absent" THEN Least(gap[p] + 1, MaxGap) ELSE 0]
    /\ errorAt' = [p \in DOMAIN errorAt |-> Least(errorAt[p] + 1, Carry)]
    /\ sample' = [p \in Paths |->
                    IF Shown(p) = "error" THEN 0 ELSE Least(sample[p] + 1, Window)]
    /\ moved' = FALSE /\ pollDue' = TRUE
    /\ UNCHANGED <<file, edits, status, stage, fetched, instances, up, trouble, known>>

PollThread ==
    StartPoll \/ FetchPage \/ PageMissing \/ CallFails \/ EmptyList \/ SnapshotFails \/ RecordPoll
Blueprints ==
    \/ \E p \in Paths : Apply(p) \/ Discover(p)
    \/ \E p \in Edited, what \in {"good", "bad", "gone"} : EditFile(p, what)
    \/ ClearFailed
Next == Blueprints \/ PollThread \/ OutageBegins \/ OutageEnds \/ Restart \/ Scrape \/ Tick

Spec == Init /\ [][Next]_vars

\* The threads and the tasks of authentik go on, and so does time.
FairSpec ==
    /\ Spec
    /\ WF_vars(PollThread) /\ WF_vars(Tick)
    /\ WF_vars(ClearFailed) /\ WF_vars(OutageEnds)
    /\ \A p \in Paths : WF_vars(Apply(p)) /\ WF_vars(Discover(p))

-----------------------------------------------------------------------------
(* Correctness.                                                            *)

TypeOK ==
    /\ file \in [Paths -> {"good", "bad", "gone"}] /\ edits \in 0..MaxEdits
    /\ status \in [Paths -> Statuses \union {"absent"}] /\ gap \in [Paths -> 0..MaxGap]
    /\ moved \in BOOLEAN
    /\ stage \in {"sleep", "fetch", "loaded"}
    /\ page \in Nat \ {0} /\ count \in Nat /\ DOMAIN got \subseteq Paths
    /\ got \in [DOMAIN got -> Statuses]
    /\ page = 1 \/ (page - 1) * PageSize < Cardinality(Paths)
    /\ pollDue \in BOOLEAN
    /\ DOMAIN instances \subseteq Paths /\ instances \in [DOMAIN instances -> Statuses]
    /\ DOMAIN errorAt \subseteq Paths /\ errorAt \in [DOMAIN errorAt -> 0..Carry]
    /\ up \in {0, 1}
    /\ sample \in [Paths -> 0..Window]
    /\ outage \in BOOLEAN /\ outages \in 0..MaxOutages /\ restarts \in 0..MaxRestarts
    /\ known \subseteq Paths

\* No path whose instance was healthy at the last good poll is shown in error,
\* and none that was in error is not: the carried errors are of absent paths
\* only (record_poll, _families).
ErrorsAreKnown ==
    \A p \in DOMAIN instances : p \in DOMAIN errorAt <=> instances[p] = "error"

\* A failing blueprint cannot hide: when a quarter ends and the exporter says
\* it is up, it shows the instances in error in error and the healthy ones not,
\* whatever changed between the pages of a poll.
QuarterTells ==
    QuarterOver /\ up = 1 =>
        \A p \in Paths :
            /\ status[p] = "error" => Shown(p) = "error"
            /\ status[p] = "successful" => Shown(p) # "error"

\* A blueprint keeps failing, whether its instance is there or not.
Failing(p) == status[p] = "error" \/ (status[p] = "absent" /\ file[p] = "bad")

\* The alert of a failing blueprint is not reset: not by the hourly deletion
\* and a list that changes while it is read, nor by a restart on top of that;
\* nor by polls that fail, however long, if a poll had seen it failing ("a dead
\* poll cannot silence the alerts", "a delete/re-create cycle cannot reset the
\* alert", exporter.py).  Failing polls can reset it together with a restart or
\* when they come a second time.
NeverReset ==
    [][\A p \in Paths :
        Firing(p) /\ Failing(p) /\ Failing(p)' =>
            \/ Firing(p)'
            \/ outages > 0 /\ (restarts > 0 \/ outages > 1 \/ p \notin known)]_vars

\* "The exporter carries the path's error state for 2h" and no longer: when a
\* quarter ends with the exporter up, no path that has been absent for that long
\* is shown in error, also after failed polls and restarts.
CarryEnds ==
    QuarterOver /\ up = 1 =>
        \A p \in Paths : gap[p] >= Carry => Shown(p) # "error"

\* Unless polls fail, a path that is gone stops alerting when the carried error
\* and then the alert's whole window have gone by: the code's own bound, an hour
\* over the runbook's.
StopsInTime ==
    \A p \in Paths : gap[p] >= Carry + Window => ~Firing(p) \/ outages > 0

\* A path that is gone stops alerting, also when polls failed for a while.
Stops == \A p \in Edited : file[p] = "gone" ~> ~Firing(p)

-----------------------------------------------------------------------------
(* Inductive invariants behind the safety properties. *)

\* What pages of an unchanged list are put together to: the statuses of the
\* instances, page after page, and then all of them.
PollInv ==
    /\ stage = "sleep" => page = 1
    /\ stage # "loaded" /\ page = 1 => got = Nothing /\ count = 0
    /\ outage => outages > 0
    /\ ~pollDue =>
        /\ stage = "fetch" =>
            /\ \A p \in DOMAIN got : p \in Listed /\ got[p] = status[p]
            /\ \A p \in Listed : Place(p) < (page - 1) * PageSize => p \in DOMAIN got
            /\ page # 1 => count = Cardinality(Listed) /\ Exists
        /\ stage = "loaded" =>
            \/ count = 0 /\ outages > 0
            \/ /\ count = Cardinality(Listed)
               /\ DOMAIN got = Listed
               /\ \A p \in Listed : got[p] = status[p]
        /\ stage = "sleep" /\ up = 1 =>
            DOMAIN instances = Listed /\ \A p \in Listed : instances[p] = status[p]

\* A path that is gone is not seen in error any more, its carried error is at
\* least as old as that and is dropped when it is too old, and what the alert
\* looks back at grows old with it.
SilenceInv ==
    /\ \A p \in Paths : gap[p] > 0 => status[p] = "absent" /\ p \notin DOMAIN got
    /\ \A p \in DOMAIN errorAt : errorAt[p] >= Least(gap[p], Carry)
    /\ \A p \in Paths \ Edited : file[p] = "good" /\ status[p] = "successful"
    /\ outages = 0 => \A p \in Paths :
        /\ gap[p] >= Carry /\ QuarterOver => p \notin DOMAIN errorAt
        /\ gap[p] > Carry => p \notin DOMAIN errorAt /\ sample[p] >= gap[p] - Carry

\* As long as no poll has failed for good: a quarter ends with a good poll; an
\* instance that was in error when the quarter began was shown; and what the
\* alert looks back at is no older than the gap that a deletion left.
AlertInv ==
    outages = 0 =>
        /\ QuarterOver => up = 1
        /\ \A p \in Paths : status[p] = "error" /\ ~moved => sample[p] = 0
        /\ \A p \in Paths : status[p] = "absent" => sample[p] <= gap[p]

\* A path that carries an error seen earlier has been shown since then; an
\* instance that is to be there again is not away for longer than the cycle; a
\* total is that of a list with something in it.
ShownInv ==
    /\ \A p \in DOMAIN errorAt : errorAt[p] = 0 \/ sample[p] = 0
    /\ \A p \in Paths : status[p] = "absent" /\ file[p] # "gone" => gap[p] <= Cycle
    /\ stage = "fetch" /\ page # 1 => count # 0

\* What becomes of a known error, unless polls fail twice or a restart forgets
\* it: it is carried until polls fail and while they do; after that, a path that
\* is not carried any more has been away since it was last shown, or is read
\* before the quarter is over.
Lasting == {p \in known : status[p] # "absent" \/ file[p] # "gone"}
Oldest(p) ==
    IF status[p] = "absent" THEN gap[p] + 1
    ELSE IF QuarterOver THEN 0
    ELSE IF moved THEN Cycle + 1 ELSE 1
CarryInv ==
    restarts = 0 /\ outages <= 1 =>
        /\ (outages = 0 \/ outage) => Lasting \subseteq DOMAIN errorAt
        /\ outages = 0 => \A p \in Lasting : errorAt[p] <= Oldest(p)
        /\ outage /\ stage = "loaded" /\ count # 0 => \A p \in Lasting : errorAt[p] < Carry
        /\ QuarterOver /\ up = 0 => Lasting \subseteq DOMAIN errorAt
        /\ stage = "loaded" /\ count = 0 => Lasting \subseteq DOMAIN errorAt
        /\ \A p \in Lasting \ DOMAIN errorAt :
              /\ status[p] = "absent" => sample[p] <= gap[p]
              /\ status[p] = "error" /\ ~moved => sample[p] = 0
=============================================================================
