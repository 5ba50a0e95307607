---------------------------- MODULE WarrantLoop ----------------------------
(***************************************************************************)
(* Privileged runs by request, approval and audit.                         *)
(*                                                                         *)
(* An agent runs request-run: it validates the request against the policy  *)
(* on main, mirrors it into the Warrant queue, retires the request it      *)
(* supersedes, comments on the PR, files an Approve task in heph, closes   *)
(* the superseded request's task and stamps the warrant id into its own.   *)
(* A human decides in Warrant, which dispatches the workflow.  Any agent   *)
(* runs verify-runs at any time: it lists the open Approve tasks, fetches  *)
(* Warrant's records, the forge's recent runs and the policy, in this      *)
(* order, and closes the tasks whose request is settled.                   *)
(*                                                                         *)
(* All requests here are for one workflow and one PR.  The policy's        *)
(* versions differ in the input that carries the approved SHA.  A sweep    *)
(* carries nothing from one task to the next, so a sweep here is that of   *)
(* one task.                                                               *)
(***************************************************************************)
EXTENDS Naturals, Sequences

CONSTANTS
    Filings,       \* executions of request-run, and their warrant ids
    Alike,         \* of each, those whose task has its title and contains its stamp
    Nobody,        \* no request
    MaxPolicy,     \* bound on renames of the binding input
    MaxRuns,       \* bound on workflow runs
    RunWindow,     \* how many of the newest runs the forge lists (50)
    Unread,        \* the policy could not be read
    PolicyFails,   \* whether verify-runs' read of the policy can fail
    MaxFaults      \* bound on failed calls and killed scripts

ASSUME NamesAssumption == Nobody \notin Filings /\ Unread \notin Nat
ASSUME AlikeAssumption ==
    Alike \in [Filings -> SUBSET Filings] /\ \A g \in Filings : g \in Alike[g]
ASSUME BoundsAssumption ==
    /\ MaxPolicy \in Nat /\ MaxRuns \in Nat /\ MaxFaults \in Nat
    /\ RunWindow \in Nat \ {0}
    /\ PolicyFails \in BOOLEAN

VARIABLES
    policy,        \* the version of warrant-policy.yaml on main
    runs,          \* the workflow's runs, oldest first
    pc,            \* where each request-run is
    input,         \* the policy version that names the input the request's SHA is in
    old,           \* the request it is to retire, then the one it has retired
    known,         \* whether it has got its warrant id
    record,        \* Warrant's record of each request
    task,          \* its Approve task: open, or who closed it on what evidence
    stamp,         \* whether the task's context names the warrant id
    filed,         \* the newest run that started a minute before the task or earlier
    phase, cur,    \* where the sweep is, and the task it looks at
    book, window, rule,  \* the records, runs and policy it has read
    faults         \* faults so far

request == <<pc, input, old, known>>
tasks == <<task, stamp, filed>>
reading == <<book, window, rule>>
sweep == <<phase, cur, reading>>
vars == <<policy, runs, request, record, tasks, sweep, faults>>

NothingDispatched == {"denied", "voided", "dispatch_failed"}
Status == {"none", "pending", "superseded", "approved", "dispatched"} \union NothingDispatched
Outcome == {"none", "success", "failure"} \union NothingDispatched
Run == [cause : Filings \union {Nobody}, carries : BOOLEAN,
        status : {"running", "success", "failure"}]
Record == [status : Status, run : 0..MaxRuns, outcome : Outcome,
           by : Filings \union {Nobody}]
NoRecord == [status |-> "none", run |-> 0, outcome |-> "none", by |-> Nobody]

Init ==
    /\ policy = 0 /\ runs = <<>>
    /\ pc = [f \in Filings |-> "idle"]
    /\ input = [f \in Filings |-> 0]
    /\ old = [f \in Filings |-> Nobody]
    /\ known = [f \in Filings |-> FALSE]
    /\ record = [f \in Filings |-> NoRecord]
    /\ task = [f \in Filings |-> "none"]
    /\ stamp = [f \in Filings |-> FALSE]
    /\ filed = [f \in Filings |-> 0]
    /\ phase = "idle" /\ cur = Nobody
    /\ book = NoRecord /\ window = <<>> /\ rule = Unread
    /\ faults = 0

Fault == faults < MaxFaults /\ faults' = faults + 1
Mirrored(f) == record[f].status # "none"

-----------------------------------------------------------------------------
(* request-run. *)

Goto(f, from, to) ==
    /\ pc[f] = from
    /\ pc' = [pc EXCEPT ![f] = to]

\* The request is validated against the policy on main: its SHA goes into the
\* input that the policy names.
Validate(f, g) ==
    /\ Goto(f, "idle", IF g = Nobody THEN "task" ELSE "supersede")
    /\ g # Nobody => Mirrored(g)
    /\ input' = [input EXCEPT ![f] = policy]
    /\ old' = [old EXCEPT ![f] = g]

\* The request is mirrored into Warrant's queue ...
File(f, g) ==
    /\ Validate(f, g)
    /\ record' = [record EXCEPT ![f].status = "pending"]
    /\ known' = [known EXCEPT ![f] = TRUE]
    /\ UNCHANGED <<policy, runs, tasks, sweep, faults>>

\* ... or "mirror failed (request still filed via PR+heph)": Warrant has not
\* got it, or its answer with the id is lost.
FileUnmirrored(f, g) ==
    /\ Validate(f, g)
    /\ Fault
    /\ record' \in {record, [record EXCEPT ![f].status = "pending"]}
    /\ UNCHANGED <<known, policy, runs, tasks, sweep>>

\* Warrant retires a request that is still pending.
Retire(f) ==
    /\ record[old[f]].status = "pending"
    /\ record' = [record EXCEPT ![old[f]].status = "superseded", ![old[f]].by = f]

\* Variant of Supersede: without a request of its own in Warrant.
SupersedeAnyway(f) ==
    /\ Goto(f, "supersede", "task")
    /\ Retire(f)
    /\ UNCHANGED <<policy, runs, input, known, old, tasks, sweep, faults>>

Supersede(f) ==
    /\ Goto(f, "supersede", "task")
    /\ known[f]
    /\ Retire(f)
    /\ UNCHANGED <<policy, runs, input, known, old, tasks, sweep, faults>>

\* Variant of SupersedeNot: the failure is not remembered.
SupersedeNotForgotten(f) ==
    /\ Goto(f, "supersede", "task")
    /\ ~known[f] \/ record[old[f]].status # "pending"
    /\ UNCHANGED <<policy, runs, input, known, old, record, tasks, sweep, faults>>

\* Not done, because this request has no warrant id, or refused.
SupersedeNot(f) ==
    /\ Goto(f, "supersede", "task")
    /\ ~known[f] \/ record[old[f]].status # "pending"
    /\ old' = [old EXCEPT ![f] = Nobody]
    /\ UNCHANGED <<policy, runs, input, known, record, tasks, sweep, faults>>

\* The answer is lost: Warrant has retired the request, or has not.
SupersedeFails(f) ==
    /\ Goto(f, "supersede", "task")
    /\ known[f]
    /\ Fault
    /\ Retire(f) \/ UNCHANGED record
    /\ old' = [old EXCEPT ![f] = Nobody]
    /\ UNCHANGED <<policy, runs, input, known, tasks, sweep>>

AfterTask(f) == IF old[f] = Nobody THEN "stamp" ELSE "close"

\* Variant of FileTask: counts the run that starts next.
FileTaskOneOff(f) ==
    /\ Goto(f, "task", AfterTask(f))
    /\ task' = [task EXCEPT ![f] = "open"]
    /\ \E n \in 0..Len(runs) : filed' = [filed EXCEPT ![f] = n + 1]
    /\ UNCHANGED <<policy, runs, input, known, old, record, stamp, sweep, faults>>

\* The comment is posted and the task filed.  Any run may have started within
\* the last minute.
FileTask(f) ==
    /\ Goto(f, "task", AfterTask(f))
    /\ task' = [task EXCEPT ![f] = "open"]
    /\ \E n \in 0..Len(runs) : filed' = [filed EXCEPT ![f] = n]
    /\ UNCHANGED <<policy, runs, input, known, old, record, stamp, sweep, faults>>

\* "request is PR-comment-only!"
TaskFails(f) ==
    /\ Goto(f, "task", AfterTask(f))
    /\ Fault
    /\ UNCHANGED <<policy, runs, input, known, old, record, tasks, sweep>>

\* The open tasks with the old request's title and with its stamp somewhere in
\* their context: #1 is in #12.
Matches(g) == {h \in Alike[g] : task[h] = "open" /\ stamp[h]}

\* The one match is closed; with none or several it is left to a human.
CloseOld(f) ==
    /\ Goto(f, "close", "stamp")
    /\ task' = [h \in Filings |->
                  IF Matches(old[f]) = {h} THEN "request-run" ELSE task[h]]
    /\ old' = [old EXCEPT ![f] = Nobody]
    /\ UNCHANGED <<policy, runs, input, known, record, stamp, filed, sweep, faults>>

Stamp(f) ==
    /\ Goto(f, "stamp", "ended")
    /\ stamp' = [stamp EXCEPT ![f] = known[f] /\ task[f] # "none"]
    /\ UNCHANGED <<policy, runs, input, known, old, record, task, filed, sweep, faults>>

\* The comment is refused (exit 1), or the script is killed between two calls.
Dies(f) ==
    /\ pc[f] \notin {"idle", "ended"}
    /\ Fault
    /\ pc' = [pc EXCEPT ![f] = "ended"]
    /\ old' = [old EXCEPT ![f] = Nobody]
    /\ UNCHANGED <<policy, runs, input, known, record, tasks, sweep>>

RequestRun(f) ==
    \/ \E g \in Filings \union {Nobody} : File(f, g) \/ FileUnmirrored(f, g)
    \/ Supersede(f) \/ SupersedeNot(f) \/ SupersedeFails(f) \/ FileTask(f)
    \/ TaskFails(f) \/ CloseOld(f) \/ Stamp(f) \/ Dies(f)

-----------------------------------------------------------------------------
(* Warrant, the forge, and the humans at both. *)

outside == <<request, tasks, sweep>>

NewRun(f) ==
    /\ Len(runs) < MaxRuns
    /\ runs' = Append(runs, [cause |-> f, status |-> "running",
                             carries |-> f # Nobody /\ input[f] = policy])

\* The binding input gets another name, in the workflow and in the policy.
RenameInput ==
    /\ policy < MaxPolicy /\ policy' = policy + 1
    /\ UNCHANGED <<runs, record, outside, faults>>

\* Somebody else's run of the workflow.
OtherRun ==
    /\ NewRun(Nobody)
    /\ UNCHANGED <<policy, record, outside, faults>>

\* A request without a warrant id is dispatched from the forge's page.
HandDispatch(f) ==
    /\ pc[f] \in {"close", "stamp", "ended"} /\ ~known[f]
    /\ \A i \in DOMAIN runs : runs[i].cause # f
    /\ NewRun(f)
    /\ UNCHANGED <<policy, record, outside, faults>>

RunEnds ==
    /\ \E i \in DOMAIN runs, s \in {"success", "failure"} :
          runs[i].status = "running" /\ runs' = [runs EXCEPT ![i].status = s]
    /\ UNCHANGED <<policy, record, outside, faults>>

Approve(f) ==
    /\ record[f].status = "pending"
    /\ record' = [record EXCEPT ![f].status = "approved"]
    /\ UNCHANGED <<policy, runs, outside, faults>>

\* The forge names the run it started, or answers without naming it.
DispatchRun(f) ==
    /\ record[f].status = "approved"
    /\ NewRun(f)
    /\ \E n \in {0, Len(runs')} :
          record' = [record EXCEPT ![f].status = "dispatched", ![f].run = n]
    /\ UNCHANGED <<policy, outside, faults>>

\* Warrant settles at once what never gets a run (it did not always).
SettleNow(f, from, to) ==
    /\ record[f].status = from
    /\ \E o \in {to, "none"} :
          record' = [record EXCEPT ![f].status = to, ![f].outcome = o]
    /\ UNCHANGED <<policy, runs, outside, faults>>

\* The forge's webhook tells how the run ended.
Settle(f) ==
    /\ record[f].run # 0 /\ record[f].outcome = "none"
    /\ runs[record[f].run].status # "running"
    /\ record' = [record EXCEPT ![f].outcome = runs[record[f].run].status]
    /\ UNCHANGED <<policy, runs, outside, faults>>

Warrant(f) ==
    \/ Approve(f) \/ DispatchRun(f) \/ Settle(f)
    \/ SettleNow(f, "approved", "dispatch_failed")
    \/ SettleNow(f, "pending", "denied") \/ SettleNow(f, "pending", "voided")

-----------------------------------------------------------------------------
(* verify-runs. *)

world == <<policy, runs, request, record, tasks>>

ListTask(f) ==
    /\ phase = "idle" /\ task[f] = "open"
    /\ phase' = "records"
    /\ cur' = f
    /\ UNCHANGED <<world, reading, faults>>

FetchRecords ==
    /\ phase = "records"
    /\ phase' = "runs"
    /\ book' = record[cur]
    /\ UNCHANGED <<world, cur, window, rule, faults>>

\* "falling back to forge-side matching"
RecordsFail ==
    /\ phase = "records" /\ Fault
    /\ phase' = "runs"
    /\ UNCHANGED <<world, cur, reading>>

FetchRuns ==
    /\ phase = "runs"
    /\ phase' = "policy"
    /\ window' = runs
    /\ UNCHANGED <<world, cur, book, rule, faults>>

\* An unreadable policy disables the binding audit.
FetchPolicy ==
    /\ phase = "policy"
    /\ phase' = "task"
    /\ \/ rule' = policy
       \/ PolicyFails /\ rule' = Unread
    /\ UNCHANGED <<world, cur, book, window, faults>>

Recent(i) == i + RunWindow > Len(window)

\* The newest run with the bound SHA as head_sha, or else the newest dispatch,
\* among the recent runs from a minute before the filing on: a head_sha is
\* main's tip of some time, so this may be any of them, or none.
MatchRuns(f) == {0} \union {i \in DOMAIN window : Recent(i) /\ i > filed[f]}

\* What the stamp in the task's context, read now, leads to in the book.
Evidence == IF stamp[cur] THEN book ELSE NoRecord

\* Variant of Attribution: a record without a run is guessed at.
AttributionGuesses ==
    IF Evidence.run # 0 THEN {IF Recent(Evidence.run) THEN Evidence.run ELSE 0}
    ELSE MatchRuns(cur)

\* The run the task is judged by, 0 if none: Warrant's record before inference.
Attribution ==
    IF Evidence.run # 0 THEN {IF Recent(Evidence.run) THEN Evidence.run ELSE 0}
    ELSE IF Evidence = NoRecord THEN MatchRuns(cur) ELSE {0}

BindingMismatch == rule # Unread /\ input[cur] # rule

\* Variant of SettledCloses: only what ran closes.
SettledClosesRuns == Evidence.outcome = "success" /\ ~BindingMismatch

SettledCloses ==
    \/ Evidence.outcome = "success" /\ ~BindingMismatch
    \/ Evidence.outcome \in NothingDispatched

UnsettledCloses(run) ==
    /\ Evidence.outcome = "none"
    /\ \/ Evidence.status = "voided"
       \/ /\ run # 0
          /\ Evidence # NoRecord => ~BindingMismatch
          /\ window[run].status = "success"

EndSweep ==
    phase' = "idle" /\ cur' = Nobody /\ book' = NoRecord /\ window' = <<>> /\ rule' = Unread

SweepTask ==
    /\ phase = "task"
    /\ \E run \in Attribution :
          task' = IF task[cur] = "open" /\ (SettledCloses \/ UnsettledCloses(run))
                  THEN [task EXCEPT ![cur] =
                          IF Evidence = NoRecord THEN "inferred" ELSE "recorded"]
                  ELSE task
    /\ EndSweep
    /\ UNCHANGED <<policy, runs, request, record, stamp, filed, faults>>

\* heph or the forge cannot be reached, or the script dies.
SweepFails ==
    /\ phase # "idle" /\ Fault
    /\ EndSweep
    /\ UNCHANGED world

Sweep == FetchRecords \/ FetchRuns \/ FetchPolicy \/ SweepTask

-----------------------------------------------------------------------------
Next ==
    \/ RenameInput \/ OtherRun \/ RunEnds \/ Sweep \/ RecordsFail \/ SweepFails
    \/ \E f \in Filings :
         RequestRun(f) \/ Warrant(f) \/ HandDispatch(f) \/ ListTask(f)

Spec == Init /\ [][Next]_vars

\* Agents keep running the sweep, and each sweep gets to every open task.
Fairness == WF_vars(Sweep) /\ \A f \in Filings : SF_vars(ListTask(f))
FairSpec == Spec /\ Fairness

-----------------------------------------------------------------------------
TypeOK ==
    /\ policy \in 0..MaxPolicy
    /\ runs \in Seq(Run) /\ Len(runs) <= MaxRuns
    /\ pc \in [Filings -> {"idle", "supersede", "task", "close", "stamp", "ended"}]
    /\ input \in [Filings -> 0..MaxPolicy]
    /\ old \in [Filings -> Filings \union {Nobody}]
    /\ known \in [Filings -> BOOLEAN]
    /\ record \in [Filings -> Record] /\ book \in Record
    /\ task \in [Filings -> {"none", "open", "request-run", "recorded", "inferred"}]
    /\ stamp \in [Filings -> BOOLEAN]
    /\ filed \in [Filings -> 0..MaxRuns]
    /\ phase \in {"idle", "records", "runs", "policy", "task"}
    /\ cur \in Filings \union {Nobody} /\ (phase # "idle" => cur \in Filings)
    /\ window \in Seq(Run)
    /\ rule \in 0..MaxPolicy \union {Unread}
    /\ faults \in 0..MaxFaults

\* The request's own run succeeded, with the approved SHA in the input that
\* the workflow read.
OwnRunSucceeded(f) ==
    \E i \in DOMAIN runs :
        runs[i].cause = f /\ runs[i].status = "success" /\ runs[i].carries

\* Nothing was dispatched for the request, and nothing ever will be.
NeverRuns(f) == record[f].status \in NothingDispatched

\* A task the sweep closes on Warrant's record is one whose own run succeeded
\* with the approved SHA, or whose request can never run, however the queue,
\* the runs and the policy moved between the sweep's reads.
RecordedMeansOwnRun ==
    \A f \in Filings : task[f] = "recorded" => OwnRunSucceeded(f) \/ NeverRuns(f)

\* "Retiring the old one would leave nothing live": a superseded request has a
\* successor that reached Warrant.
SupersededHasSuccessor ==
    \A f \in Filings : record[f].status = "superseded" =>
        record[f].by # Nobody /\ Mirrored(record[f].by)

\* request-run closes another request's task only when Warrant has retired that
\* request, not one that was approved meanwhile; or, the stamp being looked for
\* as a substring, one that has its title and stamp.
ClosedMeansRetired ==
    \A f \in Filings : task[f] = "request-run" =>
        \E g \in Filings : f \in Alike[g] /\ record[g].status = "superseded"

\* A task closes "against the exact run its approval caused": one whose request
\* Warrant has does not close on another's run.
ClosedMeansOwnRun ==
    \A f \in Filings : task[f] = "inferred" /\ Mirrored(f) =>
        OwnRunSucceeded(f) \/ NeverRuns(f)

\* What Warrant settled for good gets its stamped task closed, even when its
\* run has left the window.
SettledGetsClosed ==
    \A f \in Filings :
        /\ task[f] = "open" /\ stamp[f]
        /\ \/ record[f].outcome = "success" /\ input[f] = policy
           \/ record[f].outcome \in NothingDispatched
        ~> task[f] # "open" \/ input[f] # policy

-----------------------------------------------------------------------------
(* Inductive invariants behind the safety properties. *)

\* What has not begun has left nothing, what has an id is in Warrant, what is filed keeps the input it was
\* validated with, and what request-run goes on to close is retired.
FilingInv ==
    /\ \A f \in Filings : pc[f] = "idle" => ~Mirrored(f) /\ task[f] = "none"
    /\ \A f \in Filings : known[f] => Mirrored(f)
    /\ \A f \in Filings : input[f] <= policy
    /\ \A f \in Filings : pc[f] = "close" => old[f] # Nobody
    /\ \A f \in Filings : pc[f] \in {"task", "close"} /\ old[f] # Nobody =>
          record[old[f]].status = "superseded"
    /\ phase # "idle" => pc[cur] # "idle"

\* Warrant's record names the request's own run, and how that ended.
RecordInv ==
    /\ \A f \in Filings : record[f].run # 0 =>
          record[f].run <= Len(runs) /\ runs[record[f].run].cause = f
    /\ \A f \in Filings : record[f].status \in {"none", "pending", "approved"} => record[f].run = 0
    /\ \A f \in Filings : record[f].outcome = "success" =>
          record[f].run # 0 /\ runs[record[f].run].status = "success"
    /\ \A f \in Filings : record[f].outcome \in NothingDispatched => NeverRuns(f)
    /\ \A i \in DOMAIN runs : runs[i].cause # Nobody =>
          /\ pc[runs[i].cause] # "idle"
          /\ runs[i].carries \/ input[runs[i].cause] < policy

\* How much of what a sweep has read still holds when it uses it.
SweepInv ==
    /\ phase \in {"idle", "records"} => book = NoRecord
    /\ phase # "idle" =>
        /\ book.status = "voided" \/ book.outcome \in NothingDispatched => NeverRuns(cur)
        /\ book.run # 0 => book.run <= Len(runs) /\ runs[book.run].cause = cur
        /\ book.outcome = "success" => book.run # 0 /\ runs[book.run].status = "success"
        /\ phase \in {"policy", "task"} =>
              /\ Len(window) <= Len(runs) /\ book.run <= Len(window)
              /\ \A i \in DOMAIN window :
                    window[i].status = "success" => runs[i].status = "success"
        /\ phase = "task" /\ rule # Unread /\ input[cur] = rule /\ book.run # 0 =>
              runs[book.run].carries
        /\ phase = "task" /\ ~PolicyFails => rule # Unread
=============================================================================
