------------------------- MODULE WarrantLoop_proofs -------------------------
(***************************************************************************)
(* Proofs about WarrantLoop, for any number of requests, runs, renames and *)
(* faults and any window: type correctness, that a retired request has a   *)
(* successor, that request-run closes the tasks of retired requests and of *)
(* their lookalikes only, and that what a sweep closes on Warrant's record *)
(* ran as approved or can never run.                                       *)
(***************************************************************************)
EXTENDS WarrantLoop, TLAPS

\* The steps, by who takes them.
LEMMA NextCases ==
    ASSUME Next
    PROVE  \/ RenameInput \/ OtherRun \/ RunEnds
           \/ \E f \in Filings :
                \/ RequestRun(f) \/ HandDispatch(f) \/ Warrant(f) \/ ListTask(f)
           \/ FetchRecords \/ RecordsFail \/ FetchRuns \/ FetchPolicy \/ SweepTask \/ SweepFails
  BY DEF Next, Sweep

\* What a step of request-run leaves alone.
LEMMA RequestRunKeeps ==
    ASSUME NEW f \in Filings, RequestRun(f)
    PROVE  UNCHANGED <<policy, runs, sweep>>
  BY DEF RequestRun, File, FileUnmirrored, Supersede, SupersedeNot, SupersedeFails, FileTask,
     TaskFails, CloseOld, Stamp, Dies

\* What a sweep leaves alone, and what anything else leaves of it.
LEMMA SweepKeeps ==
    ASSUME FetchRecords \/ RecordsFail \/ FetchRuns \/ FetchPolicy \/ SweepTask \/ SweepFails
           \/ \E f \in Filings : ListTask(f)
    PROVE  UNCHANGED <<policy, runs, request, record, stamp, filed>>
  BY DEF FetchRecords, RecordsFail, FetchRuns, FetchPolicy, SweepTask, SweepFails, ListTask,
     world, tasks

-----------------------------------------------------------------------------
(* Type correctness. *)

LEMMA NoRecordTyped == NoRecord \in Record
  BY BoundsAssumption DEF NoRecord, Record, Status, Outcome

\* A record with two of its fields written.
LEMMA TheOtherFields ==
    ASSUME NEW r \in Record, NEW s, NEW x
    PROVE  /\ [r EXCEPT !.status = s, !.by = x].status = s
           /\ [r EXCEPT !.status = s, !.by = x].by = x
           /\ [r EXCEPT !.status = s, !.by = x].run = r.run
           /\ [r EXCEPT !.status = s, !.by = x].outcome = r.outcome
           /\ [r EXCEPT !.status = s, !.run = x].status = s
           /\ [r EXCEPT !.status = s, !.run = x].run = x
           /\ [r EXCEPT !.status = s, !.run = x].outcome = r.outcome
           /\ [r EXCEPT !.status = s, !.run = x].by = r.by
           /\ [r EXCEPT !.status = s, !.outcome = x].status = s
           /\ [r EXCEPT !.status = s, !.outcome = x].outcome = x
           /\ [r EXCEPT !.status = s, !.outcome = x].run = r.run
           /\ [r EXCEPT !.status = s, !.outcome = x].by = r.by
  BY DEF Record

\* A request is filed, whether or not the script learns of it.
Filed(f) == \E g \in Filings \union {Nobody} : File(f, g) \/ FileUnmirrored(f, g)

LEMMA FiledWrites ==
    ASSUME TypeOK, NEW f \in Filings, Filed(f), NEW g \in Filings
    PROVE  /\ pc[f] = "idle" /\ record' \in [Filings -> Record]
           /\ g # f => record'[g] = record[g]
           /\ g = f => /\ record'[g].status \in {record[g].status, "pending"}
                       /\ record'[g].run = record[g].run /\ record'[g].by = record[g].by
                       /\ record'[g].outcome = record[g].outcome
  <1>1. pc[f] = "idle"
    BY DEF Filed, File, FileUnmirrored, Validate, Goto
  <1>2. record[f] \in Record /\ [record[f] EXCEPT !.status = "pending"] \in Record
    BY DEF TypeOK, Record, Status
  <1>3. \/ record' = record
        \/ record' = [record EXCEPT ![f] = [record[f] EXCEPT !.status = "pending"]]
    BY DEF Filed, File, FileUnmirrored
  <1>4. CASE record' = record
    BY <1>1, <1>4 DEF TypeOK
  <1>5. CASE record' = [record EXCEPT ![f] = [record[f] EXCEPT !.status = "pending"]]
    <2>1. record' \in [Filings -> Record] /\ (g # f => record'[g] = record[g])
          /\ (g = f => record'[g] = [record[g] EXCEPT !.status = "pending"])
      BY <1>2, <1>5 DEF TypeOK
    <2> QED
      BY <1>1, <1>2, <2>1 DEF Record
  <1> QED
    BY <1>3, <1>4, <1>5

\* What Warrant writes when it retires, dispatches or settles a request.
LEMMA RetireWrites ==
    ASSUME TypeOK, NEW f \in Filings, Retire(f), NEW g \in Filings
    PROVE  /\ g # old[f] => record'[g] = record[g]
           /\ g = old[f] => /\ record[g].status = "pending"
                            /\ record'[g].status = "superseded" /\ record'[g].by = f
                            /\ record'[g].run = record[g].run
                            /\ record'[g].outcome = record[g].outcome
  <1>1. record[g] \in Record
    BY DEF TypeOK
  <1>2. record[old[f]].status = "pending"
    BY DEF Retire
  <1>3. /\ g # old[f] => record'[g] = record[g]
        /\ g = old[f] => record'[g] = [record[g] EXCEPT !.status = "superseded", !.by = f]
    BY DEF Retire, TypeOK
  <1>4. CASE g = old[f]
    <2>1. record'[g] = [record[g] EXCEPT !.status = "superseded", !.by = f]
      BY <1>3, <1>4
    <2> QED
      BY <1>1, <1>2, <1>4, <2>1, TheOtherFields
  <1> QED
    BY <1>3, <1>4

LEMMA SettleNowWrites ==
    ASSUME TypeOK, NEW f \in Filings, NEW from, NEW to, SettleNow(f, from, to), NEW g \in Filings
    PROVE  /\ g # f => record'[g] = record[g]
           /\ g = f => /\ record[g].status = from /\ record'[g].status = to
                       /\ record'[g].outcome \in {to, "none"}
                       /\ record'[g].run = record[g].run /\ record'[g].by = record[g].by
  <1>1. record[g] \in Record
    BY DEF TypeOK
  <1>2. PICK o \in {to, "none"} : record' = [record EXCEPT ![f].status = to, ![f].outcome = o]
    BY DEF SettleNow
  <1>3. record[f].status = from
    BY DEF SettleNow
  <1>4. /\ g # f => record'[g] = record[g]
        /\ g = f => record'[g] = [record[g] EXCEPT !.status = to, !.outcome = o]
    BY <1>2 DEF TypeOK
  <1>5. CASE g = f
    <2>1. record'[g] = [record[g] EXCEPT !.status = to, !.outcome = o]
      BY <1>4, <1>5
    <2>2. record'[g].status = to /\ record'[g].outcome = o /\ record'[g].run = record[g].run
          /\ record'[g].by = record[g].by
      BY <1>1, <2>1, TheOtherFields
    <2> QED
      BY <1>3, <1>5, <2>2
  <1> QED
    BY <1>4, <1>5

LEMMA DispatchWrites ==
    ASSUME TypeOK, NEW f \in Filings, DispatchRun(f), NEW g \in Filings
    PROVE  /\ g # f => record'[g] = record[g]
           /\ g = f => /\ record[g].status = "approved" /\ record'[g].status = "dispatched"
                       /\ record'[g].run \in {0, Len(runs')}
                       /\ record'[g].outcome = record[g].outcome /\ record'[g].by = record[g].by
  <1>1. record[g] \in Record
    BY DEF TypeOK
  <1>2. PICK n \in {0, Len(runs')} :
           record' = [record EXCEPT ![f].status = "dispatched", ![f].run = n]
    BY DEF DispatchRun
  <1>3. record[f].status = "approved"
    BY DEF DispatchRun
  <1>4. /\ g # f => record'[g] = record[g]
        /\ g = f => record'[g] = [record[g] EXCEPT !.status = "dispatched", !.run = n]
    BY <1>2 DEF TypeOK
  <1>5. CASE g = f
    <2>1. record'[g] = [record[g] EXCEPT !.status = "dispatched", !.run = n]
      BY <1>4, <1>5
    <2>2. record'[g].status = "dispatched" /\ record'[g].run = n
          /\ record'[g].outcome = record[g].outcome /\ record'[g].by = record[g].by
      BY <1>1, <2>1, TheOtherFields
    <2> QED
      BY <1>3, <1>5, <2>2
  <1> QED
    BY <1>4, <1>5

\* The other two steps of Warrant.
LEMMA ApproveWrites ==
    ASSUME TypeOK, NEW f \in Filings, Approve(f), NEW g \in Filings
    PROVE  /\ g # f => record'[g] = record[g]
           /\ g = f => /\ record[g].status = "pending" /\ record'[g].status = "approved"
                       /\ record'[g].run = record[g].run /\ record'[g].by = record[g].by
                       /\ record'[g].outcome = record[g].outcome
  <1>1. record[g] \in Record
    BY DEF TypeOK
  <1> QED
    BY <1>1 DEF Approve, TypeOK, Record

LEMMA SettleWrites ==
    ASSUME TypeOK, NEW f \in Filings, Settle(f), NEW g \in Filings
    PROVE  /\ g # f => record'[g] = record[g]
           /\ g = f => /\ record[g].run # 0 /\ record[g].outcome = "none"
                       /\ runs[record[g].run].status # "running"
                       /\ record'[g].outcome = runs[record[g].run].status
                       /\ record'[g].status = record[g].status
                       /\ record'[g].run = record[g].run /\ record'[g].by = record[g].by
  <1>1. record[g] \in Record
    BY DEF TypeOK
  <1>2. /\ record[f].run # 0 /\ record[f].outcome = "none"
        /\ runs[record[f].run].status # "running"
        /\ record' = [record EXCEPT ![f].outcome = runs[record[f].run].status]
    BY DEF Settle
  <1> QED
    BY <1>1, <1>2 DEF TypeOK, Record

LEMMA InitTypeOK == Init => TypeOK
  <1> SUFFICES ASSUME Init PROVE TypeOK
    OBVIOUS
  <1>1. 0 \in 0..MaxPolicy /\ 0 \in 0..MaxRuns /\ 0 \in 0..MaxFaults
    BY BoundsAssumption
  <1>2. runs \in Seq(Run) /\ Len(runs) <= MaxRuns /\ window \in Seq(Run)
    BY BoundsAssumption DEF Init
  <1> QED
    BY <1>1, <1>2, NoRecordTyped DEF Init, TypeOK

\* A run is added to the list.
LEMMA NewRunType ==
    ASSUME TypeOK, NEW f \in Filings \union {Nobody}, NewRun(f)
    PROVE  /\ runs' \in Seq(Run) /\ Len(runs') <= MaxRuns /\ Len(runs') = Len(runs) + 1
           /\ \A i \in 1..Len(runs) : runs'[i] = runs[i]
           /\ runs'[Len(runs')].cause = f
           /\ runs'[Len(runs')].carries = (f # Nobody /\ input[f] = policy)
  <1> DEFINE new == [cause |-> f, status |-> "running",
                     carries |-> f # Nobody /\ input[f] = policy]
  <1>1. new \in Run
    BY DEF Run
  <1>2. runs' = Append(runs, new)
    BY DEF NewRun
  <1> HIDE DEF new
  <1>3. /\ runs' \in Seq(Run) /\ Len(runs') = Len(runs) + 1 /\ runs'[Len(runs')] = new
        /\ \A i \in 1..Len(runs) : runs'[i] = runs[i]
    BY <1>1, <1>2 DEF TypeOK
  <1>4. Len(runs') <= MaxRuns
    BY <1>3, BoundsAssumption DEF TypeOK, NewRun
  <1> QED
    BY <1>3, <1>4 DEF new

LEMMA RequestRunTypeOK == ASSUME TypeOK, NEW f \in Filings, RequestRun(f) PROVE TypeOK'
  <1>1. UNCHANGED <<policy, runs, sweep>>
    BY RequestRunKeeps
  <1>2. pc' \in [Filings -> {"idle", "supersede", "task", "close", "stamp", "ended"}]
    BY DEF RequestRun, File, FileUnmirrored, Validate, Supersede, SupersedeNot, SupersedeFails,
       FileTask, TaskFails, CloseOld, Stamp, Dies, Goto, AfterTask, TypeOK
  <1>3. input' \in [Filings -> 0..MaxPolicy] /\ old' \in [Filings -> Filings \union {Nobody}]
    <2>1. ASSUME NEW g \in Filings \union {Nobody}, Validate(f, g)
          PROVE  input' \in [Filings -> 0..MaxPolicy] /\ old' \in [Filings -> Filings \union {Nobody}]
      BY <2>1 DEF Validate, TypeOK
    <2>2. ASSUME UNCHANGED input, old' = old \/ old' = [old EXCEPT ![f] = Nobody]
          PROVE  input' \in [Filings -> 0..MaxPolicy] /\ old' \in [Filings -> Filings \union {Nobody}]
      BY <2>2 DEF TypeOK
    <2> QED
      BY <2>1, <2>2 DEF RequestRun, File, FileUnmirrored, Supersede, SupersedeNot,
         SupersedeFails, FileTask, TaskFails, CloseOld, Stamp, Dies
  <1>4. record' \in [Filings -> Record]
    <2>1. CASE Filed(f)
      BY <2>1, FiledWrites
    <2>2. CASE Retire(f)
      <3> DEFINE r == [[record[old[f]] EXCEPT !.status = "superseded"] EXCEPT !.by = f]
      <3>1. record' = [record EXCEPT ![old[f]] = r]
        BY <2>2 DEF Retire, TypeOK
      <3>2. old[f] \in Filings => r \in Record
        BY DEF TypeOK, Record, Status
      <3> QED
        BY <3>1, <3>2 DEF TypeOK
    <2>3. CASE record' = record
      BY <2>3 DEF TypeOK
    <2> QED
      BY <2>1, <2>2, <2>3 DEF RequestRun, Filed, Supersede, SupersedeNot, SupersedeFails,
         FileTask, TaskFails, CloseOld, Stamp, Dies
  <1>5. task' \in [Filings -> {"none", "open", "request-run", "recorded", "inferred"}]
        /\ stamp' \in [Filings -> BOOLEAN]
    BY DEF RequestRun, File, FileUnmirrored, Supersede, SupersedeNot, SupersedeFails, FileTask,
       TaskFails, CloseOld, Stamp, Dies, TypeOK, tasks
  <1>6. filed' \in [Filings -> 0..MaxRuns]
    <2>1. CASE FileTask(f)
      BY <2>1, BoundsAssumption DEF FileTask, TypeOK
    <2>2. CASE ~FileTask(f)
      BY <2>2 DEF RequestRun, File, FileUnmirrored, Supersede, SupersedeNot, SupersedeFails,
         TaskFails, CloseOld, Stamp, Dies, TypeOK, tasks
    <2> QED
      BY <2>1, <2>2
  <1>7. faults' \in 0..MaxFaults
    <2>1. faults' = faults \/ (faults < MaxFaults /\ faults' = faults + 1)
      BY DEF RequestRun, File, FileUnmirrored, Supersede, SupersedeNot, SupersedeFails, FileTask,
         TaskFails, CloseOld, Stamp, Dies, Fault
    <2> QED
      BY <2>1, BoundsAssumption DEF TypeOK
  <1>8. known' \in [Filings -> BOOLEAN]
    BY DEF RequestRun, File, FileUnmirrored, Supersede, SupersedeNot, SupersedeFails, FileTask,
       TaskFails, CloseOld, Stamp, Dies, TypeOK
  <1> QED
    BY <1>1, <1>2, <1>3, <1>4, <1>5, <1>6, <1>7, <1>8 DEF TypeOK, sweep, reading

LEMMA OutsideTypeOK ==
    ASSUME TypeOK, RenameInput \/ OtherRun \/ RunEnds \/ \E f \in Filings : HandDispatch(f)
    PROVE  TypeOK'
  <1> USE DEF outside, request, tasks, sweep, reading
  <1>1. CASE RenameInput
    BY <1>1, BoundsAssumption DEF TypeOK, RenameInput
  <1>2. CASE OtherRun \/ \E f \in Filings : HandDispatch(f)
    <2>1. runs' \in Seq(Run) /\ Len(runs') <= MaxRuns
      BY <1>2, NewRunType DEF OtherRun, HandDispatch
    <2> QED
      BY <1>2, <2>1 DEF TypeOK, OtherRun, HandDispatch
  <1>3. CASE RunEnds
    <2>1. PICK i \in DOMAIN runs, s \in {"success", "failure"} :
             runs' = [runs EXCEPT ![i] = [runs[i] EXCEPT !.status = s]]
      BY <1>3 DEF RunEnds
    <2>2. [runs[i] EXCEPT !.status = s] \in Run
      <3>1. runs[i] \in Run
        BY DEF TypeOK
      <3> QED
        BY <3>1 DEF Run
    <2>3. runs' \in Seq(Run) /\ Len(runs') = Len(runs)
      BY <2>1, <2>2 DEF TypeOK
    <2> QED
      BY <1>3, <2>3 DEF TypeOK, RunEnds
  <1> QED
    BY <1>1, <1>2, <1>3

LEMMA WarrantTypeOK ==
    ASSUME TypeOK, RecordInv, NEW f \in Filings, Warrant(f)
    PROVE  TypeOK'
  <1>1. runs' \in Seq(Run) /\ Len(runs') <= MaxRuns
    BY NewRunType DEF Warrant, Approve, DispatchRun, SettleNow, Settle, TypeOK
  <1>2. record' \in [Filings -> Record]
    <2>1. CASE Approve(f)
      <3>1. record' = [record EXCEPT ![f] = [record[f] EXCEPT !.status = "approved"]]
        BY <2>1 DEF Approve
      <3> QED
        BY <3>1 DEF TypeOK, Record, Status
    <2>2. CASE DispatchRun(f)
      <3>1. PICK n \in {0, Len(runs')} : record' = [record EXCEPT ![f] =
                [[record[f] EXCEPT !.status = "dispatched"] EXCEPT !.run = n]]
        BY <2>2 DEF DispatchRun, TypeOK
      <3>2. n \in 0..MaxRuns
        BY <1>1, BoundsAssumption
      <3> QED
        BY <3>1, <3>2 DEF TypeOK, Record, Status
    <2>3. CASE Settle(f)
      <3>1. record[f].run \in 1..Len(runs)
        BY <2>3 DEF Settle, TypeOK, Record, RecordInv
      <3>2. runs[record[f].run] \in Run
        BY <3>1 DEF TypeOK
      <3> DEFINE s == runs[record[f].run].status
      <3>3. s \in Outcome
        BY <3>2, <2>3 DEF Run, Outcome, Settle
      <3>4. record' = [record EXCEPT ![f] = [record[f] EXCEPT !.outcome = s]]
        BY <2>3 DEF Settle
      <3> QED
        BY <3>3, <3>4 DEF TypeOK, Record
    <2>4. ASSUME NEW from, NEW to \in NothingDispatched, SettleNow(f, from, to)
          PROVE  record' \in [Filings -> Record]
      <3>1. PICK o \in {to, "none"} : record' = [record EXCEPT ![f] =
                [[record[f] EXCEPT !.status = to] EXCEPT !.outcome = o]]
        BY <2>4 DEF SettleNow, TypeOK
      <3> QED
        BY <3>1, <2>4 DEF TypeOK, Record, Status, Outcome
    <2> QED
      BY <2>1, <2>2, <2>3, <2>4 DEF Warrant, NothingDispatched
  <1> QED
    BY <1>1, <1>2 DEF TypeOK, Warrant, Approve, DispatchRun, SettleNow, Settle, outside, request,
       tasks, sweep, reading

LEMMA SweepTypeOK ==
    ASSUME TypeOK,
           \/ FetchRecords \/ RecordsFail \/ FetchRuns \/ FetchPolicy \/ SweepTask \/ SweepFails
           \/ \E f \in Filings : ListTask(f)
    PROVE  TypeOK'
  <1>1. UNCHANGED <<policy, runs, request, record, stamp, filed>>
    BY SweepKeeps
  <1>2. faults' \in 0..MaxFaults
    <2>1. faults' = faults \/ (faults < MaxFaults /\ faults' = faults + 1)
      BY DEF FetchRecords, RecordsFail, FetchRuns, FetchPolicy, SweepTask, SweepFails, ListTask,
         Fault
    <2> QED
      BY <2>1, BoundsAssumption DEF TypeOK
  <1>3. task' \in [Filings -> {"none", "open", "request-run", "recorded", "inferred"}]
    BY DEF FetchRecords, RecordsFail, FetchRuns, FetchPolicy, SweepTask, SweepFails, ListTask,
       TypeOK, world, tasks
  <1>4. CASE EndSweep
    <2>1. phase' = "idle" /\ cur' = Nobody /\ book' = NoRecord /\ window' = <<>> /\ rule' = Unread
      BY <1>4 DEF EndSweep
    <2> QED
      BY <1>1, <1>2, <1>3, <2>1, NoRecordTyped DEF TypeOK, request
  <1>5. CASE FetchRecords \/ RecordsFail \/ FetchRuns \/ FetchPolicy
    <2>1. phase \in {"records", "runs", "policy"} /\ phase' \in {"runs", "policy", "task"}
          /\ cur' = cur
      BY <1>5 DEF FetchRecords, RecordsFail, FetchRuns, FetchPolicy
    <2>2. cur \in Filings
      BY <2>1 DEF TypeOK
    <2>3. book' \in Record
      BY <1>5, <2>2 DEF FetchRecords, RecordsFail, FetchRuns, FetchPolicy, reading, TypeOK
    <2>4. window' \in Seq(Run)
      BY <1>5 DEF FetchRecords, RecordsFail, FetchRuns, FetchPolicy, reading, TypeOK
    <2>5. rule' \in 0..MaxPolicy \union {Unread}
      BY <1>5 DEF FetchRecords, RecordsFail, FetchRuns, FetchPolicy, reading, TypeOK
    <2> QED
      BY <1>1, <1>2, <1>3, <2>1, <2>2, <2>3, <2>4, <2>5 DEF TypeOK, request
  <1>6. CASE \E f \in Filings : ListTask(f)
    BY <1>1, <1>2, <1>3, <1>6 DEF ListTask, TypeOK, request, reading
  <1> QED
    BY <1>4, <1>5, <1>6 DEF SweepTask, SweepFails

LEMMA StepTypeOK == TypeOK /\ RecordInv /\ [Next]_vars => TypeOK'
  <1>1. ASSUME TypeOK, UNCHANGED vars PROVE TypeOK'
    BY <1>1 DEF TypeOK, vars, request, tasks, sweep, reading
  <1> QED
    BY <1>1, NextCases, RequestRunTypeOK, OutsideTypeOK, WarrantTypeOK, SweepTypeOK

-----------------------------------------------------------------------------
(* What has not begun has left nothing. *)

LEMMA RequestRunFilingInv ==
    ASSUME TypeOK, FilingInv, NEW f \in Filings, RequestRun(f)
    PROVE  FilingInv'
  <1>1. UNCHANGED <<policy, phase, cur>>
    BY RequestRunKeeps DEF sweep
  <1>2. /\ \A g \in Filings \ {f} : pc'[g] = pc[g] /\ input'[g] = input[g] /\ old'[g] = old[g]
        /\ pc'[f] # "idle"
    BY DEF RequestRun, File, FileUnmirrored, Validate, Supersede, SupersedeNot, SupersedeFails,
       FileTask, TaskFails, CloseOld, Stamp, Dies, Goto, AfterTask, TypeOK
  <1>3. input'[f] = input[f] \/ input'[f] = policy
    BY DEF RequestRun, File, FileUnmirrored, Validate, Supersede, SupersedeNot, SupersedeFails,
       FileTask, TaskFails, CloseOld, Stamp, Dies, TypeOK
  <1>4. /\ \A g \in Filings : record'[g].status # record[g].status =>
              (g = f /\ pc[f] = "idle") \/ (record[g].status = "pending" /\ g = old[f])
        /\ \A g \in Filings : task'[g] # task[g] => g = f \/ task[g] = "open"
    <2>1. CASE Filed(f)
      <3>1. task' = task
        BY <2>1 DEF Filed, File, FileUnmirrored, tasks
      <3> QED
        BY <2>1, <3>1, FiledWrites
    <2>2. CASE Supersede(f) \/ SupersedeFails(f)
      BY <2>2 DEF Supersede, SupersedeFails, Retire, TypeOK, Record, tasks
    <2>3. CASE ~Filed(f) /\ ~Supersede(f) /\ ~SupersedeFails(f)
      BY <2>3 DEF RequestRun, Filed, SupersedeNot, FileTask, TaskFails, CloseOld, Matches, Stamp,
         Dies, TypeOK, tasks
    <2> QED
      BY <2>1, <2>2, <2>3
  <1>5. ASSUME pc'[f] \in {"task", "close"}, old'[f] # Nobody
        PROVE  record'[old'[f]].status = "superseded"
    <2>1. CASE Supersede(f)
      BY <2>1, <1>5 DEF Supersede, Retire, TypeOK, Record
    <2>2. CASE FileTask(f) \/ TaskFails(f)
      BY <2>2, <1>5 DEF FileTask, TaskFails, Goto, FilingInv, TypeOK
    <2>3. CASE ~Supersede(f) /\ ~FileTask(f) /\ ~TaskFails(f)
      BY <2>3, <1>5 DEF RequestRun, File, FileUnmirrored, Validate, SupersedeNot, SupersedeFails,
         CloseOld, Stamp, Dies, Goto, TypeOK
    <2> QED
      BY <2>1, <2>2, <2>3
  <1>6. \A g \in Filings : record[g].status = "superseded" => record'[g].status = "superseded"
    BY <1>4 DEF FilingInv, Mirrored
  <1>7. \A g \in Filings : pc'[g] = "idle" => ~Mirrored(g)' /\ task'[g] = "none"
    BY <1>2, <1>4 DEF FilingInv, Mirrored
  <1>8. \A g \in Filings : pc'[g] \in {"task", "close"} /\ old'[g] # Nobody =>
            record'[old'[g]].status = "superseded"
    <2>1. ASSUME NEW g \in Filings \ {f}, pc[g] \in {"task", "close"}, old[g] # Nobody
          PROVE  record'[old[g]].status = "superseded"
      <3>1. record[old[g]].status = "superseded" /\ old[g] \in Filings
        BY <2>1 DEF FilingInv, TypeOK
      <3> QED
        BY <3>1, <1>6
    <2> QED
      BY <1>2, <1>5, <2>1
  <1>9. \A g \in Filings : input'[g] <= policy'
    <2>1. policy \in Nat
      BY BoundsAssumption DEF TypeOK
    <2> QED
      BY <1>1, <1>2, <1>3, <2>1 DEF FilingInv
  <1>10. phase' # "idle" => pc'[cur'] # "idle"
    BY <1>1, <1>2 DEF FilingInv, TypeOK
  <1>11. \A g \in Filings : pc'[g] = "close" => old'[g] # Nobody
    BY <1>2 DEF FilingInv, RequestRun, File, FileUnmirrored, Validate, Supersede, SupersedeNot,
       SupersedeFails, FileTask, TaskFails, CloseOld, Stamp, Dies, Goto, AfterTask, TypeOK
  <1>12. ASSUME NEW g \in Filings, known'[g] PROVE Mirrored(g)'
    <2>1. CASE known[g]
      <3>1. Mirrored(g)
        BY <2>1 DEF FilingInv
      <3>2. record'[g].status \in {record[g].status, "pending", "superseded"}
        <4>1. CASE Filed(f)
          BY <4>1, FiledWrites
        <4>2. CASE Supersede(f) \/ SupersedeFails(f)
          BY <4>2, RetireWrites DEF Supersede, SupersedeFails
        <4>3. CASE ~Filed(f) /\ ~Supersede(f) /\ ~SupersedeFails(f)
          BY <4>3 DEF RequestRun, Filed, SupersedeNot, FileTask, TaskFails, CloseOld, Stamp, Dies
        <4> QED
          BY <4>1, <4>2, <4>3
      <3> QED
        BY <3>1, <3>2 DEF Mirrored
    <2>2. CASE ~known[g]
      <3>1. \E h \in Filings \union {Nobody} : File(f, h)
        BY <1>12, <2>2 DEF RequestRun, FileUnmirrored, Supersede, SupersedeNot, SupersedeFails,
           FileTask, TaskFails, CloseOld, Stamp, Dies
      <3>2. g = f /\ record' = [record EXCEPT ![f] = [record[f] EXCEPT !.status = "pending"]]
        BY <1>12, <2>2, <3>1 DEF File, TypeOK
      <3> QED
        BY <3>2 DEF Mirrored, TypeOK, Record
    <2> QED
      BY <2>1, <2>2
  <1> QED
    BY <1>7, <1>8, <1>9, <1>10, <1>11, <1>12 DEF FilingInv

LEMMA StepFilingInv == TypeOK /\ FilingInv /\ [Next]_vars => FilingInv'
  <1> SUFFICES ASSUME TypeOK, FilingInv, [Next]_vars PROVE FilingInv'
    OBVIOUS
  <1>1. CASE RenameInput
    BY <1>1 DEF RenameInput, FilingInv, Mirrored, TypeOK, outside, request, tasks, sweep
  <1>2. CASE OtherRun \/ RunEnds \/ \E f \in Filings : HandDispatch(f)
    BY <1>2 DEF OtherRun, RunEnds, HandDispatch, FilingInv, Mirrored, outside, request, tasks,
       sweep
  <1>3. ASSUME NEW f \in Filings, Warrant(f) PROVE FilingInv'
    <2>1. UNCHANGED <<policy, pc, input, old, known, task, phase, cur>>
      BY <1>3 DEF Warrant, Approve, DispatchRun, SettleNow, Settle, outside, request, tasks, sweep
    <2>2. \A g \in Filings : record'[g].status # record[g].status =>
              /\ record[g].status \in {"pending", "approved"}
              /\ record'[g].status # "none"
      BY <1>3, ApproveWrites, DispatchWrites, SettleNowWrites, SettleWrites DEF Warrant
    <2> QED
      BY <2>1, <2>2 DEF FilingInv, Mirrored, TypeOK
  <1>4. ASSUME NEW f \in Filings, ListTask(f) PROVE FilingInv'
    BY <1>4 DEF ListTask, FilingInv, Mirrored, world, request, tasks
  <1>5. CASE FetchRecords \/ RecordsFail \/ FetchRuns \/ FetchPolicy \/ SweepTask \/ SweepFails
    <2>1. UNCHANGED <<policy, pc, input, old, known, record>>
      BY <1>5, SweepKeeps DEF request
    <2>2. \A g \in Filings : task'[g] # task[g] => task[g] = "open"
      BY <1>5 DEF FetchRecords, RecordsFail, FetchRuns, FetchPolicy, SweepTask, SweepFails,
         world, tasks, TypeOK
    <2>3. phase' # "idle" => phase # "idle" /\ cur' = cur
      BY <1>5 DEF FetchRecords, RecordsFail, FetchRuns, FetchPolicy, SweepTask, SweepFails,
         EndSweep
    <2> QED
      BY <2>1, <2>2, <2>3 DEF FilingInv, Mirrored
  <1>6. CASE UNCHANGED vars
    BY <1>6 DEF FilingInv, Mirrored, vars, request, tasks, sweep
  <1> QED
    BY <1>1, <1>2, <1>3, <1>4, <1>5, <1>6, NextCases, RequestRunFilingInv

-----------------------------------------------------------------------------
(* Warrant's record and the forge's runs. *)

\* What request-run may change in Warrant's book.
LEMMA RequestRunRecord ==
    ASSUME TypeOK, NEW f \in Filings, RequestRun(f)
    PROVE  \A g \in Filings :
              /\ record'[g].run = record[g].run /\ record'[g].outcome = record[g].outcome
              /\ record'[g].status # record[g].status =>
                    \/ g = f /\ pc[f] = "idle"
                    \/ record[g].status = "pending" /\ record'[g].status = "superseded"
  <1>1. CASE Filed(f)
    BY <1>1, FiledWrites
  <1>2. CASE Supersede(f) \/ SupersedeFails(f)
    BY <1>2, RetireWrites DEF Supersede, SupersedeFails
  <1>3. CASE ~Filed(f) /\ ~Supersede(f) /\ ~SupersedeFails(f)
    BY <1>3 DEF RequestRun, Filed, SupersedeNot, FileTask, TaskFails, CloseOld, Stamp, Dies
  <1> QED
    BY <1>1, <1>2, <1>3

LEMMA RequestRunFiling ==
    ASSUME TypeOK, NEW f \in Filings, RequestRun(f)
    PROVE  \A g \in Filings :
              /\ pc[g] # "idle" => pc'[g] # "idle" /\ input'[g] = input[g]
              /\ g # f => pc'[g] = pc[g] /\ input'[g] = input[g]
  BY DEF RequestRun, File, FileUnmirrored, Validate, Supersede, SupersedeNot, SupersedeFails,
     FileTask, TaskFails, CloseOld, Stamp, Dies, Goto, AfterTask, TypeOK

LEMMA RequestRunRecordInv ==
    ASSUME TypeOK, FilingInv, RecordInv, NEW f \in Filings, RequestRun(f)
    PROVE  RecordInv'
  <1>1. UNCHANGED <<policy, runs>>
    BY RequestRunKeeps
  <1>2. \A g \in Filings : NeverRuns(g) => NeverRuns(g)'
    BY RequestRunRecord DEF NeverRuns, FilingInv, Mirrored, NothingDispatched
  <1>3. ASSUME NEW i \in DOMAIN runs, runs[i].cause # Nobody
        PROVE  pc'[runs[i].cause] # "idle"
               /\ (runs[i].carries \/ input'[runs[i].cause] < policy)
    <2>1. runs[i] \in Run
      BY DEF TypeOK
    <2>2. runs[i].cause \in Filings
      BY <2>1, <1>3 DEF Run
    <2> QED
      BY <2>2, <1>3, RequestRunFiling DEF RecordInv
  <1>4. \A g \in Filings : record'[g].run = record[g].run /\ record'[g].outcome = record[g].outcome
    BY RequestRunRecord
  <1>5. \A g \in Filings : record'[g].status \in {"none", "pending", "approved"} =>
            record'[g].run = 0
    <2>1. \A g \in Filings : record'[g].status # record[g].status =>
              (g = f /\ record[g].status = "none") \/ record'[g].status = "superseded"
      BY RequestRunRecord DEF FilingInv, Mirrored
    <2> QED
      BY <1>4, <2>1 DEF RecordInv
  <1> QED
    BY <1>1, <1>2, <1>3, <1>4, <1>5 DEF RecordInv

\* The runs that were there stay, and one may end.
LEMMA RunsKept ==
    ASSUME TypeOK, [Next]_vars
    PROVE  /\ Len(runs) \in Nat /\ Len(runs') \in Nat /\ Len(runs) <= Len(runs')
           /\ \A i \in 1..Len(runs) :
                /\ runs'[i].cause = runs[i].cause /\ runs'[i].carries = runs[i].carries
                /\ runs[i].status = "success" => runs'[i].status = "success"
  <1>1. ASSUME NEW f \in Filings \union {Nobody}, NewRun(f)
        PROVE  /\ Len(runs) <= Len(runs') /\ Len(runs') \in Nat
               /\ \A i \in 1..Len(runs) : runs'[i] = runs[i]
    <2>1. Len(runs') = Len(runs) + 1 /\ \A i \in 1..Len(runs) : runs'[i] = runs[i]
      BY <1>1, NewRunType
    <2> QED
      BY <2>1 DEF TypeOK
  <1>2. CASE RunEnds
    <2>1. PICK i \in DOMAIN runs, s \in {"success", "failure"} :
             /\ runs[i].status = "running"
             /\ runs' = [runs EXCEPT ![i] = [runs[i] EXCEPT !.status = s]]
      BY <1>2 DEF RunEnds
    <2>2. runs[i] \in Run /\ i \in 1..Len(runs)
      BY DEF TypeOK
    <2>3. Len(runs') = Len(runs) /\ \A j \in 1..Len(runs) : j # i => runs'[j] = runs[j]
      BY <2>1 DEF TypeOK
    <2>4. runs'[i] = [runs[i] EXCEPT !.status = s]
      BY <2>1
    <2>5. runs'[i].cause = runs[i].cause /\ runs'[i].carries = runs[i].carries
      BY <2>2, <2>4 DEF Run
    <2> QED
      BY <2>1, <2>3, <2>5 DEF TypeOK
  <1>3. CASE UNCHANGED runs
    BY <1>3 DEF TypeOK
  <1>4. CASE UNCHANGED vars
    BY <1>3, <1>4 DEF vars
  <1>5. CASE OtherRun \/ \E f \in Filings : HandDispatch(f)
    BY <1>1, <1>5 DEF OtherRun, HandDispatch, TypeOK
  <1>6. CASE \E f \in Filings : Warrant(f)
    BY <1>1, <1>3, <1>6 DEF Warrant, Approve, DispatchRun, SettleNow, Settle, TypeOK
  <1>7. CASE RenameInput
    BY <1>3, <1>7 DEF RenameInput
  <1> QED
    BY <1>2, <1>3, <1>4, <1>5, <1>6, <1>7, NextCases, RequestRunKeeps, SweepKeeps

\* A run that is new is one of a request that has begun, and carries its SHA
\* unless the input was renamed.
LEMMA NewRunRecordInv ==
    ASSUME TypeOK, FilingInv, RecordInv, NEW f \in Filings \union {Nobody}, NewRun(f),
           UNCHANGED <<policy, pc, input>>, f # Nobody => pc[f] # "idle",
           NEW i \in DOMAIN runs', runs'[i].cause # Nobody
    PROVE  pc'[runs'[i].cause] # "idle" /\ (runs'[i].carries \/ input'[runs'[i].cause] < policy')
  <1>1. Len(runs') = Len(runs) + 1 /\ (\A j \in 1..Len(runs) : runs'[j] = runs[j])
        /\ runs'[Len(runs')].cause = f
        /\ runs'[Len(runs')].carries = (f # Nobody /\ input[f] = policy)
        /\ runs' \in Seq(Run)
    BY NewRunType
  <1>2. CASE i \in 1..Len(runs)
    <2>1. runs'[i] = runs[i] /\ i \in DOMAIN runs
      BY <1>1, <1>2 DEF TypeOK
    <2>2. pc[runs[i].cause] # "idle" /\ (runs[i].carries \/ input[runs[i].cause] < policy)
      BY <2>1 DEF RecordInv
    <2> QED
      BY <2>1, <2>2
  <1>3. CASE i = Len(runs')
    <2>1. f \in Filings /\ f # Nobody
      BY <1>1, <1>3
    <2>2. input[f] \in Nat /\ policy \in Nat /\ input[f] <= policy
      BY <2>1, BoundsAssumption DEF FilingInv, TypeOK
    <2>3. ASSUME input[f] = policy PROVE runs'[i].carries
      <3>1. runs'[i].carries = TRUE
        BY <1>1, <1>3, <2>1, <2>3
      <3> QED
        BY <3>1, Zenon
    <2>4. pc[f] # "idle" /\ (runs'[i].carries \/ input[f] < policy)
      BY <2>1, <2>2, <2>3
    <2> QED
      BY <1>1, <1>3, <2>4
  <1>4. i \in 1..Len(runs) \/ i = Len(runs')
    BY <1>1 DEF TypeOK
  <1> QED
    BY <1>2, <1>3, <1>4

LEMMA StepRecordInv == TypeOK /\ FilingInv /\ RecordInv /\ [Next]_vars => RecordInv'
  <1> SUFFICES ASSUME TypeOK, FilingInv, RecordInv, [Next]_vars PROVE RecordInv'
    OBVIOUS
  <1> USE DEF outside, request
  <1>1. CASE RenameInput
    <2>1. UNCHANGED <<runs, record, pc, input>> /\ policy' = policy + 1
      BY <1>1 DEF RenameInput
    <2>2. \A i \in DOMAIN runs : runs[i].cause # Nobody => runs[i].cause \in Filings
      <3>1. \A i \in DOMAIN runs : runs[i] \in Run
        BY DEF TypeOK
      <3> QED
        BY <3>1 DEF Run
    <2>3. \A g \in Filings : input[g] \in Nat /\ policy \in Nat
      BY BoundsAssumption DEF TypeOK
    <2> QED
      BY <2>1, <2>2, <2>3 DEF RecordInv, NeverRuns
  <1>2. CASE OtherRun \/ \E f \in Filings : HandDispatch(f)
    <2>1. PICK f \in Filings \union {Nobody} : NewRun(f) /\ (f # Nobody => pc[f] # "idle")
      BY <1>2 DEF OtherRun, HandDispatch
    <2>2. UNCHANGED <<policy, pc, input, record>>
      BY <1>2 DEF OtherRun, HandDispatch
    <2>3. \A i \in DOMAIN runs' : runs'[i].cause # Nobody =>
             pc'[runs'[i].cause] # "idle" /\ (runs'[i].carries \/ input'[runs'[i].cause] < policy')
      BY <2>1, <2>2, NewRunRecordInv
    <2>4. \A g \in Filings : record[g].run \in Nat
      BY BoundsAssumption DEF TypeOK, Record
    <2> QED
      BY <2>2, <2>3, <2>4, RunsKept DEF RecordInv, NeverRuns
  <1>3. CASE RunEnds
    <2>1. UNCHANGED <<policy, pc, input, record>> /\ Len(runs') = Len(runs) /\ DOMAIN runs' = DOMAIN runs
      BY <1>3 DEF RunEnds, TypeOK
    <2>2. \A g \in Filings : record[g].run \in Nat
      BY BoundsAssumption DEF TypeOK, Record
    <2>3. DOMAIN runs = 1..Len(runs) /\ Len(runs) \in Nat
      BY DEF TypeOK
    <2>4. \A i \in DOMAIN runs : runs'[i].cause = runs[i].cause /\ runs'[i].carries = runs[i].carries
              /\ (runs[i].status = "success" => runs'[i].status = "success")
      BY <2>3, RunsKept
    <2> QED
      BY <2>1, <2>2, <2>3, <2>4 DEF RecordInv, NeverRuns
  <1>4. ASSUME NEW f \in Filings, Warrant(f) PROVE RecordInv'
    <2>1. CASE Approve(f) \/ \E from \in {"approved", "pending"}, to \in NothingDispatched :
                                SettleNow(f, from, to)
      <3>1. UNCHANGED <<policy, runs, pc, input>>
        BY <2>1 DEF Approve, SettleNow
      <3>2. /\ record[f].status \in {"approved", "pending"} /\ record'[f].run = record[f].run
            /\ \A g \in Filings \ {f} : record'[g] = record[g]
            /\ \/ record'[f].outcome = record[f].outcome
               \/ /\ record'[f].outcome \in NothingDispatched \union {"none"}
                  /\ record'[f].status \in NothingDispatched
        BY <2>1, ApproveWrites, SettleNowWrites
      <3>3. record[f].outcome \notin NothingDispatched /\ record[f].run = 0
        BY <3>2 DEF RecordInv, NeverRuns, NothingDispatched
      <3>4. record'[f].outcome # "success"
        BY <3>2, <3>3 DEF RecordInv, NothingDispatched
      <3> QED
        BY <3>1, <3>2, <3>3, <3>4 DEF RecordInv, NeverRuns
    <2>2. CASE Settle(f)
      <3>1. UNCHANGED <<policy, runs, pc, input>>
        BY <2>2 DEF Settle
      <3>2. /\ record[f].run # 0 /\ record'[f].run = record[f].run
            /\ record'[f].status = record[f].status
            /\ record'[f].outcome = runs[record[f].run].status
            /\ \A g \in Filings \ {f} : record'[g] = record[g]
        BY <2>2, SettleWrites
      <3>3. record[f].run \in 1..Len(runs)
        BY <3>2, BoundsAssumption DEF RecordInv, TypeOK, Record
      <3>4. runs[record[f].run] \in Run
        BY <3>3 DEF TypeOK
      <3>5. record'[f].outcome \notin NothingDispatched
        BY <3>2, <3>4 DEF Run, NothingDispatched
      <3> QED
        BY <3>1, <3>2, <3>5 DEF RecordInv, NeverRuns
    <2>3. CASE DispatchRun(f)
      <3>1. NewRun(f) /\ UNCHANGED <<policy, pc, input>> /\ pc[f] # "idle"
        BY <2>3 DEF DispatchRun, FilingInv, Mirrored
      <3>2. /\ record[f].status = "approved" /\ record'[f].status = "dispatched"
            /\ record'[f].run \in {0, Len(runs')} /\ record'[f].outcome = record[f].outcome
            /\ \A g \in Filings \ {f} : record'[g] = record[g]
        BY <2>3, DispatchWrites
      <3>3. record[f].outcome \notin NothingDispatched /\ record[f].outcome # "success"
        BY <3>2 DEF RecordInv, NeverRuns, NothingDispatched
      <3>4. \A i \in DOMAIN runs' : runs'[i].cause # Nobody =>
               pc'[runs'[i].cause] # "idle" /\ (runs'[i].carries \/ input'[runs'[i].cause] < policy')
        BY <3>1, NewRunRecordInv
      <3>5. runs'[Len(runs')].cause = f
        BY <3>1, NewRunType
      <3>6. \A g \in Filings : record[g].run \in Nat
        BY BoundsAssumption DEF TypeOK, Record
      <3>7. \A g \in Filings \ {f} : record[g].run # 0 =>
               /\ record[g].run <= Len(runs') /\ runs'[record[g].run].cause = g
               /\ record[g].outcome = "success" => runs'[record[g].run].status = "success"
        BY <3>6, RunsKept DEF RecordInv
      <3>8. record'[f].run # 0 => record'[f].run <= Len(runs') /\ runs'[record'[f].run].cause = f
        BY <3>2, <3>5, RunsKept
      <3> QED
        BY <3>2, <3>3, <3>4, <3>7, <3>8 DEF RecordInv, NeverRuns
    <2> QED
      BY <1>4, <2>1, <2>2, <2>3 DEF Warrant, NothingDispatched
  <1>5. CASE UNCHANGED <<policy, runs, pc, input, record>>
    BY <1>5 DEF RecordInv, NeverRuns
  <1> QED
    BY <1>1, <1>2, <1>3, <1>4, <1>5, NextCases, RequestRunRecordInv, SweepKeeps DEF vars

-----------------------------------------------------------------------------
(* What a step leaves of a request. *)

\* A request that has begun keeps its input, and one that can never run never
\* will; a retired one stays retired, by the same successor.
LEMMA RequestKept ==
    ASSUME TypeOK, FilingInv, [Next]_vars, NEW g \in Filings
    PROVE  /\ pc[g] # "idle" => pc'[g] # "idle" /\ input'[g] = input[g]
           /\ NeverRuns(g) => NeverRuns(g)'
           /\ Mirrored(g) => Mirrored(g)'
           /\ record[g].status = "superseded" =>
                 record'[g].status = "superseded" /\ record'[g].by = record[g].by
  <1> DEFINE Kept ==
        /\ pc[g] # "idle" => pc'[g] # "idle" /\ input'[g] = input[g]
        /\ NeverRuns(g) => NeverRuns(g)'
        /\ Mirrored(g) => Mirrored(g)'
        /\ record[g].status = "superseded" =>
              record'[g].status = "superseded" /\ record'[g].by = record[g].by
  <1> SUFFICES Kept
    OBVIOUS
  <1>1. ASSUME NEW f \in Filings, RequestRun(f)
        PROVE  Kept
    <2>1. pc[g] # "idle" => pc'[g] # "idle" /\ input'[g] = input[g]
      BY <1>1, RequestRunFiling
    <2>2. record'[g].status # record[g].status =>
             \/ record[g].status = "none"
             \/ record[g].status = "pending" /\ record'[g].status = "superseded"
      BY <1>1, RequestRunRecord DEF FilingInv, Mirrored
    <2>3. record[g].status = "superseded" => record'[g].by = record[g].by
      <3>1. record[g] \in Record
        BY DEF TypeOK
      <3>2. CASE Filed(f)
        BY <3>2, FiledWrites
      <3>3. CASE Supersede(f) \/ SupersedeFails(f)
        BY <3>3, RetireWrites DEF Supersede, SupersedeFails
      <3>4. CASE ~Filed(f) /\ ~Supersede(f) /\ ~SupersedeFails(f)
        BY <1>1, <3>4 DEF RequestRun, Filed, SupersedeNot, FileTask, TaskFails, CloseOld,
           Stamp, Dies
      <3> QED
        BY <3>2, <3>3, <3>4
    <2> QED
      BY <2>1, <2>2, <2>3 DEF NeverRuns, NothingDispatched, Mirrored
  <1>2. ASSUME NEW f \in Filings, Warrant(f)
        PROVE  /\ UNCHANGED <<pc, input>>
               /\ record'[g].by = record[g].by
               /\ \/ record'[g].status = record[g].status
                  \/ record[g].status \in {"pending", "approved"} /\ record'[g].status # "none"
    <2>1. UNCHANGED <<pc, input>>
      BY <1>2 DEF Warrant, Approve, DispatchRun, SettleNow, Settle, outside, request
    <2>2. CASE Approve(f)
      BY <2>1, <2>2, ApproveWrites
    <2>3. CASE DispatchRun(f)
      BY <2>1, <2>3, DispatchWrites
    <2>4. CASE Settle(f)
      BY <2>1, <2>4, SettleWrites
    <2>5. CASE \E from \in {"pending", "approved"}, to \in NothingDispatched :
                  SettleNow(f, from, to)
      BY <2>1, <2>5, SettleNowWrites DEF NothingDispatched
    <2> QED
      BY <1>2, <2>2, <2>3, <2>4, <2>5 DEF Warrant, NothingDispatched
  <1>3. ASSUME UNCHANGED <<pc, input, record>> PROVE Kept
    BY <1>3 DEF NeverRuns, Mirrored
  <1>4. ASSUME NEW f \in Filings, Warrant(f)
        PROVE  Kept
    BY <1>2, <1>4 DEF NeverRuns, NothingDispatched, Mirrored
  <1>5. CASE \/ RenameInput \/ OtherRun \/ RunEnds \/ UNCHANGED vars
             \/ \E f \in Filings : HandDispatch(f)
    BY <1>3, <1>5 DEF RenameInput, OtherRun, RunEnds, HandDispatch, outside, request, vars
  <1>6. CASE \/ FetchRecords \/ RecordsFail \/ FetchRuns \/ FetchPolicy \/ SweepTask \/ SweepFails
             \/ \E f \in Filings : ListTask(f)
    <2>1. UNCHANGED <<pc, input, record>>
      BY <1>6, SweepKeeps DEF request
    <2> QED
      BY <1>3, <2>1
  <1> HIDE DEF Kept
  <1> QED
    BY <1>1, <1>4, <1>5, <1>6, NextCases

-----------------------------------------------------------------------------
(* What a sweep has read still holds when it is used. *)

\* A step that is not the sweep's leaves all that the sweep relies on.
LEMMA WorldSweepInv ==
    ASSUME TypeOK, FilingInv, SweepInv, [Next]_vars, UNCHANGED <<phase, cur, book, window, rule>>
    PROVE  SweepInv'
  <1>1. CASE phase = "idle"
    BY <1>1 DEF SweepInv
  <1>2. CASE phase # "idle"
    <2>1. cur \in Filings /\ pc[cur] # "idle"
      BY <1>2 DEF TypeOK, FilingInv
    <2>2. input'[cur] = input[cur] /\ (NeverRuns(cur) => NeverRuns(cur)')
      BY <2>1, RequestKept
    <2>3. /\ Len(runs) \in Nat /\ Len(runs') \in Nat /\ Len(runs) <= Len(runs')
          /\ \A i \in 1..Len(runs) :
               /\ runs'[i].cause = runs[i].cause /\ runs'[i].carries = runs[i].carries
               /\ runs[i].status = "success" => runs'[i].status = "success"
      BY RunsKept
    <2>4. book.run \in Nat /\ Len(window) \in Nat /\ DOMAIN window = 1..Len(window)
      BY BoundsAssumption DEF TypeOK, Record
    <2>5. book.status = "voided" \/ book.outcome \in NothingDispatched => NeverRuns(cur)'
      BY <1>2, <2>2 DEF SweepInv
    <2>6. book.run # 0 => book.run <= Len(runs') /\ runs'[book.run].cause = cur
      BY <1>2, <2>3, <2>4 DEF SweepInv
    <2>7. book.outcome = "success" => book.run # 0 /\ runs'[book.run].status = "success"
      BY <1>2, <2>3, <2>4 DEF SweepInv
    <2>8. phase \in {"policy", "task"} =>
             /\ Len(window) <= Len(runs') /\ book.run <= Len(window)
             /\ \A i \in DOMAIN window : window[i].status = "success" => runs'[i].status = "success"
      BY <1>2, <2>3, <2>4 DEF SweepInv
    <2>9. phase = "task" /\ rule # Unread /\ input'[cur] = rule /\ book.run # 0 =>
             runs'[book.run].carries
      BY <1>2, <2>2, <2>3, <2>4 DEF SweepInv
    <2> QED
      BY <1>2, <2>5, <2>6, <2>7, <2>8, <2>9 DEF SweepInv
  <1> QED
    BY <1>1, <1>2

LEMMA NoRecordIsEmpty ==
    /\ NoRecord.status = "none" /\ NoRecord.run = 0 /\ NoRecord.outcome = "none"
    /\ "none" \notin NothingDispatched
  BY DEF NoRecord, NothingDispatched

LEMMA FetchRecordsSweepInv ==
    ASSUME TypeOK, FilingInv, RecordInv, SweepInv, FetchRecords
    PROVE  SweepInv'
  <1>1. UNCHANGED <<runs, record, cur>> /\ phase' = "runs" /\ book' = record[cur]
        /\ cur \in Filings /\ phase # "idle"
    BY DEF FetchRecords, TypeOK, world
  <1>2. book'.status = "voided" \/ book'.outcome \in NothingDispatched => NeverRuns(cur)'
    BY <1>1 DEF RecordInv, NeverRuns, NothingDispatched
  <1>3. book'.run # 0 => book'.run <= Len(runs) /\ runs[book'.run].cause = cur
    BY <1>1 DEF RecordInv
  <1>4. book'.outcome = "success" => book'.run # 0 /\ runs[book'.run].status = "success"
    BY <1>1 DEF RecordInv
  <1> QED
    BY <1>1, <1>2, <1>3, <1>4 DEF SweepInv

LEMMA BeginSweepInv ==
    ASSUME TypeOK, SweepInv, RecordsFail \/ \E f \in Filings : ListTask(f)
    PROVE  SweepInv'
  <1>1. book' = NoRecord /\ phase' \in {"records", "runs"}
    <2>1. CASE RecordsFail
      <3>1. phase = "records" /\ phase' = "runs" /\ book' = book
        BY <2>1 DEF RecordsFail, reading
      <3> QED
        BY <3>1 DEF SweepInv
    <2>2. CASE \E f \in Filings : ListTask(f)
      BY <2>2 DEF ListTask, reading, SweepInv
    <2> QED
      BY <2>1, <2>2
  <1> QED
    BY <1>1, NoRecordIsEmpty DEF SweepInv

LEMMA FetchRunsSweepInv ==
    ASSUME TypeOK, SweepInv, FetchRuns
    PROVE  SweepInv'
  <1>1. UNCHANGED <<runs, record, cur, book>> /\ window' = runs
        /\ phase # "idle" /\ phase' = "policy"
    BY DEF FetchRuns, world
  <1>2. book.run = 0 \/ book.run <= Len(runs)
    BY <1>1 DEF SweepInv
  <1>3. Len(runs) \in Nat
    BY DEF TypeOK
  <1> QED
    BY <1>1, <1>2, <1>3 DEF SweepInv, NeverRuns

LEMMA FetchPolicySweepInv ==
    ASSUME TypeOK, FilingInv, RecordInv, SweepInv, FetchPolicy
    PROVE  SweepInv'
  <1>1. UNCHANGED <<policy, runs, input, record, cur, book, window>>
        /\ phase = "policy" /\ phase' = "task"
    BY DEF FetchPolicy, world, request
  <1>2. rule' = policy \/ (PolicyFails /\ rule' = Unread)
    BY DEF FetchPolicy
  <1>3. cur \in Filings /\ cur # Nobody /\ policy \in Nat /\ policy # Unread
    BY <1>1, BoundsAssumption, NamesAssumption DEF TypeOK
  <1>4. ASSUME rule' # Unread, input[cur] = rule', book.run # 0 PROVE runs[book.run].carries
    <2>1. input[cur] = policy
      BY <1>2, <1>4
    <2>2. book.run \in DOMAIN runs /\ runs[book.run].cause = cur
      BY <1>1, <1>4, BoundsAssumption DEF SweepInv, TypeOK, Record
    <2>3. runs[book.run].carries \/ input[cur] < policy
      BY <1>3, <2>2 DEF RecordInv
    <2> QED
      BY <1>3, <2>1, <2>3
  <1> QED
    BY <1>1, <1>2, <1>3, <1>4 DEF SweepInv, NeverRuns

LEMMA StepSweepInv == TypeOK /\ FilingInv /\ RecordInv /\ SweepInv /\ [Next]_vars => SweepInv'
  <1> SUFFICES ASSUME TypeOK, FilingInv, RecordInv, SweepInv, [Next]_vars PROVE SweepInv'
    OBVIOUS
  <1>1. CASE \/ RenameInput \/ OtherRun \/ RunEnds \/ UNCHANGED vars
             \/ \E f \in Filings : RequestRun(f) \/ HandDispatch(f) \/ Warrant(f)
    <2>1. UNCHANGED <<phase, cur, book, window, rule>>
      <3>1. CASE RenameInput \/ OtherRun \/ RunEnds \/ UNCHANGED vars
        BY <3>1 DEF RenameInput, OtherRun, RunEnds, vars, outside, sweep, reading
      <3>2. CASE \E f \in Filings : RequestRun(f)
        BY <3>2, RequestRunKeeps DEF sweep, reading
      <3>3. CASE \E f \in Filings : HandDispatch(f) \/ Warrant(f)
        BY <3>3 DEF HandDispatch, Warrant, Approve, DispatchRun, SettleNow, Settle, outside,
           sweep, reading
      <3> QED
        BY <1>1, <3>1, <3>2, <3>3
    <2> QED
      BY <2>1, WorldSweepInv
  <1>2. CASE SweepTask \/ SweepFails
    <2>1. phase' = "idle" /\ book' = NoRecord
      BY <1>2 DEF SweepTask, SweepFails, EndSweep
    <2> QED
      BY <2>1 DEF SweepInv
  <1> QED
    BY <1>1, <1>2, NextCases, FetchRecordsSweepInv, BeginSweepInv, FetchRunsSweepInv,
       FetchPolicySweepInv

-----------------------------------------------------------------------------
(* The invariants hold of every behaviour. *)

IInv == TypeOK /\ FilingInv /\ RecordInv /\ SweepInv

LEMMA InitIInv == Init => IInv
  <1> SUFFICES ASSUME Init PROVE IInv
    OBVIOUS
  <1>1. FilingInv
    BY DEF Init, FilingInv, Mirrored, NoRecord
  <1>2. RecordInv
    <2>1. \A f \in Filings : record[f].run = 0 /\ record[f].outcome = "none"
      BY DEF Init, NoRecord
    <2>2. DOMAIN runs = {}
      BY DEF Init
    <2> QED
      BY <2>1, <2>2, NoRecordIsEmpty DEF RecordInv
  <1>3. SweepInv
    BY DEF Init, SweepInv
  <1> QED
    BY <1>1, <1>2, <1>3, InitTypeOK DEF IInv

LEMMA Invariance == Spec => []IInv
  <1>1. IInv /\ [Next]_vars => IInv'
    BY StepTypeOK, StepFilingInv, StepRecordInv, StepSweepInv DEF IInv
  <1> QED
    BY <1>1, InitIInv, PTL DEF Spec

\* The variables stay in their types: in particular, no record names a run
\* beyond the runs there are, and the sweep looks at a request that was filed.
THEOREM TypeCorrect == Spec => []TypeOK
  <1>1. IInv => TypeOK
    BY DEF IInv
  <1> QED
    BY <1>1, Invariance, PTL

\* What request-run closes was retired in Warrant and stays so, or looks like
\* what was, whoever decides on it and wherever a script dies.
THEOREM ClosedIsRetired == Spec => []ClosedMeansRetired
  <1>1. Init => ClosedMeansRetired
    BY DEF Init, ClosedMeansRetired
  <1>2. IInv /\ ClosedMeansRetired /\ [Next]_vars => ClosedMeansRetired'
    <2> SUFFICES ASSUME IInv, ClosedMeansRetired, [Next]_vars, NEW g \in Filings,
                        task'[g] = "request-run"
                 PROVE  \E h \in Filings : g \in Alike[h] /\ record'[h].status = "superseded"
      BY DEF ClosedMeansRetired
    <2> USE DEF IInv
    <2>1. CASE task[g] = "request-run"
      <3>1. PICK h \in Filings : g \in Alike[h] /\ record[h].status = "superseded"
        BY <2>1 DEF ClosedMeansRetired
      <3> QED
        BY <3>1, RequestKept
    <2>2. CASE task[g] # "request-run"
      <3>1. \E f \in Filings : CloseOld(f)
        <4>1. CASE \E f \in Filings : RequestRun(f)
          BY <2>2, <4>1 DEF RequestRun, File, FileUnmirrored, Supersede, SupersedeNot,
             SupersedeFails, FileTask, TaskFails, Stamp, Dies, tasks, TypeOK
        <4>2. CASE \/ RenameInput \/ OtherRun \/ RunEnds \/ UNCHANGED vars
                   \/ \E f \in Filings : HandDispatch(f) \/ Warrant(f) \/ ListTask(f)
          BY <2>2, <4>2 DEF RenameInput, OtherRun, RunEnds, HandDispatch, Warrant, Approve,
             DispatchRun, SettleNow, Settle, ListTask, outside, tasks, vars, world
        <4>3. CASE FetchRecords \/ RecordsFail \/ FetchRuns \/ FetchPolicy \/ SweepTask \/ SweepFails
          BY <2>2, <4>3 DEF FetchRecords, RecordsFail, FetchRuns, FetchPolicy, SweepTask,
             SweepFails, tasks, world, TypeOK
        <4> QED
          BY <4>1, <4>2, <4>3, NextCases
      <3>2. PICK f \in Filings : CloseOld(f)
        BY <3>1
      <3>3. Matches(old[f]) = {g} /\ pc[f] = "close" /\ record' = record
        BY <2>2, <3>2 DEF CloseOld, Goto
      <3>4. g \in Alike[old[f]]
        BY <3>3 DEF Matches
      <3>5. old[f] \in Filings /\ old[f] # Nobody
        BY <3>3 DEF FilingInv, TypeOK
      <3> QED
        BY <3>3, <3>4, <3>5 DEF FilingInv
    <2> QED
      BY <2>1, <2>2
  <1> QED
    BY <1>1, <1>2, Invariance, PTL DEF Spec

\* A request is retired only by one that is in Warrant's queue: also when that
\* one dies right after, something is left to decide on.
THEOREM RetiredHasSuccessor == Spec => []SupersededHasSuccessor
  <1>1. Init => SupersededHasSuccessor
    BY DEF Init, SupersededHasSuccessor, NoRecord
  <1>2. IInv /\ SupersededHasSuccessor /\ [Next]_vars => SupersededHasSuccessor'
    <2> SUFFICES ASSUME IInv, SupersededHasSuccessor, [Next]_vars, NEW g \in Filings,
                        record'[g].status = "superseded"
                 PROVE  record'[g].by # Nobody /\ record'[record'[g].by].status # "none"
      BY DEF SupersededHasSuccessor, Mirrored
    <2> USE DEF IInv
    <2>1. CASE record[g].status = "superseded"
      <3>1. record'[g].by = record[g].by /\ record[g].by # Nobody /\ Mirrored(record[g].by)
        BY <2>1, RequestKept DEF SupersededHasSuccessor
      <3>2. record[g] \in Record
        BY DEF TypeOK
      <3>3. record[g].by \in Filings
        BY <3>1, <3>2 DEF Record
      <3>4. Mirrored(record[g].by)'
        BY <3>1, <3>3, RequestKept
      <3> QED
        BY <3>1, <3>4 DEF Mirrored
    <2>2. CASE record[g].status # "superseded"
      <3>1. \E f \in Filings : Mirrored(f) /\ Retire(f)
        <4>1. ASSUME NEW f \in Filings, RequestRun(f) PROVE Mirrored(f) /\ Retire(f)
          <5>1. CASE Filed(f)
            BY <2>2, <5>1, FiledWrites
          <5>2. CASE Supersede(f) \/ SupersedeFails(f)
            BY <2>2, <5>2 DEF Supersede, SupersedeFails, FilingInv
          <5>3. CASE ~Filed(f) /\ ~Supersede(f) /\ ~SupersedeFails(f)
            BY <2>2, <4>1, <5>3 DEF RequestRun, Filed, SupersedeNot, FileTask, TaskFails,
               CloseOld, Stamp, Dies
          <5> QED
            BY <5>1, <5>2, <5>3
        <4>2. ASSUME NEW f \in Filings, Warrant(f) PROVE FALSE
          <5>1. CASE Approve(f) \/ DispatchRun(f) \/ Settle(f)
            BY <2>2, <5>1, ApproveWrites, DispatchWrites, SettleWrites
          <5>2. CASE \E from \in {"pending", "approved"}, to \in NothingDispatched :
                        SettleNow(f, from, to)
            BY <2>2, <5>2, SettleNowWrites DEF NothingDispatched
          <5> QED
            BY <4>2, <5>1, <5>2 DEF Warrant, NothingDispatched
        <4>3. record' # record
          BY <2>2
        <4>4. CASE \/ RenameInput \/ OtherRun \/ RunEnds \/ UNCHANGED vars
                   \/ \E f \in Filings : HandDispatch(f)
          BY <4>3, <4>4 DEF RenameInput, OtherRun, RunEnds, HandDispatch, vars
        <4>5. CASE \/ FetchRecords \/ RecordsFail \/ FetchRuns \/ FetchPolicy \/ SweepTask \/ SweepFails
                   \/ \E f \in Filings : ListTask(f)
          BY <4>3, <4>5, SweepKeeps
        <4> QED
          BY <4>1, <4>2, <4>4, <4>5, NextCases
      <3>2. PICK f \in Filings : Mirrored(f) /\ Retire(f)
        BY <3>1
      <3>3. g = old[f] /\ record'[g].by = f
        BY <2>2, <3>2, RetireWrites
      <3>4. f # Nobody /\ Mirrored(f)'
        BY <3>2, RequestKept, NamesAssumption
      <3> QED
        BY <3>3, <3>4 DEF Mirrored
    <2> QED
      BY <2>1, <2>2
  <1> QED
    BY <1>1, <1>2, Invariance, PTL DEF Spec

\* When the policy can be read, what a sweep closes on Warrant's record ran as
\* approved, or can never run: the records, the runs and the policy are read at
\* three different times, and none of them is read again.
THEOREM RecordedIsOwn == ASSUME ~PolicyFails PROVE Spec => []RecordedMeansOwnRun
  <1>1. Init => RecordedMeansOwnRun
    BY DEF Init, RecordedMeansOwnRun
  <1>2. IInv /\ RecordedMeansOwnRun /\ [Next]_vars => RecordedMeansOwnRun'
    <2> SUFFICES ASSUME IInv, RecordedMeansOwnRun, [Next]_vars, NEW g \in Filings,
                        task'[g] = "recorded"
                 PROVE  OwnRunSucceeded(g)' \/ NeverRuns(g)'
      BY DEF RecordedMeansOwnRun
    <2> USE DEF IInv
    <2>1. OwnRunSucceeded(g) => OwnRunSucceeded(g)'
      <3>1. DOMAIN runs = 1..Len(runs) /\ DOMAIN runs' = 1..Len(runs')
        BY StepTypeOK DEF TypeOK
      <3>2. \A i \in DOMAIN runs : /\ i \in DOMAIN runs' /\ runs'[i].cause = runs[i].cause
                                   /\ runs'[i].carries = runs[i].carries
                                   /\ runs[i].status = "success" => runs'[i].status = "success"
        BY <3>1, RunsKept
      <3> QED
        BY <3>2 DEF OwnRunSucceeded
    <2>2. NeverRuns(g) => NeverRuns(g)'
      BY RequestKept
    <2>3. CASE task[g] = "recorded"
      BY <2>1, <2>2, <2>3 DEF RecordedMeansOwnRun
    <2>4. CASE task[g] # "recorded"
      <3>1. SweepTask
        <4>1. CASE \E f \in Filings : RequestRun(f)
          BY <2>4, <4>1 DEF RequestRun, File, FileUnmirrored, Supersede, SupersedeNot,
             SupersedeFails, FileTask, TaskFails, CloseOld, Stamp, Dies, tasks, TypeOK
        <4>2. CASE \/ RenameInput \/ OtherRun \/ RunEnds \/ UNCHANGED vars
                   \/ \E f \in Filings : HandDispatch(f) \/ Warrant(f) \/ ListTask(f)
          BY <2>4, <4>2 DEF RenameInput, OtherRun, RunEnds, HandDispatch, Warrant, Approve,
             DispatchRun, SettleNow, Settle, ListTask, outside, tasks, vars, world
        <4>3. CASE FetchRecords \/ RecordsFail \/ FetchRuns \/ FetchPolicy \/ SweepFails
          BY <2>4, <4>3 DEF FetchRecords, RecordsFail, FetchRuns, FetchPolicy, SweepFails, tasks,
             world
        <4> QED
          BY <4>1, <4>2, <4>3, NextCases
      <3>2. PICK run \in Attribution :
               task' = IF task[cur] = "open" /\ (SettledCloses \/ UnsettledCloses(run))
                       THEN [task EXCEPT ![cur] =
                               IF Evidence = NoRecord THEN "inferred" ELSE "recorded"]
                       ELSE task
        BY <3>1 DEF SweepTask
      <3>3. g = cur /\ Evidence # NoRecord /\ (SettledCloses \/ UnsettledCloses(run))
        BY <2>4, <3>2 DEF TypeOK
      <3>4. Evidence = book /\ phase = "task" /\ rule # Unread
        BY <3>1, <3>3 DEF Evidence, SweepTask, SweepInv
      <3>5. book.run \in Nat
        BY BoundsAssumption DEF TypeOK, Record
      <3>6. ASSUME book.run # 0, input[cur] = rule, runs[book.run].status = "success"
            PROVE  OwnRunSucceeded(cur)
        <4>1. book.run <= Len(runs) /\ runs[book.run].cause = cur /\ runs[book.run].carries
          BY <3>4, <3>6 DEF SweepInv
        <4>2. book.run \in DOMAIN runs
          BY <3>5, <3>6, <4>1 DEF TypeOK
        <4> QED
          BY <3>6, <4>1, <4>2 DEF OwnRunSucceeded
      <3>7. CASE SettledCloses
        <4>1. CASE book.outcome = "success" /\ ~BindingMismatch
          BY <3>3, <3>4, <3>6, <4>1, <2>1 DEF BindingMismatch, SweepInv
        <4>2. CASE book.outcome \in NothingDispatched
          BY <3>3, <3>4, <4>2, <2>2 DEF SweepInv
        <4> QED
          BY <3>4, <3>7, <4>1, <4>2 DEF SettledCloses
      <3>8. CASE UnsettledCloses(run)
        <4>1. CASE book.status = "voided"
          BY <3>3, <3>4, <4>1, <2>2 DEF SweepInv
        <4>2. CASE run # 0 /\ ~BindingMismatch /\ window[run].status = "success"
          <5>1. book.run # 0 /\ run = book.run
            BY <3>2, <3>3, <3>4, <4>2 DEF Attribution
          <5>2. run \in DOMAIN window
            BY <3>4, <3>5, <5>1 DEF SweepInv, TypeOK
          <5>3. runs[book.run].status = "success" /\ input[cur] = rule
            BY <3>4, <4>2, <5>1, <5>2 DEF SweepInv, BindingMismatch
          <5> QED
            BY <3>3, <3>6, <5>1, <5>3, <2>1
        <4> QED
          BY <3>3, <3>4, <3>8, <4>1, <4>2 DEF UnsettledCloses
      <3> QED
        BY <3>3, <3>7, <3>8
    <2> QED
      BY <2>3, <2>4
  <1> QED
    BY <1>1, <1>2, Invariance, PTL DEF Spec

=============================================================================
