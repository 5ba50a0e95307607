------------------------ MODULE IndriSwitch_proofs ------------------------
(***************************************************************************)
(* Proofs about IndriSwitch, for any number of launches and commits and    *)
(* any bounds: type correctness, the exclusion the mkdir lock gives as     *)
(* long as no live shell's is removed, and, from both, the order of the    *)
(* generations and what becomes of every merge as long as only pushes     *)
(* start one.                                                              *)
(***************************************************************************)
EXTENDS IndriSwitch, TLAPS

\* One case per action: what every proof that a step preserves something needs.
LEMMA NextCases ==
    ASSUME Next
    PROVE  \/ Merge \/ Refuse \/ (\E c \in Commit : Dispatch(c)) \/ Reboot
           \/ \E l \in Launches :
                \/ WorkflowCheckout(l) \/ (\E t \in Target : HumanCheckout(l, t))
                \/ Spawn(l) \/ PlayKilled(l) \/ AwaitVerdict(l) \/ AwaitTimeout(l)
                \/ MakeLock(l) \/ LockTaken(l) \/ ReadHolder(l) \/ ProbeStale(l)
                \/ ProbeWait(l) \/ GiveUp(l) \/ Reclaim(l) \/ WritePid(l)
                \/ Superseded(l) \/ GoAhead(l) \/ WriteStarted(l) \/ Evaluate(l)
                \/ Activate(l) \/ SwitchFails(l) \/ WriteVerdict(l) \/ ExitTrap(l)
  BY DEF Next, Forge, Play, Shell, Lock, Switch

-----------------------------------------------------------------------------
(* Type correctness. *)

LEMMA InitTypeOK == Init => TypeOK
  <1> SUFFICES ASSUME Init PROVE TypeOK
    OBVIOUS
  <1>1. 0 \in Commit /\ 0 \in Target
    BY CommitsAssumption DEF Commit, Target
  <1>2. queue \in Seq(Commit)
    BY DEF Init
  <1>3. 0 \in 0..MaxTries /\ 0 \in 0..MaxManual /\ 0 \in 0..MaxFaults
    BY BoundsAssumption
  <1> QED
    BY <1>1, <1>2, <1>3 DEF Init, TypeOK, PlayPc

\* The forge's steps keep the types.
LEMMA ForgeTypeOK ==
    TypeOK /\ (Merge \/ Refuse \/ Reboot \/ \E c \in Commit : Dispatch(c)) => TypeOK'
  <1> SUFFICES ASSUME TypeOK,
                      Merge \/ Refuse \/ Reboot \/ \E c \in Commit : Dispatch(c)
               PROVE  TypeOK'
    OBVIOUS
  <1> USE CommitsAssumption, BoundsAssumption
  <1>1. CASE Merge
    <2>1. main + 1 \in Commit
      BY <1>1 DEF Merge, TypeOK, Commit, repo
    <2>2. queue' \in Seq(Commit)
      BY <1>1, <2>1 DEF Merge, TypeOK, repo
    <2> QED
      BY <1>1, <2>1, <2>2 DEF Merge, TypeOK, shell, repo
  <1>2. CASE Refuse
    <2>1. Head(queue) \in Commit /\ Tail(queue) \in Seq(Commit)
      BY <1>2 DEF Refuse, TypeOK, repo
    <2>2. faults + 1 \in 0..MaxFaults
      BY <1>2 DEF Refuse, TypeOK, repo
    <2> QED
      BY <1>2, <2>1, <2>2 DEF Refuse, TypeOK, shell, repo
  <1>3. CASE Reboot
    BY <1>3 DEF Reboot, TypeOK, shell, PlayPc, Ended, repo
  <1>4. ASSUME NEW c \in Commit, Dispatch(c) PROVE TypeOK'
    BY <1>4 DEF Dispatch, TypeOK, shell, Commit, repo
  <1> QED
    BY <1>1, <1>2, <1>3, <1>4

\* The play's steps keep the types.
LEMMA PlayTypeOK == ASSUME TypeOK, NEW l \in Launches, Play(l) PROVE TypeOK'
  <1> USE CommitsAssumption, BoundsAssumption
  <1>1. CASE WorkflowCheckout(l)
    <2>1. Head(queue) \in Commit /\ Tail(queue) \in Seq(Commit)
      BY <1>1 DEF WorkflowCheckout, TypeOK, repo, CheckoutMain, Checkout
    <2>2. Head(queue) # Tip
      BY <2>1, NamesAssumption DEF Commit
    <2> QED
      BY <1>1, <2>1, <2>2
         DEF WorkflowCheckout, Checkout, TypeOK, shell, PlayPc, Ended, Target, repo, CheckoutMain
  <1>2. ASSUME NEW t \in Target, HumanCheckout(l, t) PROVE TypeOK'
    <2>1. PICK commit \in Commit, changed \in BOOLEAN :
             Checkout(l, "human", t, commit, changed)
      <3>1. main \in Commit /\ 0..main \subseteq Commit
        BY DEF TypeOK, Commit
      <3>2. CASE t = Tip /\ CheckoutMain(l, "human", t)
        BY <3>1, <3>2, NamesAssumption DEF CheckoutMain
      <3>3. CASE t \in 0..main /\ CheckoutMain(l, "human", t)
        BY <3>1, <3>3, NamesAssumption DEF CheckoutMain
      <3>4. CASE \E fork \in 0..main, changed \in BOOLEAN : Checkout(l, "human", t, fork, changed)
        BY <3>1, <3>4
      <3> QED
        BY <1>2, <3>2, <3>3, <3>4 DEF HumanCheckout
    <2>2. manual' \in 0..MaxManual /\ UNCHANGED <<shell, main, queue, refused, faults>>
      BY <1>2 DEF HumanCheckout, TypeOK
    <2> QED
      BY <2>1, <2>2 DEF Checkout, TypeOK, shell, PlayPc, Ended, Target
  <1>3. CASE Spawn(l)
    BY <1>3 DEF Spawn, environment, TypeOK, Live, Waiting, repo
  <1>4. CASE PlayKilled(l)
    BY <1>4 DEF PlayKilled, shell, TypeOK, Ended, repo
  <1>5. CASE AwaitVerdict(l)
    BY <1>5 DEF AwaitVerdict, shell, environment, TypeOK, repo
  <1>6. CASE AwaitTimeout(l)
    BY <1>6 DEF AwaitTimeout, shell, environment, TypeOK, repo
  <1> QED
    BY <1>1, <1>2, <1>3, <1>4, <1>5, <1>6 DEF Play

\* The steps of the lock loop keep the types.
LEMMA LockTypeOK == ASSUME TypeOK, NEW l \in Launches, Lock(l) PROVE TypeOK'
  <1> USE DEF ShellStep, environment, shell, TypeOK, Live, Waiting, Critical, Ended, Verdicts, repo
  <1>1. CASE MakeLock(l)
    BY <1>1, BoundsAssumption DEF MakeLock, LeaveLoop
  <1>2. CASE LockTaken(l)
    BY <1>2, BoundsAssumption DEF LockTaken
  <1>3. CASE ReadHolder(l)
    BY <1>3 DEF ReadHolder
  <1>4. CASE ProbeStale(l)
    BY <1>4 DEF ProbeStale
  <1>5. CASE ProbeWait(l)
    BY <1>5 DEF ProbeWait
  <1>6. CASE GiveUp(l)
    BY <1>6, BoundsAssumption DEF GiveUp, LeaveLoop
  <1>7. CASE Reclaim(l)
    BY <1>7 DEF Reclaim
  <1> QED
    BY <1>1, <1>2, <1>3, <1>4, <1>5, <1>6, <1>7 DEF Lock

\* The steps from the lock to the exit trap keep the types.
LEMMA SwitchTypeOK == ASSUME TypeOK, NEW l \in Launches, Switch(l) PROVE TypeOK'
  <1> USE DEF ShellStep, environment, shell, TypeOK, Live, Critical, Switching, Ended, Verdicts, repo
  <1>1. CASE WritePid(l)
    BY <1>1 DEF WritePid
  <1>2. CASE Superseded(l)
    BY <1>2 DEF Superseded
  <1>3. CASE GoAhead(l)
    BY <1>3 DEF GoAhead
  <1>4. CASE WriteStarted(l)
    BY <1>4 DEF WriteStarted
  <1>5. CASE Evaluate(l)
    BY <1>5 DEF Evaluate
  <1>6. CASE Activate(l)
    BY <1>6 DEF Activate
  <1>7. CASE SwitchFails(l)
    BY <1>7 DEF SwitchFails
  <1>8. CASE WriteVerdict(l)
    BY <1>8 DEF WriteVerdict
  <1>9. CASE ExitTrap(l)
    BY <1>9 DEF ExitTrap
  <1> QED
    BY <1>1, <1>2, <1>3, <1>4, <1>5, <1>6, <1>7, <1>8, <1>9 DEF Switch

LEMMA NextTypeOK == TypeOK /\ [Next]_vars => TypeOK'
  <1> SUFFICES ASSUME TypeOK, [Next]_vars PROVE TypeOK'
    OBVIOUS
  <1>1. CASE Forge \/ Reboot
    BY <1>1, ForgeTypeOK DEF Forge
  <1>2. ASSUME NEW l \in Launches, Play(l) \/ Shell(l) PROVE TypeOK'
    BY <1>2, PlayTypeOK, LockTypeOK, SwitchTypeOK DEF Shell
  <1>3. CASE UNCHANGED vars
    BY <1>3 DEF vars, TypeOK, repo
  <1> QED
    BY <1>1, <1>2, <1>3 DEF Next

\* Every variable keeps its type, whatever is merged, dispatched, killed or
\* rebooted.
THEOREM TypeCorrect == Spec => []TypeOK
  BY InitTypeOK, NextTypeOK, PTL DEF Spec

-----------------------------------------------------------------------------
(* The mkdir lock. *)

LEMMA InitLockInv == Init => LockInv
  BY DEF Init, LockInv, MutualExclusion, Critical, Switching

\* What a step of a shell does to the places of all launches.
LEMMA ShellStepPc ==
    ASSUME TypeOK, NEW l \in Launches, NEW from, NEW to, ShellStep(l, from, to)
    PROVE  /\ pc[l] = from
           /\ \A k \in Launches : pc'[k] = IF k = l THEN to ELSE pc[k]
  BY DEF TypeOK, ShellStep, repo

\* A step that moves no launch into the critical section, and touches neither
\* the lock nor the places of those that stay in it, keeps LockInv.
LEMMA NoEntryLockInv ==
    ASSUME LockInv, lock' = lock, stolen' = stolen,
           \A k \in Launches : pc'[k] = pc[k] \/ pc'[k] \notin Critical
    PROVE  LockInv'
  BY DEF LockInv, MutualExclusion, Critical, Switching

\* Steps of the forge and of the play touch neither the lock nor a live shell,
\* except to kill it.
LEMMA OtherLockInv ==
    ASSUME TypeOK, LockInv, Forge \/ Reboot \/ \E l \in Launches : Play(l)
    PROVE  LockInv'
  <1>1. lock' = lock /\ stolen' = stolen
    BY DEF Forge, Merge, Refuse, Dispatch, Reboot, Play, WorkflowCheckout, HumanCheckout,
           Spawn, PlayKilled, AwaitVerdict, AwaitTimeout, shell, repo, CheckoutMain, Checkout
  <1>2. \A k \in Launches : pc'[k] = pc[k] \/ pc'[k] \notin Critical
    <2>1. CASE Forge
      BY <2>1 DEF Forge, Merge, Refuse, Dispatch, repo
    <2>2. CASE Reboot
      BY <2>2 DEF Reboot, Critical, Switching, repo
    <2>3. ASSUME NEW l \in Launches, Play(l), NEW k \in Launches
          PROVE  pc'[k] = pc[k] \/ pc'[k] \notin Critical
      BY <2>3 DEF TypeOK, Play, WorkflowCheckout, HumanCheckout, Checkout, Spawn, PlayKilled,
                  AwaitVerdict, AwaitTimeout, Critical, Switching, repo, CheckoutMain
    <2> QED
      BY <2>1, <2>2, <2>3
  <1> QED
    BY <1>1, <1>2, NoEntryLockInv

LEMMA ShellLockInv ==
    ASSUME TypeOK, LockInv, NEW l \in Launches, Shell(l)
    PROVE  LockInv'
  <1>1. CASE MakeLock(l)
    <2>1. pc[l] = "acquire" /\ \A k \in Launches : pc'[k] = IF k = l THEN "own" ELSE pc[k]
      BY <1>1, ShellStepPc DEF MakeLock
    <2>2. lock = Free /\ lock' = NoPid /\ stolen' = stolen
      BY <1>1 DEF MakeLock
    <2>3. ~stolen => \A k \in Launches : pc[k] \notin Critical
      BY <2>2, NamesAssumption DEF LockInv
    <2> QED
      BY <2>1, <2>2, <2>3 DEF LockInv, MutualExclusion
  <1>2. CASE LockTaken(l) \/ ReadHolder(l) \/ ProbeStale(l) \/ ProbeWait(l) \/ GiveUp(l)
    <2>1. lock' = lock /\ stolen' = stolen
      BY <1>2 DEF LockTaken, ReadHolder, ProbeStale, ProbeWait, GiveUp, shell, repo
    <2>2. \E to \in {"inspect", "probe", "reclaim", "acquire", "done"} :
             \A k \in Launches : pc'[k] = IF k = l THEN to ELSE pc[k]
      BY <1>2, ShellStepPc DEF LockTaken, ReadHolder, ProbeStale, ProbeWait, GiveUp
    <2> QED
      BY <2>1, <2>2, NoEntryLockInv DEF Critical, Switching
  <1>3. CASE Reclaim(l)
    <2>1. \A k \in Launches : pc'[k] = IF k = l THEN "acquire" ELSE pc[k]
      BY <1>3, ShellStepPc DEF Reclaim
    <2>2. ~stolen' => \A k \in Launches : pc[k] \notin Critical
      BY <1>3 DEF Reclaim
    <2>3. ~stolen' => \A k \in Launches : pc'[k] \notin Critical
      BY <2>1, <2>2 DEF Critical, Switching
    <2> QED
      BY <2>3 DEF LockInv, MutualExclusion, Critical
  <1>4. CASE WritePid(l)
    <2>1. pc[l] = "own" /\ \A k \in Launches : pc'[k] = IF k = l THEN "check" ELSE pc[k]
      BY <1>4, ShellStepPc DEF WritePid
    <2>2. ~stolen => lock = NoPid
      BY <2>1 DEF LockInv
    <2>3. stolen' = stolen /\ (~stolen => lock' = l)
      BY <1>4, <2>2, NamesAssumption DEF WritePid
    <2>4. pc[l] \in Critical
      BY <2>1 DEF Critical
    <2> QED
      BY <2>1, <2>3, <2>4 DEF LockInv, MutualExclusion
  <1>5. CASE Superseded(l) \/ GoAhead(l) \/ WriteStarted(l) \/ Evaluate(l)
             \/ Activate(l) \/ SwitchFails(l) \/ WriteVerdict(l)
    <2>1. lock' = lock /\ stolen' = stolen
      BY <1>5 DEF Superseded, GoAhead, WriteStarted, Evaluate, Activate, SwitchFails,
                  WriteVerdict, shell, repo
    <2>2. /\ pc[l] \in Critical \ {"own"}
          /\ \E to \in Critical \ {"own"} :
                \A k \in Launches : pc'[k] = IF k = l THEN to ELSE pc[k]
      BY <1>5, ShellStepPc DEF Superseded, GoAhead, WriteStarted, Evaluate, Activate,
                               SwitchFails, WriteVerdict, Critical, Switching
    <2> QED
      BY <2>1, <2>2 DEF LockInv, MutualExclusion
  <1>6. CASE ExitTrap(l)
    <2>1. pc[l] = "exit" /\ \A k \in Launches : pc'[k] = IF k = l THEN "done" ELSE pc[k]
      BY <1>6, ShellStepPc DEF ExitTrap
    <2>2. stolen' = stolen
      BY <1>6 DEF ExitTrap
    <2>3. ~stolen => \A k \in Launches : pc'[k] \notin Critical
      BY <2>1 DEF LockInv, MutualExclusion, Critical, Switching
    <2> QED
      BY <2>2, <2>3 DEF LockInv, MutualExclusion, Critical
  <1> QED
    BY <1>1, <1>2, <1>3, <1>4, <1>5, <1>6 DEF Shell, Lock, Switch

LEMMA NextLockInv == TypeOK /\ LockInv /\ [Next]_vars => LockInv'
  <1> SUFFICES ASSUME TypeOK, LockInv, [Next]_vars PROVE LockInv'
    OBVIOUS
  <1>1. CASE UNCHANGED vars
    BY <1>1 DEF vars, LockInv, MutualExclusion, repo
  <1> QED
    BY <1>1, OtherLockInv, ShellLockInv DEF Next

LEMMA LockInvariant == Spec => []LockInv
  BY InitLockInv, NextLockInv, TypeCorrect, PTL DEF Spec

\* The lock of the launcher excludes until a live one is removed as stale: of
\* all a reboot, a killed play or a manual run can do, nothing else lets two
\* switches run together.
THEOREM LockExclusion == Spec => []LockExcludes
  <1>1. LockInv => LockExcludes
    BY DEF LockInv, LockExcludes
  <1> QED
    BY <1>1, LockInvariant, PTL

-----------------------------------------------------------------------------
(* The runs of the merges. *)

LEMMA InitRunInv == Init => RunInv
  <1> SUFFICES ASSUME Init PROVE RunInv
    OBVIOUS
  <1>1. \A d \in Watched : ~(d <= main)
    BY CommitsAssumption DEF Init
  <1>2. \A c \in Commit : status[c] = "none"
    BY DEF Init, Target
  <1> QED
    BY <1>1, <1>2 DEF Init, RunInv

\* A run stays one as long as the queue and the refusals do and the launches
\* keep their targets.
LEMMA RunStays ==
    ASSUME NEW d \in Watched, HasRun(d), queue' = queue, refused' = refused,
           \A l \in Launches : pc[l] # "idle" => pc'[l] # "idle" /\ target'[l] = target[l]
    PROVE  HasRun(d)'
  BY DEF HasRun, Queued

\* Taking the head off the queue keeps the runs behind it queued.
LEMMA TailKeepsQueued ==
    ASSUME TypeOK, queue # <<>>, NEW d, Queued(d), d # Head(queue), queue' = Tail(queue)
    PROVE  Queued(d)'
  <1>1. PICK i \in DOMAIN queue : queue[i] = d
    BY DEF Queued
  <1>2. queue \in Seq(Commit) /\ i \in 1..Len(queue) /\ i # 1
    BY <1>1 DEF TypeOK
  <1>3. i - 1 \in 1..Len(Tail(queue)) /\ Tail(queue)[i - 1] = queue[i]
    BY <1>2
  <1>4. DOMAIN Tail(queue) = 1..Len(Tail(queue))
    BY <1>2
  <1> QED
    BY <1>1, <1>3, <1>4 DEF Queued

\* A merge that is watched is queued, and what was queued stays so.
LEMMA AppendQueues ==
    ASSUME TypeOK, NEW c \in Commit, queue' = Append(queue, c)
    PROVE  Queued(c)' /\ \A d : Queued(d) => Queued(d)'
  <1>1. queue \in Seq(Commit)
    BY DEF TypeOK
  <1>2. Len(queue) + 1 \in DOMAIN Append(queue, c) /\ Append(queue, c)[Len(queue) + 1] = c
    BY <1>1
  <1>3. \A i \in DOMAIN queue : i \in DOMAIN Append(queue, c) /\ Append(queue, c)[i] = queue[i]
    BY <1>1
  <1> QED
    BY <1>2, <1>3 DEF Queued

LEMMA ForgeRunInv ==
    ASSUME TypeOK, RunInv, Forge \/ Reboot
    PROVE  RunInv'
  <1> DEFINE Runs == \A d \in Watched : d <= main => HasRun(d)
  <1>1. status' = status /\ verdict' = verdict /\ target' = target
        /\ main \in Nat /\ main' \in Nat /\ main <= main'
    BY CommitsAssumption
       DEF Forge, Merge, Refuse, Dispatch, Reboot, shell, TypeOK, Commit, repo
  <1>2. \A l \in Launches : pc'[l] = pc[l] \/ (pc[l] # "idle" /\ pc'[l] = "dead")
    <2>1. CASE Forge
      BY <2>1 DEF Forge, Merge, Refuse, Dispatch, repo
    <2>2. CASE Reboot
      <3>1. "idle" \notin Live \union {"checkedout"}
        BY DEF Live, Waiting, Critical, Switching
      <3> QED
        BY <2>2, <3>1 DEF Reboot, repo
    <2> QED
      BY <2>1, <2>2
  <1>3. \A c \in Commit : status'[c] = "superseded" =>
            \E d \in Touches : c < d /\ d <= main'
    <2> SUFFICES ASSUME NEW c \in Commit, status[c] = "superseded"
                 PROVE  \E d \in Touches : c < d /\ d <= main'
      BY <1>1
    <2>1. PICK d \in Touches : c < d /\ d <= main
      BY DEF RunInv
    <2>2. d \in Nat
      BY CommitsAssumption
    <2> QED
      BY <1>1, <2>1, <2>2
  <1>4. \A l \in Launches : pc'[l] = "verdict" => verdict'[l] # "superseded"
    BY <1>1, <1>2 DEF RunInv
  <1>5. Runs'
    <2>1. CASE Merge
      <3> SUFFICES ASSUME NEW d \in Watched, d <= main + 1 PROVE HasRun(d)'
        BY <2>1 DEF Merge, repo
      <3>1. main + 1 \in Commit /\ d \in Nat
        BY <2>1, CommitsAssumption DEF Merge, TypeOK, Commit, repo
      <3>2. CASE d = main + 1
        <4>1. queue' = Append(queue, main + 1)
          BY <2>1, <3>2 DEF Merge, repo
        <4> QED
          BY <3>1, <3>2, <4>1, AppendQueues DEF HasRun
      <3>3. CASE d <= main
        <4>1. HasRun(d) /\ refused' = refused /\ pc' = pc /\ target' = target
          BY <2>1, <3>3 DEF RunInv, Merge, repo
        <4>2. Queued(d) => Queued(d)'
          BY <2>1, <3>1, AppendQueues DEF Merge, Queued, repo
        <4> QED
          BY <4>1, <4>2 DEF HasRun
      <3> QED
        BY <1>1, <3>1, <3>2, <3>3
    <2>2. CASE Refuse
      <3> SUFFICES ASSUME NEW d \in Watched, d <= main PROVE HasRun(d)'
        BY <2>2 DEF Refuse, repo
      <3>1. HasRun(d) /\ pc' = pc /\ target' = target
        BY <2>2 DEF RunInv, Refuse, repo
      <3>2. d \in refused \/ d = Head(queue) => d \in refused'
        BY <2>2 DEF Refuse, repo
      <3>3. Queued(d) /\ d # Head(queue) => Queued(d)'
        BY <2>2, TailKeepsQueued DEF Refuse, repo
      <3> QED
        BY <3>1, <3>2, <3>3 DEF HasRun
    <2>3. ASSUME NEW c \in Commit, Dispatch(c) PROVE Runs'
      <3> SUFFICES ASSUME NEW d \in Watched, d <= main PROVE HasRun(d)'
        BY <2>3 DEF Dispatch, repo
      <3>1. HasRun(d) /\ refused' = refused /\ pc' = pc /\ target' = target
        BY <2>3 DEF RunInv, Dispatch, repo
      <3>2. Queued(d) => Queued(d)'
        BY <2>3, AppendQueues DEF Dispatch, repo
      <3> QED
        BY <3>1, <3>2 DEF HasRun
    <2>4. CASE Reboot
      <3>1. queue' = queue /\ refused' = refused /\ main' = main
        BY <2>4 DEF Reboot, repo
      <3>2. \A l \in Launches : pc[l] # "idle" => pc'[l] # "idle" /\ target'[l] = target[l]
        BY <1>1, <1>2
      <3> QED
        BY <3>1, <3>2, RunStays DEF RunInv
    <2> QED
      BY <2>1, <2>2, <2>3, <2>4 DEF Forge
  <1> QED
    BY <1>3, <1>4, <1>5 DEF RunInv

LEMMA PlayRunInv ==
    ASSUME TypeOK, RunInv, NEW l \in Launches, Play(l)
    PROVE  RunInv'
  <1>1. /\ main' = main /\ verdict' = verdict /\ refused' = refused
        /\ \A c \in Commit : status'[c] = "superseded" => status[c] = "superseded"
    BY DEF Play, WorkflowCheckout, HumanCheckout, Spawn, PlayKilled, AwaitVerdict,
           AwaitTimeout, shell, environment, TypeOK, Target, repo, CheckoutMain, Checkout
  <1>2. \A k \in Launches :
            /\ pc'[k] = "verdict" => pc[k] = "verdict"
            /\ pc[k] # "idle" => pc'[k] # "idle" /\ target'[k] = target[k]
    BY DEF Play, WorkflowCheckout, HumanCheckout, Checkout, Spawn, PlayKilled,
           AwaitVerdict, AwaitTimeout, TypeOK, repo, CheckoutMain
  <1>3. ASSUME NEW d \in Watched, d <= main PROVE HasRun(d)'
    <2>1. HasRun(d)
      BY <1>3 DEF RunInv
    <2>2. CASE WorkflowCheckout(l)
      <3>1. Queued(d) /\ d # Head(queue) => Queued(d)'
        BY <2>2, TailKeepsQueued DEF WorkflowCheckout, repo, CheckoutMain, Checkout
      <3>2. pc'[l] # "idle" /\ target'[l] = Head(queue)
        BY <2>2 DEF WorkflowCheckout, Checkout, TypeOK, repo, CheckoutMain
      <3> QED
        BY <1>1, <1>2, <2>1, <3>1, <3>2 DEF HasRun
    <2>3. CASE ~WorkflowCheckout(l)
      <3>1. queue' = queue
        BY <2>3 DEF Play, HumanCheckout, Spawn, PlayKilled, AwaitVerdict, AwaitTimeout,
                    environment, repo, CheckoutMain, Checkout
      <3> QED
        BY <1>1, <1>2, <2>1, <3>1, RunStays
    <2> QED
      BY <2>2, <2>3
  <1> QED
    BY <1>1, <1>2, <1>3 DEF RunInv

LEMMA ShellRunInv ==
    ASSUME TypeOK, RunInv, NEW l \in Launches, Shell(l)
    PROVE  RunInv'
  <1>1. /\ main' = main /\ queue' = queue /\ refused' = refused /\ target' = target
        /\ \A k \in Launches : pc[k] # "idle" => pc'[k] # "idle"
    BY DEF Shell, Lock, Switch, MakeLock, LockTaken, ReadHolder, ProbeStale, ProbeWait,
           GiveUp, Reclaim, WritePid, Superseded, GoAhead, WriteStarted, Evaluate,
           Activate, SwitchFails, WriteVerdict, ExitTrap, ShellStep, environment, TypeOK, repo
  <1>2. \A d \in Watched : d <= main' => HasRun(d)'
    BY <1>1, RunStays DEF RunInv
  <1>3. ASSUME NEW c \in Commit, status'[c] = "superseded"
        PROVE  \E d \in Touches : c < d /\ d <= main
    <2>1. CASE status[c] = "superseded"
      BY <2>1 DEF RunInv
    <2>2. CASE status[c] # "superseded" /\ Superseded(l)
      <3>1. target[l] = c
        BY <1>3, <2>2 DEF Superseded, TypeOK
      <3> QED
        BY <2>2, <3>1 DEF Superseded, SupersedeCheck, DiffersOverDarwin
    <2>3. CASE status[c] # "superseded" /\ ~Superseded(l)
      <3>1. CASE GiveUp(l) \/ WriteStarted(l)
        <4>1. status'[c] \in {status[c], "lock-held", "started"}
          BY <3>1 DEF GiveUp, WriteStarted, TypeOK, Target
        <4> QED
          BY <1>3, <2>3, <4>1
      <3>2. CASE WriteVerdict(l)
        <4>1. verdict[l] # "superseded"
          BY <3>2 DEF WriteVerdict, ShellStep, RunInv, repo
        <4>2. status'[c] = status[c] \/ status'[c] = verdict[l]
          BY <3>2 DEF WriteVerdict, TypeOK, Target
        <4> QED
          BY <1>3, <2>3, <4>1, <4>2
      <3>3. CASE ~GiveUp(l) /\ ~WriteStarted(l) /\ ~WriteVerdict(l)
        <4>1. status' = status
          BY <2>3, <3>3 DEF Shell, Lock, Switch, MakeLock, LockTaken, ReadHolder,
             ProbeStale, ProbeWait, Reclaim, WritePid, GoAhead, Evaluate, Activate,
             SwitchFails, ExitTrap, shell, repo
        <4> QED
          BY <1>3, <2>3, <4>1
      <3> QED
        BY <3>1, <3>2, <3>3
    <2> QED
      BY <2>1, <2>2, <2>3
  <1>4. ASSUME NEW k \in Launches, pc'[k] = "verdict" PROVE verdict'[k] # "superseded"
    <2>1. CASE Activate(l)
      BY <1>4, <2>1 DEF Activate, ShellStep, TypeOK, RunInv, repo
    <2>2. CASE SwitchFails(l)
      BY <1>4, <2>2 DEF SwitchFails, ShellStep, TypeOK, RunInv, repo
    <2>3. CASE Superseded(l)
      BY <1>4, <2>3 DEF Superseded, ShellStep, TypeOK, RunInv, repo
    <2>4. CASE GiveUp(l)
      BY <1>4, <2>4 DEF GiveUp, ShellStep, TypeOK, RunInv, repo
    <2>5. CASE ~Activate(l) /\ ~SwitchFails(l) /\ ~Superseded(l) /\ ~GiveUp(l)
      <3>1. verdict' = verdict /\ pc[k] = "verdict"
        BY <1>4, <2>5 DEF Shell, Lock, Switch, MakeLock, LockTaken, ReadHolder,
           ProbeStale, ProbeWait, Reclaim, WritePid, GoAhead, WriteStarted, Evaluate,
           WriteVerdict, ExitTrap, ShellStep, shell, TypeOK, repo
      <3> QED
        BY <3>1 DEF RunInv
    <2> QED
      BY <2>1, <2>2, <2>3, <2>4, <2>5
  <1> QED
    BY <1>1, <1>2, <1>3, <1>4 DEF RunInv

LEMMA NextRunInv == TypeOK /\ RunInv /\ [Next]_vars => RunInv'
  <1> SUFFICES ASSUME TypeOK, RunInv, [Next]_vars PROVE RunInv'
    OBVIOUS
  <1>1. CASE UNCHANGED vars
    BY <1>1 DEF vars, RunInv, HasRun, Queued, repo
  <1> QED
    BY <1>1, ForgeRunInv, PlayRunInv, ShellRunInv DEF Next

\* Whenever a sidecar says superseded, the newer merge it gave way to has a
\* run of its own, whatever was dispatched, refused, killed or rebooted.
THEOREM SupersedeIsSafe == Spec => []SupersededHasNewerRun
  <1>1. RunInv => SupersededHasNewerRun
    BY CommitsAssumption DEF RunInv, SupersededHasNewerRun
  <1> QED
    BY <1>1, InitRunInv, NextRunInv, TypeCorrect, PTL DEF Spec

-----------------------------------------------------------------------------
(* The order of the generations. *)

LEMMA InitOrderInv == Init => OrderInv
  BY CommitsAssumption DEF Init, OrderInv

\* The elements of a queue whose head was taken off.
LEMMA TailElements ==
    ASSUME TypeOK, queue # <<>>
    PROVE  /\ 1 \in DOMAIN queue /\ Head(queue) = queue[1]
           /\ \A i \in DOMAIN Tail(queue) :
                 i + 1 \in DOMAIN queue /\ Tail(queue)[i] = queue[i + 1]
  BY DEF TypeOK

LEMMA QueueElements ==
    ASSUME TypeOK
    PROVE  \A i \in DOMAIN queue : i \in Nat /\ queue[i] \in Commit /\ queue[i] \in Nat
  <1>1. \A i \in DOMAIN queue : i \in Nat /\ queue[i] \in Commit
    BY DEF TypeOK
  <1>2. \A c \in Commit : c \in Nat
    BY DEF Commit
  <1> QED
    BY <1>1, <1>2

LEMMA ForgeOrderInv ==
    ASSUME manual' = 0, TypeOK, OrderInv, Forge \/ Reboot
    PROVE  OrderInv'
  <1>1. \A l \in Launches : pc'[l] = "activate" => pc[l] = "activate"
    BY DEF Forge, Merge, Refuse, Dispatch, Reboot, repo
  <1>2. /\ tree' = tree /\ generation' = generation /\ built' = built
        /\ stolen' = stolen
    BY DEF Forge, Merge, Refuse, Dispatch, Reboot, shell, repo
  <1>3. main \in Nat /\ tree \in Nat /\ queue \in Seq(Commit) /\ Commit \subseteq Nat
    BY DEF TypeOK, Commit
  <1>4. CASE Merge
    <2>1. main' = main + 1 /\ main' \in Commit
      BY <1>4, CommitsAssumption DEF Merge, Commit, TypeOK, repo
    <2>2. CASE queue' = queue
      <3>1. \A i \in DOMAIN queue : queue[i] \in Nat
        BY QueueElements
      <3> QED
        BY <1>1, <1>2, <1>3, <2>1, <2>2, <3>1 DEF OrderInv
    <2>3. CASE queue' = Append(queue, main')
      <3>1. \A i \in DOMAIN queue : queue[i] \in Nat
        BY QueueElements
      <3>2. \A i \in DOMAIN queue' :
               \/ i \in DOMAIN queue /\ queue'[i] = queue[i]
               \/ i = Len(queue) + 1 /\ queue'[i] = main'
        BY <1>3, <2>3
      <3>3. \A i \in DOMAIN queue : i \in Nat /\ i < Len(queue) + 1
        BY <1>3
      <3>4. \A i \in DOMAIN queue' : tree < queue'[i] /\ queue'[i] <= main'
        BY <1>3, <2>1, <3>1, <3>2 DEF OrderInv
      <3>5. ASSUME NEW i \in DOMAIN queue', NEW j \in DOMAIN queue', i < j
            PROVE  queue'[i] < queue'[j]
        <4>1. CASE j = Len(queue) + 1 /\ queue'[j] = main'
          <5>1. i \in DOMAIN queue /\ queue'[i] = queue[i]
            BY <1>3, <3>2, <3>5, <4>1
          <5> QED
            BY <1>3, <2>1, <3>1, <4>1, <5>1 DEF OrderInv
        <4>2. CASE j \in DOMAIN queue /\ queue'[j] = queue[j]
          <5>1. i \in DOMAIN queue /\ queue'[i] = queue[i]
            BY <1>3, <3>2, <3>3, <3>5, <4>2
          <5> QED
            BY <3>5, <4>2, <5>1 DEF OrderInv
        <4> QED
          BY <3>2, <4>1, <4>2
      <3>6. tree <= main'
        BY <1>3, <2>1 DEF OrderInv
      <3> QED
        BY <1>1, <1>2, <3>4, <3>5, <3>6 DEF OrderInv
    <2> QED
      BY <1>4, <2>2, <2>3 DEF Merge, repo
  <1>5. CASE Refuse
    <2>1. queue # <<>> /\ queue' = Tail(queue) /\ main' = main
      BY <1>5 DEF Refuse, repo
    <2>2. \A i \in DOMAIN Tail(queue) : i \in Nat
      BY <1>3, <2>1
    <2> QED
      BY <1>1, <1>2, <2>1, <2>2, TailElements DEF OrderInv
  <1>6. CASE Reboot
    BY <1>1, <1>2, <1>6 DEF Reboot, OrderInv, repo
  <1>7. ASSUME NEW c \in Commit PROVE ~Dispatch(c)
    BY DEF Dispatch, TypeOK, repo
  <1> QED
    BY <1>4, <1>5, <1>6, <1>7 DEF Forge

LEMMA PlayOrderInv ==
    ASSUME manual' = 0, TypeOK, OrderInv, NEW l \in Launches, Play(l)
    PROVE  OrderInv'
  <1>1. \A k \in Launches : pc'[k] = "activate" => pc[k] = "activate"
    BY DEF Play, WorkflowCheckout, HumanCheckout, Checkout, Spawn, PlayKilled,
           AwaitVerdict, AwaitTimeout, TypeOK, repo, CheckoutMain
  <1>2. main' = main /\ generation' = generation /\ built' = built /\ stolen' = stolen
    BY DEF Play, WorkflowCheckout, HumanCheckout, Spawn, PlayKilled, AwaitVerdict,
           AwaitTimeout, shell, repo, CheckoutMain, Checkout
  <1>3. CASE WorkflowCheckout(l)
    <2>1. queue # <<>> /\ queue' = Tail(queue)
      BY <1>3 DEF WorkflowCheckout, repo, CheckoutMain, Checkout
    <2>2. /\ queue \in Seq(Commit) /\ Commit \subseteq Nat
          /\ main \in Nat /\ tree \in Nat /\ generation \in Nat
          /\ \A k \in Launches : built[k] \in Nat
      BY DEF TypeOK, Commit
    <2>3. /\ 1 \in DOMAIN queue /\ queue[1] = Head(queue) /\ Head(queue) \in Commit
          /\ Head(queue) \in Nat
      BY <2>1, TailElements, QueueElements
    <2>4. tree' = Head(queue)
      BY <1>3, <2>3, NamesAssumption DEF WorkflowCheckout, Checkout, repo, CheckoutMain
    <2>5. \A i \in DOMAIN Tail(queue) : i \in Nat /\ queue[i + 1] \in Nat
      <3>1. \A i \in DOMAIN Tail(queue) : i \in Nat
        BY <2>1, <2>2
      <3> QED
        BY <2>1, <3>1, TailElements, QueueElements
    <2>6. tree <= tree' /\ tree' <= main
      BY <2>2, <2>3, <2>4 DEF OrderInv
    <2>7. \A i \in DOMAIN queue' : tree' < queue'[i] /\ queue'[i] <= main
      BY <2>1, <2>3, <2>4, <2>5, TailElements DEF OrderInv
    <2>8. \A i, j \in DOMAIN queue' : i < j => queue'[i] < queue'[j]
      BY <2>1, <2>5, TailElements DEF OrderInv
    <2>9. generation <= tree'
      BY <2>2, <2>3, <2>4, <2>6 DEF OrderInv
    <2>10. \A k \in Launches : pc'[k] = "activate" =>
              built[k] <= tree' /\ (stolen \/ generation <= built[k])
      BY <1>1, <2>2, <2>3, <2>4, <2>6 DEF OrderInv
    <2> QED
      BY <1>2, <2>6, <2>7, <2>8, <2>9, <2>10 DEF OrderInv
  <1>4. CASE Spawn(l) \/ PlayKilled(l) \/ AwaitVerdict(l) \/ AwaitTimeout(l)
    <2>1. tree' = tree /\ queue' = queue
      BY <1>4 DEF Spawn, PlayKilled, AwaitVerdict, AwaitTimeout, environment, repo
    <2> QED
      BY <1>1, <1>2, <2>1 DEF OrderInv
  <1>5. ASSUME NEW t \in Target PROVE ~HumanCheckout(l, t)
    BY DEF HumanCheckout, TypeOK, CheckoutMain, Checkout
  <1> QED
    BY <1>3, <1>4, <1>5 DEF Play

LEMMA ShellOrderInv ==
    ASSUME TypeOK, OrderInv, LockInv, NEW l \in Launches, Shell(l)
    PROVE  OrderInv'
  <1>1. main' = main /\ tree' = tree /\ queue' = queue
    BY DEF Shell, Lock, Switch, MakeLock, LockTaken, ReadHolder, ProbeStale, ProbeWait,
           GiveUp, Reclaim, WritePid, Superseded, GoAhead, WriteStarted, Evaluate,
           Activate, SwitchFails, WriteVerdict, ExitTrap, ShellStep, environment, repo
  <1>2. /\ tree \in Nat /\ generation \in Nat
        /\ \A k \in Launches : built[k] \in Nat
    BY DEF TypeOK, Commit
  <1>3. CASE Evaluate(l)
    <2>1. \A k \in Launches :
             /\ pc'[k] = "activate" => pc[k] = "activate" \/ k = l
             /\ built'[k] = IF k = l THEN tree ELSE built[k]
      BY <1>3 DEF Evaluate, ShellStep, TypeOK, repo
    <2>2. generation' = generation /\ stolen' = stolen
      BY <1>3 DEF Evaluate
    <2> QED
      BY <1>1, <1>2, <2>1, <2>2 DEF OrderInv
  <1>4. CASE Activate(l)
    <2>1. pc[l] = "activate" /\ \A k \in Launches : pc'[k] = "activate" => pc[k] = "activate" /\ k # l
      BY <1>4 DEF Activate, ShellStep, TypeOK, repo
    <2>2. generation' = built[l] /\ stolen' = stolen /\ built' = built
      BY <1>4 DEF Activate
    <2>3. ~stolen => \A k \in Launches : pc'[k] # "activate"
      BY <2>1 DEF LockInv, MutualExclusion, Critical, Switching
    <2> QED
      BY <1>1, <1>2, <2>1, <2>2, <2>3 DEF OrderInv
  <1>5. CASE ~Evaluate(l) /\ ~Activate(l)
    <2>1. /\ generation' = generation /\ built' = built /\ (stolen => stolen')
          /\ \A k \in Launches : pc'[k] = "activate" => pc[k] = "activate"
      BY <1>5 DEF Shell, Lock, Switch, MakeLock, LockTaken, ReadHolder, ProbeStale,
         ProbeWait, GiveUp, Reclaim, WritePid, Superseded, GoAhead, WriteStarted,
         SwitchFails, WriteVerdict, ExitTrap, ShellStep, shell, TypeOK, repo
    <2> QED
      BY <1>1, <2>1 DEF OrderInv
  <1> QED
    BY <1>3, <1>4, <1>5

LEMMA NextOrderInv ==
    ASSUME manual' = 0
    PROVE  TypeOK /\ LockInv /\ OrderInv /\ [Next]_vars => OrderInv'
  <1> SUFFICES ASSUME TypeOK, LockInv, OrderInv, [Next]_vars PROVE OrderInv'
    OBVIOUS
  <1>1. CASE UNCHANGED vars
    BY <1>1 DEF vars, OrderInv, repo
  <1> QED
    BY <1>1, ForgeOrderInv, PlayOrderInv, ShellOrderInv DEF Next

\* A step from ordered states does not take the generation back.
LEMMA GenerationGrows ==
    ASSUME TypeOK, OrderInv, [Next]_vars
    PROVE  stolen \/ generation <= generation'
  <1>1. generation \in Nat
    BY DEF TypeOK, Commit
  <1>2. ASSUME NEW l \in Launches, Activate(l)
        PROVE  stolen \/ generation <= generation'
    BY <1>2 DEF Activate, ShellStep, OrderInv, repo
  <1>3. CASE \A l \in Launches : ~Activate(l)
    <2>1. generation' = generation
      BY <1>3 DEF Next, Forge, Merge, Refuse, Dispatch, Reboot, Play, WorkflowCheckout,
         HumanCheckout, Spawn, PlayKilled, AwaitVerdict, AwaitTimeout, Shell, Lock, Switch,
         MakeLock, LockTaken, ReadHolder, ProbeStale, ProbeWait, GiveUp, Reclaim, WritePid,
         Superseded, GoAhead, WriteStarted, Evaluate, SwitchFails, WriteVerdict, ExitTrap,
         shell, vars, repo, CheckoutMain, Checkout
    <2> QED
      BY <1>1, <2>1
  <1> QED
    BY <1>2, <1>3

\* So it does not take a merged change off it.
LEMMA StepKeepsOrder ==
    ASSUME TypeOK, OrderInv, [Next]_vars
    PROVE  stolen \/ \A c \in Watched : c <= generation => c <= generation'
  <1>1. generation \in Nat /\ generation' \in Nat /\ Watched \subseteq Nat
    <2>1. TypeOK'
      BY NextTypeOK
    <2> QED
      BY <2>1, CommitsAssumption DEF TypeOK, Commit
  <1> QED
    BY <1>1, GenerationGrows

\* A run by hand is not forgotten.
LEMMA ManualStays == ASSUME TypeOK, [Next]_vars, PushesOnly' PROVE PushesOnly /\ manual' = 0
  <1>1. manual \in Nat /\ manual' = 0
    BY DEF TypeOK, PushesOnly
  <1>2. manual' \in {manual, manual + 1}
    BY DEF Next, Forge, Merge, Refuse, Dispatch, Reboot, Play, WorkflowCheckout,
       HumanCheckout, Spawn, PlayKilled, AwaitVerdict, AwaitTimeout, Shell, Lock, Switch,
       MakeLock, LockTaken, ReadHolder, ProbeStale, ProbeWait, GiveUp, Reclaim, WritePid,
       Superseded, GoAhead, WriteStarted, Evaluate, Activate, SwitchFails, WriteVerdict,
       ExitTrap, ShellStep, environment, vars
  <1> QED
    BY <1>1, <1>2 DEF PushesOnly

LEMMA OrderInvariant == Spec => [](PushesOnly => OrderInv)
  <1>1. TypeOK /\ LockInv /\ (PushesOnly => OrderInv) /\ [Next]_vars
           => (PushesOnly => OrderInv)'
    BY NextOrderInv, ManualStays
  <1> QED
    BY <1>1, InitOrderInv, TypeCorrect, LockInvariant, PTL DEF Spec

\* Pushes are applied in merge order, in whatever order the shells win the
\* lock, until a live one's is removed as stale.
THEOREM PushesKeepOrder == Spec => NoRegressUnlessStolen
  <1>1. TypeOK /\ (PushesOnly => OrderInv) /\ [Next]_vars =>
            [PushesOnly /\ ~stolen =>
                \A c \in Watched : c <= generation => c <= generation']_vars
    BY StepKeepsOrder
  <1> QED
    BY <1>1, OrderInvariant, TypeCorrect, PTL DEF Spec, NoRegressUnlessStolen

-----------------------------------------------------------------------------
(* The plays of the pushes. *)

LEMMA InitPlaysInv == Init => PlaysInv
  BY DEF Init, PlaysInv

\* A step of a shell leaves everything but the shell's own to itself.
LEMMA ShellFrame ==
    ASSUME TypeOK, NEW l \in Launches, Shell(l)
    PROVE  /\ UNCHANGED <<main, tree, by, target, result, queue, refused>>
           /\ pc[l] \in Live /\ pc'[l] \in Live \union {"done"}
           /\ \A k \in Launches : k # l => pc'[k] = pc[k]
  BY DEF Shell, Lock, Switch, MakeLock, LockTaken, ReadHolder, ProbeStale, ProbeWait, GiveUp,
     Reclaim, WritePid, Superseded, GoAhead, WriteStarted, Evaluate, Activate, SwitchFails,
     WriteVerdict, ExitTrap, ShellStep, environment, TypeOK, Live, Waiting, Critical, Switching, repo

\* The workflow's checkout is of a commit that is newer than any before.
LEMMA CheckoutIsNew ==
    ASSUME TypeOK, OrderInv, NEW l \in Launches, WorkflowCheckout(l)
    PROVE  /\ tree' \in Commit /\ tree < tree' /\ tree' = Head(queue) /\ pc[l] = "idle"
           /\ by' = [by EXCEPT ![l] = "workflow"]
           /\ target' = [target EXCEPT ![l] = tree']
           /\ pc' = [pc EXCEPT ![l] = "checkedout"]
           /\ result' = [result EXCEPT ![l] = "none"]
  <1>1. 1 \in DOMAIN queue /\ Head(queue) = queue[1] /\ queue[1] \in Commit
    BY TailElements, QueueElements DEF WorkflowCheckout, repo, CheckoutMain, Checkout
  <1>2. Head(queue) # Tip /\ tree < Head(queue)
    BY <1>1, NamesAssumption DEF OrderInv, Commit
  <1>3. Head(queue) # tree
    BY <1>1, <1>2 DEF TypeOK, Commit
  <1> QED
    BY <1>1, <1>2, <1>3 DEF WorkflowCheckout, Checkout, repo, CheckoutMain

LEMMA NextPlaysInv ==
    ASSUME manual' = 0
    PROVE  TypeOK /\ OrderInv /\ PlaysInv /\ [Next]_vars => PlaysInv'
  <1> SUFFICES ASSUME TypeOK, OrderInv, PlaysInv, [Next]_vars PROVE PlaysInv'
    OBVIOUS
  <1>0. "idle" \notin Live /\ "checkedout" \notin Live /\ "noop" \notin Live
    BY DEF Live, Waiting, Critical, Switching
  <1>1. ASSUME UNCHANGED <<by, target, tree>>,
               \A k \in Launches :
                  /\ pc'[k] = "idle" <=> pc[k] = "idle"
                  /\ pc'[k] # "noop"
                  /\ pc'[k] \notin {"idle", "checkedout"} => result'[k] # "none"
        PROVE  PlaysInv'
    BY <1>1 DEF PlaysInv
  <1>2. CASE UNCHANGED vars
    BY <1>1, <1>2 DEF vars, PlaysInv, repo
  <1>3. CASE Merge \/ Refuse
    <2>1. UNCHANGED <<by, target, tree, pc, result>>
      BY <1>3 DEF Merge, Refuse, repo
    <2> QED
      BY <1>1, <2>1 DEF PlaysInv
  <1>4. CASE Reboot
    <2>1. /\ UNCHANGED <<by, target, tree>>
          /\ pc' = [l \in Launches |->
                      IF pc[l] \in Live \union {"checkedout"} THEN "dead" ELSE pc[l]]
          /\ result' = [l \in Launches |->
                          IF pc[l] \in Live \union {"checkedout"} /\ result[l] = "none"
                          THEN "red" ELSE result[l]]
      BY <1>4 DEF Reboot, repo
    <2>2. ASSUME NEW k \in Launches
          PROVE  /\ pc'[k] = "idle" <=> pc[k] = "idle"
                 /\ pc'[k] # "noop"
                 /\ pc'[k] \notin {"idle", "checkedout"} => result'[k] # "none"
      BY <1>0, <2>1 DEF PlaysInv
    <2> QED
      BY <1>1, <2>1, <2>2
  <1>5. ASSUME NEW l \in Launches, WorkflowCheckout(l) PROVE PlaysInv'
    <2>1. /\ tree \in Nat /\ tree' \in Nat /\ tree < tree' /\ pc[l] = "idle"
          /\ by' = [by EXCEPT ![l] = "workflow"]
          /\ target' = [target EXCEPT ![l] = tree']
          /\ pc' = [pc EXCEPT ![l] = "checkedout"]
          /\ result' = [result EXCEPT ![l] = "none"]
      BY <1>5, CheckoutIsNew DEF TypeOK, Commit
    <2>2. \A k \in Launches : k # l =>
             by'[k] = by[k] /\ target'[k] = target[k] /\ pc'[k] = pc[k] /\ result'[k] = result[k]
      BY <2>1 DEF TypeOK
    <2>3. by'[l] = "workflow" /\ target'[l] = tree' /\ pc'[l] = "checkedout"
      BY <2>1 DEF TypeOK
    <2>4. \A k \in Launches : k # l /\ pc[k] # "idle" =>
             target[k] \in 0..tree' /\ target[k] # tree'
      BY <2>1 DEF PlaysInv
    <2>5. \A k \in Launches : pc'[k] # "idle" => target'[k] \in 0..tree'
      BY <2>1, <2>2, <2>3, <2>4
    <2>6. \A j, k \in Launches :
             pc'[j] # "idle" /\ pc'[k] # "idle" /\ target'[j] = target'[k] => j = k
      BY <2>2, <2>3, <2>4 DEF PlaysInv
    <2> QED
      BY <2>2, <2>3, <2>5, <2>6 DEF PlaysInv
  <1>6. ASSUME NEW l \in Launches, Spawn(l) \/ PlayKilled(l) PROVE PlaysInv'
    <2>1. UNCHANGED <<by, target, tree>> /\ pc[l] = "checkedout"
          /\ pc'[l] \in {"acquire", "dead"} /\ result'[l] # "none"
      BY <1>6 DEF Spawn, PlayKilled, PlaysInv, TypeOK, repo
    <2>2. \A k \in Launches : k # l => pc'[k] = pc[k] /\ result'[k] = result[k]
      BY <1>6 DEF Spawn, PlayKilled, TypeOK, repo
    <2>3. ASSUME NEW k \in Launches
          PROVE  /\ pc'[k] = "idle" <=> pc[k] = "idle"
                 /\ pc'[k] # "noop"
                 /\ pc'[k] \notin {"idle", "checkedout"} => result'[k] # "none"
      BY <2>1, <2>2 DEF PlaysInv
    <2> QED
      BY <1>1, <2>1, <2>3
  <1>7. ASSUME NEW l \in Launches, Shell(l) PROVE PlaysInv'
    <2>1. /\ UNCHANGED <<by, target, tree, result>>
          /\ pc[l] \in Live /\ pc'[l] \in Live \union {"done"}
          /\ \A k \in Launches : k # l => pc'[k] = pc[k]
      BY <1>7, ShellFrame
    <2>2. ASSUME NEW k \in Launches
          PROVE  /\ pc'[k] = "idle" <=> pc[k] = "idle"
                 /\ pc'[k] # "noop"
                 /\ pc'[k] \notin {"idle", "checkedout"} => result'[k] # "none"
      BY <1>0, <2>1 DEF PlaysInv
    <2> QED
      BY <1>1, <2>1, <2>2
  <1>8. ASSUME NEW l \in Launches, AwaitVerdict(l) \/ AwaitTimeout(l) PROVE PlaysInv'
    BY <1>8 DEF AwaitVerdict, AwaitTimeout, PlaysInv, repo
  <1>9. (\A c \in Commit : ~Dispatch(c))
        /\ \A l \in Launches, t \in Target : ~HumanCheckout(l, t)
    BY DEF Dispatch, HumanCheckout, TypeOK, repo, CheckoutMain, Checkout
  <1> QED
    BY <1>2, <1>3, <1>4, <1>5, <1>6, <1>7, <1>8, <1>9 DEF Next, Forge, Play

LEMMA PlaysInvariant == Spec => [](PushesOnly => PlaysInv)
  <1>1. TypeOK /\ (PushesOnly => OrderInv) /\ (PushesOnly => PlaysInv) /\ [Next]_vars
           => (PushesOnly => PlaysInv)'
    BY NextPlaysInv, ManualStays
  <1> QED
    BY <1>1, InitPlaysInv, OrderInvariant, TypeCorrect, PTL DEF Spec

-----------------------------------------------------------------------------
(* What their verdicts say. *)

LEMMA InitVerdictInv == Init => VerdictInv
  BY DEF Init, VerdictInv, OwnVerdict

\* A launch keeps what its verdict says through a step of others.
LEMMA OthersVerdict ==
    ASSUME TypeOK, OrderInv, PlaysInv, VerdictInv, [Next]_vars, NEW k \in Launches,
           pc'[k] = pc[k], pc[k] # "idle" => target'[k] = target[k],
           built'[k] = built[k], verdict'[k] = verdict[k],
           pc[k] # "idle" => status'[target[k]] = status[target[k]],
           stolen => stolen'
    PROVE  OwnVerdict(k)'
  <1>1. target[k] <= generation => stolen \/ target[k] <= generation' \/ pc[k] = "idle"
    <2>1. pc[k] # "idle" => target[k] \in Nat
      BY DEF PlaysInv, TypeOK, Commit
    <2>2. generation \in Nat /\ generation' \in Nat
      <3>1. TypeOK'
        BY NextTypeOK
      <3> QED
        BY <3>1 DEF TypeOK, Commit
    <2> QED
      BY <2>1, <2>2, GenerationGrows
  <1> QED
    BY <1>1 DEF VerdictInv, OwnVerdict

\* A lock once stolen stays so.
LEMMA StolenStays == ASSUME [Next]_vars PROVE stolen => stolen'
  BY DEF Next, Forge, Merge, Refuse, Dispatch, Reboot, Play, WorkflowCheckout,
     HumanCheckout, Spawn, PlayKilled, AwaitVerdict, AwaitTimeout, Shell, Lock, Switch,
     MakeLock, LockTaken, ReadHolder, ProbeStale, ProbeWait, GiveUp, Reclaim, WritePid,
     Superseded, GoAhead, WriteStarted, Evaluate, Activate, SwitchFails, WriteVerdict,
     ExitTrap, shell, vars, repo, CheckoutMain, Checkout

\* A shell touches no sidecar, build or verdict but its own.
LEMMA OwnFiles ==
    ASSUME TypeOK, PlaysInv, NEW l \in Launches, Shell(l), NEW k \in Launches, k # l
    PROVE  /\ built'[k] = built[k] /\ verdict'[k] = verdict[k]
           /\ pc[k] # "idle" => status'[target[k]] = status[target[k]]
  <1>1. pc[l] # "idle"
    BY ShellFrame DEF Live, Waiting, Critical, Switching
  <1>2. pc[k] # "idle" => target[k] # target[l]
    BY <1>1 DEF PlaysInv
  <1>3. target[k] \in Target /\ target[l] \in Target
    BY DEF TypeOK
  <1>4. \A t \in Target : t # target[l] => status'[t] = status[t]
    BY DEF Shell, Lock, Switch, MakeLock, LockTaken, ReadHolder, ProbeStale, ProbeWait, GiveUp,
       Reclaim, WritePid, Superseded, GoAhead, WriteStarted, Evaluate, Activate, SwitchFails,
       WriteVerdict, ExitTrap, shell, TypeOK, repo
  <1>5. built'[k] = built[k] /\ verdict'[k] = verdict[k]
    BY DEF Shell, Lock, Switch, MakeLock, LockTaken, ReadHolder, ProbeStale, ProbeWait, GiveUp,
       Reclaim, WritePid, Superseded, GoAhead, WriteStarted, Evaluate, Activate, SwitchFails,
       WriteVerdict, ExitTrap, shell, TypeOK, repo
  <1> QED
    BY <1>2, <1>3, <1>4, <1>5

\* What a shell's own step does to what its verdict says.
LEMMA ShellVerdict ==
    ASSUME TypeOK, PlaysInv, VerdictInv, NEW l \in Launches, Shell(l)
    PROVE  OwnVerdict(l)'
  <1>0. /\ target'[l] = target[l] /\ target[l] \in 0..tree /\ tree \in Nat
        /\ target[l] \in Target
    <2>1. pc[l] # "idle" /\ target'[l] = target[l]
      BY ShellFrame DEF Live, Waiting, Critical, Switching
    <2>2. tree \in Nat /\ target[l] \in Target
      BY DEF TypeOK, Commit
    <2> QED
      BY <2>1, <2>2 DEF PlaysInv
  <1>1. CASE Evaluate(l)
    <2>1. pc'[l] = "activate" /\ built'[l] = tree
      BY <1>1 DEF Evaluate, ShellStep, TypeOK, repo
    <2> QED
      BY <1>0, <2>1 DEF OwnVerdict
  <1>2. CASE Activate(l)
    <2>1. pc[l] = "activate" /\ pc'[l] = "verdict" /\ verdict'[l] = "ok" /\ generation' = built[l]
      BY <1>2 DEF Activate, ShellStep, TypeOK, repo
    <2> QED
      BY <1>0, <2>1 DEF VerdictInv, OwnVerdict
  <1>3. CASE SwitchFails(l)
    <2>1. pc'[l] = "verdict" /\ verdict'[l] = "failed"
      BY <1>3 DEF SwitchFails, ShellStep, TypeOK, repo
    <2> QED
      BY <2>1 DEF OwnVerdict
  <1>4. CASE WriteVerdict(l)
    <2>1. /\ pc[l] = "verdict" /\ pc'[l] = "exit" /\ verdict' = verdict
          /\ generation' = generation /\ stolen' = stolen
          /\ status' = [status EXCEPT ![target[l]] = verdict[l]]
      BY <1>4 DEF WriteVerdict, ShellStep, TypeOK, repo
    <2>2. status'[target[l]] = verdict[l]
      BY <1>0, <2>1 DEF TypeOK
    <2>3. verdict[l] \in {"ok", "failed"} /\ (verdict[l] = "ok" => stolen \/ target[l] <= generation)
      BY <2>1 DEF VerdictInv, OwnVerdict
    <2> QED
      BY <1>0, <2>1, <2>2, <2>3 DEF OwnVerdict, Verdicts
  <1>5. CASE Superseded(l) \/ GiveUp(l)
    <2>1. \E v \in {"superseded", "lock-held"} :
             /\ pc'[l] \in {"exit", "done"}
             /\ verdict' = [verdict EXCEPT ![l] = v]
             /\ status' = [status EXCEPT ![target[l]] = v]
      BY <1>5 DEF Superseded, GiveUp, ShellStep, TypeOK, repo
    <2>2. \E v \in {"superseded", "lock-held"} :
             verdict'[l] = v /\ status'[target[l]] = v
      BY <1>0, <2>1 DEF TypeOK
    <2> QED
      BY <1>0, <2>1, <2>2 DEF OwnVerdict, Verdicts
  <1>6. CASE ExitTrap(l)
    <2>1. /\ pc[l] = "exit" /\ pc'[l] = "done"
          /\ UNCHANGED <<verdict, status, generation, stolen>>
      BY <1>6 DEF ExitTrap, ShellStep, TypeOK, repo
    <2> QED
      BY <1>0, <2>1 DEF VerdictInv, OwnVerdict
  <1>7. CASE ~Evaluate(l) /\ ~Activate(l) /\ ~SwitchFails(l) /\ ~WriteVerdict(l)
             /\ ~Superseded(l) /\ ~GiveUp(l) /\ ~ExitTrap(l)
    <2>1. pc'[l] \notin {"activate", "verdict", "exit", "done"}
      BY <1>7 DEF Shell, Lock, Switch, MakeLock, LockTaken, ReadHolder, ProbeStale, ProbeWait,
         Reclaim, WritePid, GoAhead, WriteStarted, ShellStep, TypeOK, repo
    <2> QED
      BY <2>1 DEF OwnVerdict
  <1> QED
    BY <1>1, <1>2, <1>3, <1>4, <1>5, <1>6, <1>7

LEMMA NextVerdictInv ==
    ASSUME manual' = 0
    PROVE  TypeOK /\ OrderInv /\ PlaysInv /\ VerdictInv /\ [Next]_vars => VerdictInv'
  <1> SUFFICES ASSUME TypeOK, OrderInv, PlaysInv, VerdictInv, [Next]_vars, NEW k \in Launches
               PROVE  OwnVerdict(k)'
    BY DEF VerdictInv
  <1>0. stolen => stolen'
    BY StolenStays
  <1>1. ASSUME UNCHANGED <<target, built, verdict, status>>, pc'[k] = pc[k] PROVE OwnVerdict(k)'
    BY <1>0, <1>1, OthersVerdict
  <1>2. ASSUME pc'[k] \notin {"activate", "verdict", "exit", "done"} PROVE OwnVerdict(k)'
    BY <1>2 DEF OwnVerdict
  <1>3. CASE UNCHANGED vars \/ Merge \/ Refuse
    BY <1>1, <1>3 DEF vars, Merge, Refuse, shell, repo
  <1>4. CASE Reboot
    <2>1. UNCHANGED <<target, built, verdict, status>> /\ (pc'[k] = pc[k] \/ pc'[k] = "dead")
      BY <1>4 DEF Reboot, shell, repo
    <2> QED
      BY <1>1, <1>2, <2>1
  <1>5. ASSUME NEW l \in Launches, Shell(l) PROVE OwnVerdict(k)'
    <2>1. CASE k = l
      BY <1>5, <2>1, ShellVerdict
    <2>2. CASE k # l
      BY <1>0, <1>5, <2>2, ShellFrame, OwnFiles, OthersVerdict
    <2> QED
      BY <2>1, <2>2
  <1>6. ASSUME NEW l \in Launches, WorkflowCheckout(l) PROVE OwnVerdict(k)'
    <2>1. /\ UNCHANGED <<built, verdict, status>> /\ pc[l] = "idle"
          /\ target' = [target EXCEPT ![l] = tree']
          /\ pc' = [pc EXCEPT ![l] = "checkedout"]
      BY <1>6, CheckoutIsNew DEF WorkflowCheckout, shell, repo, CheckoutMain, Checkout
    <2>2. CASE k = l
      <3>1. pc'[k] = "checkedout"
        BY <2>1, <2>2 DEF TypeOK
      <3> QED
        BY <1>2, <3>1
    <2>3. CASE k # l
      <3>1. pc'[k] = pc[k] /\ target'[k] = target[k]
        BY <2>1, <2>3 DEF TypeOK
      <3> QED
        BY <1>0, <2>1, <3>1, OthersVerdict
    <2> QED
      BY <2>2, <2>3
  <1>7. ASSUME NEW l \in Launches, Spawn(l) \/ PlayKilled(l) PROVE OwnVerdict(k)'
    <2>1. /\ UNCHANGED <<built, verdict, target>> /\ pc[l] = "checkedout"
          /\ pc'[l] \in {"acquire", "dead"} /\ (k # l => pc'[k] = pc[k])
          /\ status' = status \/ status' = [status EXCEPT ![target[l]] = "none"]
      BY <1>7 DEF Spawn, PlayKilled, shell, TypeOK, repo
    <2>2. CASE k = l
      BY <1>2, <2>1, <2>2
    <2>3. CASE k # l
      <3>1. pc[k] # "idle" => target[k] # target[l]
        BY <2>1, <2>3 DEF PlaysInv
      <3>2. pc[k] # "idle" => status'[target[k]] = status[target[k]]
        BY <2>1, <3>1 DEF TypeOK
      <3> QED
        BY <1>0, <2>1, <2>3, <3>2, OthersVerdict
    <2> QED
      BY <2>2, <2>3
  <1>8. ASSUME NEW l \in Launches, AwaitVerdict(l) \/ AwaitTimeout(l) PROVE OwnVerdict(k)'
    BY <1>8 DEF AwaitVerdict, AwaitTimeout, PlaysInv, repo
  <1>9. (\A c \in Commit : ~Dispatch(c))
        /\ \A l \in Launches, t \in Target : ~HumanCheckout(l, t)
    BY DEF Dispatch, HumanCheckout, TypeOK, repo, CheckoutMain, Checkout
  <1> QED
    BY <1>3, <1>4, <1>5, <1>6, <1>7, <1>8, <1>9 DEF Next, Forge, Play

LEMMA VerdictInvariant == Spec => [](PushesOnly => VerdictInv)
  <1>1. TypeOK /\ (PushesOnly => OrderInv) /\ (PushesOnly => PlaysInv)
           /\ (PushesOnly => VerdictInv) /\ [Next]_vars => (PushesOnly => VerdictInv)'
    BY NextVerdictInv, ManualStays
  <1> QED
    BY <1>1, InitVerdictInv, PlaysInvariant, OrderInvariant, TypeCorrect, PTL DEF Spec

-----------------------------------------------------------------------------
(* What becomes of every merge. *)

LEMMA InitAccountInv == Init => AccountInv
  BY CommitsAssumption DEF Init, AccountInv

\* The tip of main only moves on, by merges.
LEMMA MainGrows ==
    ASSUME TypeOK, [Next]_vars
    PROVE  /\ main \in Nat /\ main' \in Nat /\ main <= main'
           /\ ~Merge => main' = main
  <1>1. main \in Nat
    BY DEF TypeOK, Commit
  <1>2. CASE Merge
    BY <1>1, <1>2 DEF Merge, repo
  <1>3. CASE ~Merge
    BY <1>1, <1>3 DEF Next, Forge, Refuse, Dispatch, Reboot, Play, WorkflowCheckout,
       HumanCheckout, Spawn, PlayKilled, AwaitVerdict, AwaitTimeout, Shell, Lock, Switch,
       MakeLock, LockTaken, ReadHolder, ProbeStale, ProbeWait, GiveUp, Reclaim, WritePid,
       Superseded, GoAhead, WriteStarted, Evaluate, Activate, SwitchFails, WriteVerdict,
       ExitTrap, ShellStep, shell, vars, repo, CheckoutMain, Checkout
  <1> QED
    BY <1>2, <1>3

\* What is in hand stays so while no run is dropped and no launch settles.
LEMMA StaysInHand ==
    ASSUME TypeOK, PlaysInv, [Next]_vars, NEW c \in Commit, InHand(c), refused \subseteq refused',
           \A i \in DOMAIN queue : \E j \in DOMAIN queue' : queue'[j] = queue[i],
           \A l \in Launches : Outstanding(l) => Outstanding(l)' /\ target'[l] = target[l]
    PROVE  InHand(c)'
  <1>0. main \in Nat /\ main' \in Nat /\ main <= main' /\ c \in Nat
    BY MainGrows DEF Commit
  <1>1. CASE \E i \in DOMAIN queue : c <= queue[i]
    BY <1>1 DEF InHand
  <1>2. CASE \E d \in refused : c <= d /\ d <= main
    <2>1. PICK d \in refused : c <= d /\ d <= main
      BY <1>2
    <2>2. d \in refused' /\ d <= main'
      BY <1>0, <2>1 DEF TypeOK, Commit
    <2> QED
      BY <2>1, <2>2 DEF InHand
  <1>3. CASE \E l \in Launches : Outstanding(l) /\ target[l] \in c..main
    <2>1. PICK l \in Launches : Outstanding(l) /\ target[l] \in c..main
      BY <1>3
    <2>2. target[l] \in c..main'
      BY <1>0, <2>1
    <2> QED
      BY <2>1, <2>2 DEF InHand
  <1> QED
    BY <1>1, <1>2, <1>3 DEF InHand

\* What is queued is the oldest run or stays queued without it.
LEMMA HeadOrTail ==
    ASSUME TypeOK, queue # <<>>, queue' = Tail(queue), NEW i \in DOMAIN queue
    PROVE  queue[i] = Head(queue) \/ \E j \in DOMAIN queue' : queue'[j] = queue[i]
  <1>1. CASE i = 1
    BY <1>1 DEF TypeOK
  <1>2. CASE i # 1
    <2>1. i - 1 \in DOMAIN queue' /\ queue'[i - 1] = queue[i]
      BY <1>2 DEF TypeOK
    <2> QED
      BY <2>1
  <1> QED
    BY <1>1, <1>2

\* The oldest run is refused or played: what it stood for stays in hand.
LEMMA HeadInHand ==
    ASSUME TypeOK, OrderInv, PlaysInv, NEW c \in Commit, InHand(c), queue # <<>>,
           queue' = Tail(queue), main' = main, refused \subseteq refused',
           \/ Head(queue) \in refused'
           \/ \E l \in Launches : Outstanding(l)' /\ target'[l] = Head(queue),
           \A l \in Launches : Outstanding(l) => Outstanding(l)' /\ target'[l] = target[l]
    PROVE  InHand(c)'
  <1>0. main \in Nat /\ c \in Nat
    BY DEF TypeOK, Commit
  <1>1. CASE \E i \in DOMAIN queue : c <= queue[i]
    <2>1. PICK i \in DOMAIN queue : c <= queue[i]
      BY <1>1
    <2>2. queue[i] \in Nat /\ queue[i] <= main
      BY <2>1, QueueElements DEF OrderInv
    <2>3. CASE queue[i] = Head(queue)
      <3>1. Head(queue) \in c..main'
        BY <1>0, <2>1, <2>2, <2>3
      <3> QED
        BY <1>0, <3>1 DEF InHand
    <2>4. CASE queue[i] # Head(queue)
      <3>1. PICK j \in DOMAIN queue' : queue'[j] = queue[i]
        BY <2>1, <2>4, HeadOrTail
      <3> QED
        BY <2>1, <3>1 DEF InHand
    <2> QED
      BY <2>3, <2>4
  <1>2. CASE \E d \in refused : c <= d /\ d <= main
    BY <1>2 DEF InHand
  <1>3. CASE \E l \in Launches : Outstanding(l) /\ target[l] \in c..main
    BY <1>3 DEF InHand
  <1> QED
    BY <1>1, <1>2, <1>3 DEF InHand

\* A launch stays outstanding unless its shell ends.
LEMMA StaysOutstanding ==
    ASSUME TypeOK, PlaysInv, [Next]_vars, NEW k \in Launches, Outstanding(k),
           ~ExitTrap(k), manual' = 0
    PROVE  Outstanding(k)' /\ target'[k] = target[k]
  <1>0. pc[k] # "idle" /\ "idle" \notin Live /\ "checkedout" \notin Live /\ "done" \notin Live
    BY DEF Outstanding, Live, Waiting, Critical, Switching
  <1>1. ASSUME pc'[k] = pc[k], verdict'[k] = verdict[k], target'[k] = target[k]
        PROVE  Outstanding(k)' /\ target'[k] = target[k]
    BY <1>1 DEF Outstanding
  <1>2. ASSUME pc'[k] \notin {"idle", "done"}, target'[k] = target[k]
        PROVE  Outstanding(k)' /\ target'[k] = target[k]
    BY <1>2 DEF Outstanding
  <1>3. CASE UNCHANGED vars \/ Merge \/ Refuse
    BY <1>1, <1>3 DEF vars, Merge, Refuse, shell, repo
  <1>4. CASE Reboot
    <2>1. target' = target /\ verdict' = verdict /\ (pc'[k] = pc[k] \/ pc'[k] = "dead")
      BY <1>4 DEF Reboot, shell, repo
    <2> QED
      BY <1>1, <1>2, <2>1
  <1>5. ASSUME NEW l \in Launches, Shell(l)
        PROVE  Outstanding(k)' /\ target'[k] = target[k]
    <2>1. target'[k] = target[k] /\ pc'[l] \in Live \union {"done"}
      BY <1>5, ShellFrame
    <2>2. CASE k # l
      BY <1>1, <1>5, <2>1, <2>2, ShellFrame, OwnFiles
    <2>3. CASE k = l /\ pc'[l] \in Live
      BY <1>0, <1>2, <2>1, <2>3
    <2>4. CASE k = l /\ pc'[l] = "done"
      <3>1. GiveUp(l)
        BY <1>5, <2>4 DEF Shell, Lock, Switch, MakeLock, LockTaken, ReadHolder, ProbeStale,
           ProbeWait, Reclaim, WritePid, Superseded, GoAhead, WriteStarted, Evaluate, Activate,
           SwitchFails, WriteVerdict, ShellStep, TypeOK, repo
      <3>2. verdict'[l] = "lock-held"
        BY <3>1 DEF GiveUp, TypeOK
      <3> QED
        BY <2>1, <2>4, <3>2 DEF Outstanding
    <2> QED
      BY <2>1, <2>2, <2>3, <2>4
  <1>6. ASSUME NEW l \in Launches, WorkflowCheckout(l)
        PROVE  Outstanding(k)' /\ target'[k] = target[k]
    <2>1. k # l
      BY <1>0, <1>6 DEF WorkflowCheckout, Checkout, repo, CheckoutMain
    <2>2. pc'[k] = pc[k] /\ verdict' = verdict /\ target'[k] = target[k]
      BY <1>6, <2>1 DEF WorkflowCheckout, Checkout, shell, TypeOK, repo, CheckoutMain
    <2> QED
      BY <1>1, <2>2
  <1>7. ASSUME NEW l \in Launches, Spawn(l) \/ PlayKilled(l) \/ AwaitVerdict(l) \/ AwaitTimeout(l)
        PROVE  Outstanding(k)' /\ target'[k] = target[k]
    <2>1. /\ target' = target /\ verdict' = verdict
          /\ pc'[k] = pc[k] \/ pc'[k] \in {"acquire", "dead"}
      BY <1>7 DEF Spawn, PlayKilled, AwaitVerdict, AwaitTimeout, shell, TypeOK, repo
    <2> QED
      BY <1>1, <1>2, <2>1
  <1>8. (\A c \in Commit : ~Dispatch(c))
        /\ \A l \in Launches, t \in Target : ~HumanCheckout(l, t)
    BY DEF Dispatch, HumanCheckout, TypeOK, repo, CheckoutMain, Checkout
  <1> QED
    BY <1>3, <1>4, <1>5, <1>6, <1>7, <1>8 DEF Next, Forge, Play

\* A shell that ends: what it stood for is active, or it did not end well, or a
\* newer merge stands for it.
LEMMA ExitAccount ==
    ASSUME TypeOK, OrderInv, PlaysInv, VerdictInv, RunInv, AccountInv,
           [Next]_vars, ~stolen, NEW k \in Launches, ExitTrap(k),
           NEW c \in Watched, c <= main
    PROVE  c <= generation \/ InHand(c)'
  <1>0. /\ pc[k] = "exit" /\ pc'[k] = "done" /\ c \in Commit
        /\ UNCHANGED <<main, queue, refused, target, status, verdict, generation>>
        /\ main \in Nat /\ generation \in Nat /\ tree \in Nat
        /\ \A e \in Watched : e \in Nat /\ e \in Commit
    BY CommitsAssumption DEF ExitTrap, ShellStep, environment, TypeOK, Commit, repo
  <1>1. /\ target[k] \in 0..tree /\ verdict[k] \in Verdicts /\ status[target[k]] = verdict[k]
        /\ verdict[k] = "ok" => target[k] <= generation
    BY <1>0 DEF PlaysInv, VerdictInv, OwnVerdict
  <1>2. target[k] \in Commit /\ target[k] \in Nat /\ target[k] <= main
    <2>1. tree <= main
      BY DEF OrderInv
    <2>2. target[k] \in Nat /\ target[k] <= main
      BY <1>0, <1>1, <2>1
    <2> QED
      BY <2>2, CommitsAssumption DEF TypeOK, Commit
  <1>3. ASSUME NEW l \in Launches, l # k, Outstanding(l)
        PROVE  Outstanding(l)' /\ target'[l] = target[l]
    BY <1>0, <1>3 DEF Outstanding, ExitTrap, ShellStep, TypeOK, repo
  <1>4. ASSUME NEW e \in Watched, c <= e, InHand(e), ~(e <= target[k])
        PROVE  InHand(c)'
    <2>1. CASE \E i \in DOMAIN queue : e <= queue[i]
      <3>1. PICK i \in DOMAIN queue : e <= queue[i]
        BY <2>1
      <3>2. c <= queue'[i]
        BY <1>0, <1>4, <3>1, QueueElements
      <3> QED
        BY <1>0, <3>2 DEF InHand
    <2>2. CASE \E d \in refused : e <= d /\ d <= main
      <3>1. PICK d \in refused : e <= d /\ d <= main
        BY <2>2
      <3>2. d \in refused' /\ c <= d /\ d <= main'
        BY <1>0, <1>4, <3>1 DEF TypeOK, Commit
      <3> QED
        BY <3>2 DEF InHand
    <2>3. CASE \E l \in Launches : Outstanding(l) /\ target[l] \in e..main
      <3>1. PICK l \in Launches : Outstanding(l) /\ target[l] \in e..main
        BY <2>3
      <3>2. l # k /\ target[l] \in c..main'
        BY <1>0, <1>2, <1>4, <3>1
      <3>3. Outstanding(l)' /\ target'[l] \in c..main'
        BY <1>3, <3>1, <3>2
      <3> QED
        BY <3>3 DEF InHand
    <2> QED
      BY <1>4, <2>1, <2>2, <2>3 DEF InHand
  <1>5. CASE c <= generation
    BY <1>5
  <1>6. CASE InHand(c) /\ ~(c <= target[k])
    BY <1>0, <1>4, <1>6
  <1>7. CASE c <= target[k]
    <2>1. CASE verdict[k] = "ok"
      BY <1>0, <1>1, <1>2, <1>7, <2>1
    <2>2. CASE verdict[k] = "superseded"
      <3>1. PICK e \in Touches : target[k] < e /\ e <= main
        BY <1>1, <1>2, <2>2 DEF RunInv
      <3>2. e \in Watched
        BY CommitsAssumption
      <3>3. c <= e /\ ~(e <= target[k])
        BY <1>0, <1>2, <1>7, <3>1, <3>2
      <3>4. e <= generation \/ InHand(e)
        BY <3>1, <3>2 DEF AccountInv
      <3> QED
        BY <1>0, <1>4, <3>2, <3>3, <3>4
    <2>3. CASE verdict[k] \notin {"ok", "superseded"}
      <3>1. Outstanding(k)'
        BY <1>0, <2>3 DEF Outstanding
      <3>2. target'[k] \in c..main'
        BY <1>0, <1>2, <1>7
      <3> QED
        BY <3>1, <3>2 DEF InHand
    <2> QED
      BY <2>1, <2>2, <2>3
  <1> QED
    BY <1>5, <1>6, <1>7 DEF AccountInv

LEMMA NextAccountInv ==
    ASSUME manual' = 0
    PROVE  TypeOK /\ OrderInv /\ PlaysInv /\ VerdictInv /\ RunInv /\ AccountInv /\ [Next]_vars
              => AccountInv'
  <1> SUFFICES ASSUME TypeOK, OrderInv, PlaysInv, VerdictInv, RunInv, AccountInv, [Next]_vars,
                      ~stolen', NEW c \in Watched, c <= main'
               PROVE  c <= generation' \/ InHand(c)'
    BY DEF AccountInv, InHand, Outstanding
  <1>0. /\ ~stolen /\ c \in Commit /\ c \in Nat
        /\ main \in Nat /\ main' \in Nat /\ main <= main'
    BY StolenStays, MainGrows, CommitsAssumption DEF Commit
  <1>1. c <= generation => c <= generation'
    BY <1>0, StepKeepsOrder
  <1>2. CASE ~(c <= main)
    <2>1. Merge
      BY <1>0, <1>2, MainGrows
    <2>2. c = main + 1
      BY <1>0, <1>2, <2>1 DEF Merge, repo
    <2>3. queue' = Append(queue, c)
      BY <2>1, <2>2 DEF Merge, repo
    <2>4. \E i \in DOMAIN queue' : queue'[i] = c
      BY <1>0, <2>3, AppendQueues DEF Queued
    <2> QED
      BY <1>0, <2>4 DEF InHand
  <1>3. CASE c <= main
    <2>0. c <= generation \/ InHand(c)
      BY <1>0, <1>3 DEF AccountInv
    <2>1. CASE \E k \in Launches : ExitTrap(k)
      <3>1. c <= generation \/ InHand(c)'
        BY <1>0, <1>3, <2>1, ExitAccount
      <3> QED
        BY <1>1, <3>1
    <2>2. ASSUME \A k \in Launches : ~ExitTrap(k), NEW l \in Launches, Outstanding(l)
          PROVE  Outstanding(l)' /\ target'[l] = target[l]
      BY <2>2, StaysOutstanding
    <2>3. CASE Refuse
      <3>1. /\ queue # <<>> /\ queue' = Tail(queue) /\ main' = main
            /\ Head(queue) \in refused' /\ refused \subseteq refused'
            /\ \A k \in Launches : Outstanding(k) => Outstanding(k)' /\ target'[k] = target[k]
        BY <2>3 DEF Refuse, shell, Outstanding, repo
      <3>2. InHand(c) => InHand(c)'
        BY <1>0, <3>1, HeadInHand
      <3> QED
        BY <1>1, <2>0, <3>2
    <2>4. ASSUME NEW l \in Launches, WorkflowCheckout(l)
          PROVE  c <= generation' \/ InHand(c)'
      <3>1. queue # <<>> /\ queue' = Tail(queue) /\ main' = main /\ refused' = refused
        BY <2>4 DEF WorkflowCheckout, shell, repo, CheckoutMain, Checkout
      <3>2. /\ pc[l] = "idle" /\ pc' = [pc EXCEPT ![l] = "checkedout"]
            /\ target' = [target EXCEPT ![l] = Head(queue)] /\ verdict' = verdict
        BY <2>4, CheckoutIsNew DEF WorkflowCheckout, shell, repo, CheckoutMain, Checkout
      <3>3. Outstanding(l)' /\ target'[l] = Head(queue)
        BY <3>2 DEF Outstanding, TypeOK
      <3>4. \A k \in Launches : Outstanding(k) => Outstanding(k)' /\ target'[k] = target[k]
        BY <3>2 DEF Outstanding, TypeOK
      <3>5. InHand(c) => InHand(c)'
        BY <1>0, <3>1, <3>3, <3>4, HeadInHand
      <3> QED
        BY <1>1, <2>0, <3>5
    <2>5. CASE /\ \A k \in Launches : ~ExitTrap(k) /\ ~WorkflowCheckout(k)
               /\ ~Refuse
      <3>1. refused' = refused /\ (queue' = queue \/ Merge)
        BY <2>5 DEF Next, Forge, Merge, Dispatch, Reboot, Play, HumanCheckout, Spawn,
           PlayKilled, AwaitVerdict, AwaitTimeout, Shell, Lock, Switch, MakeLock, LockTaken,
           ReadHolder, ProbeStale, ProbeWait, GiveUp, Reclaim, WritePid, Superseded, GoAhead,
           WriteStarted, Evaluate, Activate, SwitchFails, WriteVerdict, ShellStep,
           environment, vars, TypeOK, repo, CheckoutMain, Checkout
      <3>2. \A i \in DOMAIN queue : \E j \in DOMAIN queue' : queue'[j] = queue[i]
        <4>1. CASE queue' = queue
          BY <4>1
        <4>2. CASE queue' # queue
          <5>1. main + 1 \in Commit /\ queue' = Append(queue, main + 1)
            BY <1>0, <3>1, <4>2, CommitsAssumption DEF Merge, Commit, repo
          <5> QED
            BY <5>1, AppendQueues DEF Queued
        <4> QED
          BY <4>1, <4>2
      <3>3. InHand(c) => InHand(c)'
        BY <1>0, <2>2, <2>5, <3>1, <3>2, StaysInHand
      <3> QED
        BY <1>1, <2>0, <3>3
    <2> QED
      BY <2>1, <2>3, <2>4, <2>5
  <1> QED
    BY <1>2, <1>3

LEMMA AccountInvariant == Spec => [](PushesOnly => AccountInv)
  <1>1. Spec => []RunInv
    BY InitRunInv, NextRunInv, TypeCorrect, PTL DEF Spec
  <1>2. TypeOK /\ RunInv /\ (PushesOnly => OrderInv) /\ (PushesOnly => PlaysInv)
           /\ (PushesOnly => VerdictInv) /\ (PushesOnly => AccountInv) /\ [Next]_vars
           => (PushesOnly => AccountInv)'
    BY NextAccountInv, ManualStays
  <1> QED
    BY <1>1, <1>2, InitAccountInv, VerdictInvariant, PlaysInvariant, OrderInvariant,
       TypeCorrect, PTL DEF Spec

\* With pushes only, every merge that must reach indri is active when all is
\* quiet, or somebody was told that it, or a newer one, is not, or a crash took
\* the shell of one: in whatever order the shells win the lock, whatever is
\* refused, killed or fails, and across the locks that crashes leave.
THEOREM PushesAccounted == Spec => []NothingLostSilently
  <1>1. TypeOK /\ (PushesOnly => PlaysInv) /\ (PushesOnly => VerdictInv)
           /\ (PushesOnly => AccountInv) => NothingLostSilently
    <2> SUFFICES ASSUME TypeOK, PlaysInv, VerdictInv, AccountInv, Quiescent, ~stolen,
                        NEW c \in Watched, c <= main
                 PROVE  \/ c <= generation
                        \/ \E t \in {Tip} \union c..main : Loud(t) \/ LaunchLost(t)
      BY DEF NothingLostSilently
    <2>1. c <= generation \/ InHand(c)
      BY DEF AccountInv
    <2>2. DOMAIN queue = {}
      BY DEF Quiescent
    <2>3. CASE \E d \in refused : c <= d /\ d <= main
      <3>1. PICK d \in refused : c <= d /\ d <= main
        BY <2>3
      <3>2. d \in c..main
        BY <3>1, CommitsAssumption DEF TypeOK, Commit
      <3> QED
        BY <3>2 DEF Loud
    <2>4. CASE \E l \in Launches : Outstanding(l) /\ target[l] \in c..main
      <3>1. PICK l \in Launches : Outstanding(l) /\ target[l] \in c..main
        BY <2>4
      <3>2. pc[l] \in {"done", "dead"}
        BY <3>1 DEF Outstanding, Quiescent, Alive, PlaysInv, TypeOK, PlayPc, Ended
      <3>3. CASE pc[l] = "done"
        <4>1. status[target[l]] \in {"failed", "lock-held"}
          BY <3>1, <3>3 DEF Outstanding, VerdictInv, OwnVerdict, Verdicts
        <4> QED
          BY <3>1, <4>1 DEF Loud
      <3>4. CASE pc[l] = "dead"
        <4>1. result[l] \in {"green", "red"}
          BY <3>4 DEF PlaysInv, TypeOK
        <4> QED
          BY <3>1, <3>4, <4>1 DEF Loud, LaunchLost
      <3> QED
        BY <3>2, <3>3, <3>4
    <2> QED
      BY <2>1, <2>2, <2>3, <2>4 DEF InHand
  <1> QED
    BY <1>1, AccountInvariant, VerdictInvariant, PlaysInvariant, TypeCorrect, PTL
=============================================================================
