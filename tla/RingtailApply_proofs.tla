------------------------ MODULE RingtailApply_proofs ------------------------
(***************************************************************************)
(* Proofs about RingtailApply, for any number of commits and any bounds:   *)
(* type correctness, the exclusion the flock gives, that a success verdict *)
(* is about the active generation, and that the generations keep the       *)
(* promise of HostGeneration.                                              *)
(***************************************************************************)
EXTENDS RingtailApply, TLAPS

LEMMA InitTypeOK == Init => TypeOK
  <1> SUFFICES ASSUME Init PROVE TypeOK
    OBVIOUS
  <1>1. 0 \in Commit
    BY CommitsAssumption DEF Commit
  <1>2. queue \in Seq(Commit)
    BY DEF Init
  <1>3. 0 \in 0..MaxManual /\ 0 \in 0..MaxFaults
    BY BoundsAssumption
  <1> QED
    BY <1>1, <1>2, <1>3 DEF Init, TypeOK

\* What a fault adds to the count.
LEMMA FaultType == TypeOK /\ Fault => faults' \in 0..MaxFaults
  BY BoundsAssumption DEF TypeOK, Fault

\* Taking the oldest run off the queue.
LEMMA HeadType ==
    ASSUME TypeOK, queue # <<>>
    PROVE  Head(queue) \in Commit /\ Tail(queue) \in Seq(Commit)
  BY DEF TypeOK

LEMMA ForgeTypeOK == ASSUME TypeOK, Forge PROVE TypeOK'
  <1>1. CASE Merge
    <2>1. main + 1 \in Commit
      BY <1>1, CommitsAssumption DEF Merge, TypeOK, Commit
    <2>2. queue' \in Seq(Commit)
      BY <1>1, <2>1 DEF Merge, TypeOK
    <2> QED
      BY <1>1, <2>1, <2>2 DEF Merge, TypeOK
  <1>2. CASE Refuse
    BY <1>2, HeadType, FaultType DEF Refuse, TypeOK
  <1>3. CASE StartRun
    BY <1>3, HeadType DEF StartRun, StartUnit, TypeOK, Live
  <1>4. CASE RunEnds
    BY <1>4 DEF RunEnds, TypeOK
  <1>5. CASE JobKilled
    BY <1>5, FaultType DEF JobKilled, TypeOK
  <1> QED
    BY <1>1, <1>2, <1>3, <1>4, <1>5 DEF Forge

LEMMA ManualTypeOK ==
    ASSUME TypeOK, NEW c \in Commit, Dispatch(c) \/ HumanStart(c) PROVE TypeOK'
  <1>1. manual' \in 0..MaxManual
    BY BoundsAssumption DEF TypeOK, Dispatch, HumanStart
  <1>2. CASE Dispatch(c)
    <2>1. queue' \in Seq(Commit)
      BY <1>2 DEF Dispatch, TypeOK
    <2> QED
      BY <1>1, <1>2, <2>1 DEF Dispatch, TypeOK
  <1>3. CASE HumanStart(c)
    BY <1>1, <1>3 DEF HumanStart, StartUnit, TypeOK, Live
  <1> QED
    BY <1>2, <1>3

LEMMA WrapperTypeOK ==
    ASSUME TypeOK, NEW c \in Commit, Wrapper(c) \/ PollTimeout(c) \/ Interrupt(c)
    PROVE  TypeOK'
  <1> USE DEF TypeOK, Goto, Exit, kept, forge, Live, Guarded, Verdicts
  <1>1. CASE WriteStarted(c) \/ TakeLock(c) \/ Busy(c)
    BY <1>1 DEF WriteStarted, TakeLock, Busy
  <1>2. CASE Superseded(c) \/ GoAhead(c) \/ Checkout(c)
    BY <1>2 DEF Superseded, GoAhead, Checkout
  <1>3. CASE Launch(c) \/ LaunchFails(c) \/ Collect(c)
    BY <1>3 DEF Launch, LaunchFails, Collect
  <1>4. CASE PollTimeout(c)
    BY <1>4, FaultType DEF PollTimeout
  <1>5. CASE Interrupt(c)
    BY <1>5, FaultType DEF Interrupt
  <1> QED
    BY <1>1, <1>2, <1>3, <1>4, <1>5 DEF Wrapper

LEMMA HostTypeOK == ASSUME TypeOK, Unit \/ Reboot PROVE TypeOK'
  <1>1. CASE Unit
    BY <1>1 DEF Unit, UnitStarts, Evaluate, Activate, RebuildFails, host, kept, forge, TypeOK
  <1>2. CASE Reboot
    BY <1>2, FaultType DEF Reboot, TypeOK, Live
  <1> QED
    BY <1>1, <1>2

LEMMA NextTypeOK == TypeOK /\ [Next]_vars => TypeOK'
  <1> SUFFICES ASSUME TypeOK, [Next]_vars PROVE TypeOK'
    OBVIOUS
  <1>1. CASE UNCHANGED vars
    BY <1>1 DEF vars, TypeOK
  <1> QED
    BY <1>1, ForgeTypeOK, ManualTypeOK, WrapperTypeOK, HostTypeOK DEF Next

\* Every variable keeps its type, whatever is refused, killed, interrupted or
\* rebooted.
THEOREM TypeCorrect == Spec => []TypeOK
  BY InitTypeOK, NextTypeOK, PTL DEF Spec

-----------------------------------------------------------------------------
(* The flock. *)

LEMMA InitFlockInv == Init => FlockInv
  BY DEF Init, FlockInv, Guarded

LEMMA NextFlockInv == TypeOK /\ FlockInv /\ [Next]_vars => FlockInv'
  <1> SUFFICES ASSUME TypeOK, FlockInv, [Next]_vars, HasFlock,
                      NEW d \in Commit, pc'[d] \in Guarded
               PROVE  flock' = d
    BY DEF FlockInv
  <1> USE DEF TypeOK, FlockInv, Guarded
  <1>1. CASE UNCHANGED vars
    BY <1>1 DEF vars
  <1>2. CASE Forge
    BY <1>2, HeadType DEF Forge, Merge, Refuse, StartRun, StartUnit, RunEnds, JobKilled
  <1>3. CASE Unit \/ Reboot
    BY <1>3 DEF Unit, UnitStarts, Evaluate, Activate, RebuildFails, host, Reboot, Running, Live
  <1>4. ASSUME NEW c \in Commit, Dispatch(c) \/ HumanStart(c) PROVE flock' = d
    BY <1>4 DEF Dispatch, HumanStart, StartUnit
  <1>5. ASSUME NEW c \in Commit, Wrapper(c) \/ PollTimeout(c) \/ Interrupt(c)
        PROVE  flock' = d
    <2>0. /\ NoCommit \notin Commit
          /\ pc[d] \in Guarded => flock = d
          /\ pc[c] \in Guarded => flock = c
      BY CommitsAssumption DEF Commit
    <2>1. CASE WriteStarted(c)
      BY <2>0, <2>1 DEF WriteStarted, Goto
    <2>2. CASE TakeLock(c)
      <3>1. flock = NoCommit /\ flock' = c /\ \A e \in Commit : e # c => pc'[e] = pc[e]
        BY <2>2 DEF TakeLock, Goto
      <3> QED
        BY <2>0, <3>1
    <2>3. CASE GoAhead(c) \/ Checkout(c) \/ Launch(c)
      <3>1. pc[c] \in Guarded /\ flock' = flock /\ \A e \in Commit : e # c => pc'[e] = pc[e]
        BY <2>3 DEF GoAhead, Checkout, Launch, Goto
      <3> QED
        BY <2>0, <3>1
    <2>4. CASE \/ Busy(c) \/ Superseded(c) \/ LaunchFails(c) \/ Collect(c)
               \/ PollTimeout(c) \/ Interrupt(c)
      <3>1. /\ pc'[c] = "ended" /\ \A e \in Commit : e # c => pc'[e] = pc[e]
            /\ flock' = IF flock = c THEN NoCommit ELSE flock
        BY <2>4 DEF Busy, Superseded, LaunchFails, Collect, PollTimeout, Interrupt, Goto, Exit
      <3> QED
        BY <2>0, <3>1
    <2> QED
      BY <1>5, <2>1, <2>2, <2>3, <2>4 DEF Wrapper
  <1> QED
    BY <1>1, <1>2, <1>3, <1>4, <1>5 DEF Next

LEMMA FlockInvariant == Spec => []FlockInv
  BY InitFlockInv, NextFlockInv, TypeCorrect, PTL DEF Spec

\* Two applies never overlap where flock is installed: not with a job killed
\* over a live wrapper, not with one started by hand, not across a reboot.
THEOREM Exclusion == ASSUME HasFlock PROVE Spec => []NoOverlap
  <1>1. FlockInv => NoOverlap
    BY DEF FlockInv, NoOverlap
  <1> QED
    BY <1>1, FlockInvariant, PTL

-----------------------------------------------------------------------------
(* A success verdict is about the active generation. *)

LEMMA InitOwnRebuildInv == Init => OwnRebuildInv
  BY DEF Init, OwnRebuildInv

LEMMA NextOwnRebuildInv == TypeOK /\ FlockInv /\ OwnRebuildInv /\ [Next]_vars => OwnRebuildInv'
  <1> SUFFICES ASSUME TypeOK, FlockInv, OwnRebuildInv, [Next]_vars, HasFlock,
                      NEW d \in Commit
               PROVE  /\ pc'[d] \in {"launch", "poll"} => tree' = d
                      /\ pc'[d] = "poll" => /\ rebuild' = "building" => built' = d
                                            /\ rebuild' = "inactive" => generation' = d
    BY DEF OwnRebuildInv
  <1>1. CASE UNCHANGED vars
    BY <1>1 DEF vars, OwnRebuildInv
  <1>2. CASE Forge
    BY <1>2, HeadType
       DEF Forge, Merge, Refuse, StartRun, StartUnit, RunEnds, JobKilled, OwnRebuildInv, TypeOK
  <1>3. CASE Unit
    <2>1. pc' = pc /\ tree' = tree
      BY <1>3 DEF Unit, UnitStarts, Evaluate, Activate, RebuildFails, host
    <2> QED
      BY <1>3, <2>1 DEF Unit, UnitStarts, Evaluate, Activate, RebuildFails, OwnRebuildInv
  <1>4. CASE Reboot
    <2>1. pc'[d] \notin {"launch", "poll"}
      BY <1>4 DEF Reboot, Running, Live, Guarded, TypeOK
    <2> QED
      BY <2>1
  <1>5. ASSUME NEW c \in Commit, Dispatch(c) \/ HumanStart(c)
        PROVE  /\ pc'[d] \in {"launch", "poll"} => tree' = d
               /\ pc'[d] = "poll" => /\ rebuild' = "building" => built' = d
                                     /\ rebuild' = "inactive" => generation' = d
    BY <1>5 DEF Dispatch, HumanStart, StartUnit, OwnRebuildInv, TypeOK
  <1>6. ASSUME NEW c \in Commit, Wrapper(c) \/ PollTimeout(c) \/ Interrupt(c)
        PROVE  /\ pc'[d] \in {"launch", "poll"} => tree' = d
               /\ pc'[d] = "poll" => /\ rebuild' = "building" => built' = d
                                     /\ rebuild' = "inactive" => generation' = d
    <2>1. CASE Checkout(c)
      <3>1. pc[d] \in {"launch", "poll"} => d = c
        BY <2>1 DEF Checkout, Goto, FlockInv, Guarded
      <3> QED
        BY <2>1, <3>1 DEF Checkout, Goto, TypeOK
    <2>2. CASE Launch(c)
      <3>1. pc[d] \in {"launch", "poll"} => d = c
        BY <2>2 DEF Launch, Goto, FlockInv, Guarded
      <3>2. pc[c] = "launch" /\ tree' = tree /\ rebuild' = "queued"
            /\ pc' = [pc EXCEPT ![c] = "poll"]
        BY <2>2 DEF Launch, Goto
      <3> QED
        BY <3>1, <3>2 DEF OwnRebuildInv, TypeOK
    <2>3. CASE ~Checkout(c) /\ ~Launch(c)
      <3>1. /\ pc'[d] \in {"launch", "poll"} => pc'[d] = pc[d]
            /\ tree' = tree /\ built' = built /\ rebuild' = rebuild
            /\ generation' = generation
        BY <1>6, <2>3 DEF Wrapper, WriteStarted, TakeLock, Busy, Superseded, GoAhead,
           LaunchFails, Collect, PollTimeout, Interrupt, Goto, TypeOK
      <3> QED
        BY <3>1 DEF OwnRebuildInv
    <2> QED
      BY <2>1, <2>2, <2>3
  <1> QED
    BY <1>1, <1>2, <1>3, <1>4, <1>5, <1>6 DEF Next

LEMMA OwnRebuildInvariant == Spec => []OwnRebuildInv
  BY InitOwnRebuildInv, NextOwnRebuildInv, FlockInvariant, TypeCorrect, PTL DEF Spec

\* Only a wrapper that collects its own finished rebuild writes success, or one
\* that takes a queued rebuild for a finished one.
LEMMA StepSuccess ==
    ASSUME HasFlock, TypeOK, OwnRebuildInv, [Next]_vars,
           NEW d \in Commit, status'[d] = "success", status[d] # "success"
    PROVE  generation = d \/ (rebuild = "queued" /\ d \in early')
  <1>1. CASE UNCHANGED vars \/ Unit \/ Reboot
    BY <1>1 DEF vars, Unit, UnitStarts, Evaluate, Activate, RebuildFails, host, Reboot
  <1>2. CASE Forge
    BY <1>2, HeadType
       DEF Forge, Merge, Refuse, StartRun, StartUnit, RunEnds, JobKilled, TypeOK
  <1>3. ASSUME NEW c \in Commit, Dispatch(c) \/ HumanStart(c) PROVE FALSE
    BY <1>3 DEF Dispatch, HumanStart, StartUnit, TypeOK
  <1>4. ASSUME NEW c \in Commit, Wrapper(c) \/ PollTimeout(c) \/ Interrupt(c)
        PROVE  generation = d \/ (rebuild = "queued" /\ d \in early')
    <2>1. CASE Collect(c)
      <3>1. c = d /\ rebuild # "failed"
        BY <2>1 DEF Collect, Exit, TypeOK
      <3>2. pc[d] = "poll" /\ rebuild \in {"inactive", "queued"}
        BY <2>1, <3>1 DEF Collect, Goto, UnitActive, TypeOK
      <3>3. rebuild = "queued" => d \in early'
        BY <2>1, <3>1 DEF Collect
      <3> QED
        BY <3>2, <3>3 DEF OwnRebuildInv
    <2>2. CASE ~Collect(c)
      BY <1>4, <2>2 DEF Wrapper, WriteStarted, TakeLock, Busy, Superseded, GoAhead,
         Checkout, Launch, LaunchFails, PollTimeout, Interrupt, Exit, TypeOK
    <2> QED
      BY <2>1, <2>2
  <1> QED
    BY <1>1, <1>2, <1>3, <1>4 DEF Next

\* A success sidecar names the generation that was active when it was written,
\* even if the rebuild of an interrupted wrapper ran before, unless the poll was
\* so early that systemd had not started the rebuild.
THEOREM SuccessIsOwn == ASSUME HasFlock PROVE Spec => SuccessMeansApplied
  <1>1. TypeOK /\ OwnRebuildInv /\ [Next]_vars =>
          [\A c \in Commit : status'[c] = "success" /\ status[c] # "success"
                                => generation = c \/ rebuild = "queued"]_vars
    BY StepSuccess
  <1> QED
    BY <1>1, TypeCorrect, OwnRebuildInvariant, PTL DEF Spec, SuccessMeansApplied

-----------------------------------------------------------------------------
(* The promise of HostGeneration. *)

LEMMA InitMergedInv == Init => MergedInv
  BY CommitsAssumption DEF Init, MergedInv, Running, Live, Guarded

LEMMA QueueElements ==
    ASSUME TypeOK, MergedInv, queue # <<>>
    PROVE  /\ Head(queue) \in Commit /\ Head(queue) <= main
           /\ \A i \in DOMAIN Tail(queue) : Tail(queue)[i] <= main
  <1>1. /\ 1 \in DOMAIN queue /\ Head(queue) = queue[1] /\ queue[1] \in Commit
        /\ \A i \in DOMAIN Tail(queue) :
              i + 1 \in DOMAIN queue /\ Tail(queue)[i] = queue[i + 1]
    BY DEF TypeOK
  <1> QED
    BY <1>1 DEF MergedInv

\* What is queued after an append.
LEMMA AppendElements ==
    ASSUME TypeOK, MergedInv, NEW c \in Commit, queue' = Append(queue, c), NEW m \in Nat,
           main <= m, c <= m
    PROVE  \A i \in DOMAIN queue' : queue'[i] <= m
  <1>1. \A i \in DOMAIN queue' :
           \/ i \in DOMAIN queue /\ queue'[i] = queue[i] /\ queue[i] \in Commit
           \/ queue'[i] = c
    BY DEF TypeOK
  <1>2. main \in Nat /\ \A e \in Commit : e \in Nat
    BY DEF TypeOK, Commit
  <1> QED
    BY <1>1, <1>2 DEF MergedInv

LEMMA NextMergedInv == TypeOK /\ MergedInv /\ [Next]_vars => MergedInv'
  <1> SUFFICES ASSUME TypeOK, MergedInv, [Next]_vars PROVE MergedInv'
    OBVIOUS
  <1>1. CASE UNCHANGED vars
    BY <1>1 DEF vars, MergedInv, Running
  <1>2. CASE Merge
    <2>1. main \in Nat /\ main' = main + 1 /\ main' \in Commit /\ main' \in Nat
          /\ \A e \in Commit : e \in Nat
      BY <1>2, CommitsAssumption DEF Merge, TypeOK, Commit
    <2>2. \A e \in Commit : e <= main => e <= main'
      BY <2>1
    <2>3. \A i \in DOMAIN queue' : queue'[i] <= main'
      <3>1. CASE queue' = queue
        <4>1. \A i \in DOMAIN queue : queue[i] \in Commit
          BY DEF TypeOK
        <4> QED
          BY <2>2, <3>1, <4>1 DEF MergedInv
      <3>2. CASE queue' = Append(queue, main')
        BY <2>1, <3>2, AppendElements
      <3> QED
        BY <1>2, <3>1, <3>2 DEF Merge
    <2>4. job' = job /\ pc' = pc /\ tree' = tree /\ built' = built /\ generation' = generation
      BY <1>2 DEF Merge
    <2> QED
      BY <2>2, <2>3, <2>4 DEF MergedInv, Running, TypeOK
  <1>3. CASE Refuse
    BY <1>3, QueueElements DEF Refuse, MergedInv, Running
  <1>4. CASE StartRun
    BY <1>4, QueueElements DEF StartRun, StartUnit, MergedInv, Running, TypeOK
  <1>5. CASE RunEnds \/ JobKilled
    BY <1>5 DEF RunEnds, JobKilled, MergedInv, Running
  <1>6. ASSUME NEW c \in Commit, Dispatch(c) PROVE MergedInv'
    <2>1. main \in Nat
      BY DEF TypeOK, Commit
    <2>2. \A i \in DOMAIN queue' : queue'[i] <= main
      BY <1>6, <2>1, AppendElements DEF Dispatch
    <2> QED
      BY <1>6, <2>2 DEF Dispatch, MergedInv, Running
  <1>7. ASSUME NEW c \in Commit, HumanStart(c) PROVE MergedInv'
    BY <1>7 DEF HumanStart, StartUnit, MergedInv, Running, TypeOK
  <1>8. ASSUME NEW c \in Commit, Wrapper(c) \/ PollTimeout(c) \/ Interrupt(c)
        PROVE  MergedInv'
    <2>1. /\ main' = main /\ queue' = queue /\ job' = job /\ built' = built
          /\ generation' = generation
      BY <1>8 DEF Wrapper, WriteStarted, TakeLock, Busy, Superseded, GoAhead, Checkout,
         Launch, LaunchFails, Collect, PollTimeout, Interrupt, kept, forge
    <2>2. Running(c) /\ \A d \in Commit : d # c => pc'[d] = pc[d]
      BY <1>8 DEF Wrapper, WriteStarted, TakeLock, Busy, Superseded, GoAhead, Checkout,
         Launch, LaunchFails, Collect, PollTimeout, Interrupt, Goto, Running, Live,
         Guarded, TypeOK
    <2>3. tree' = tree \/ tree' = c
      BY <1>8 DEF Wrapper, WriteStarted, TakeLock, Busy, Superseded, GoAhead, Checkout,
         Launch, LaunchFails, Collect, PollTimeout, Interrupt
    <2> QED
      BY <2>1, <2>2, <2>3 DEF MergedInv, Running
  <1>9. CASE Unit
    BY <1>9 DEF Unit, UnitStarts, Evaluate, Activate, RebuildFails, host, kept, forge, MergedInv, Running
  <1>10. CASE Reboot
    BY <1>10 DEF Reboot, MergedInv, Running, Live, Guarded
  <1> QED
    BY <1>1, <1>2, <1>3, <1>4, <1>5, <1>6, <1>7, <1>8, <1>9, <1>10 DEF Next, Forge

LEMMA MergedInvariant == Spec => []MergedInv
  BY InitMergedInv, NextMergedInv, TypeCorrect, PTL DEF Spec

LEMMA CoversTransitive ==
    ASSUME NEW a \in Commit, NEW b \in Commit, NEW d \in Commit, Covers(a, b), Covers(b, d)
    PROVE  Covers(a, d)
  BY DEF Covers

\* The supersede check lets a commit through only if it covers the checkout.
LEMMA CheckCovers ==
    ASSUME TypeOK, MergedInv, NEW c \in Commit,
           ~DiffersOverRingtail(c, main)
    PROVE  Covers(c, tree)
  <1> SUFFICES ASSUME NEW e \in Touches, e <= tree PROVE e <= c
    BY DEF Covers
  <1>1. c \in Nat /\ main \in Nat /\ tree \in Nat /\ e \in Nat
    BY CommitsAssumption DEF TypeOK, Commit
  <1>2. e <= main
    BY <1>1 DEF MergedInv
  <1> QED
    BY <1>1, <1>2 DEF DiffersOverRingtail

\* CoverInv without its hypothesis on the configuration.
CoverBody ==
    /\ Covers(tree, generation)
    /\ rebuild = "building" => Covers(tree, built) /\ Covers(built, generation)
    /\ \A c \in Commit : pc[c] = "checkout" => Covers(c, tree)

LEMMA InitCoverInv == Init => CoverInv
  BY DEF Init, CoverInv, Covers

LEMMA NextCoverInv ==
    TypeOK /\ FlockInv /\ MergedInv /\ CoverInv /\ [Next]_vars => CoverInv'
  <1> SUFFICES ASSUME TypeOK, FlockInv, MergedInv, CoverBody, [Next]_vars,
                      HasFlock
               PROVE  CoverBody'
    BY DEF CoverInv, CoverBody, Covers
  <1>1. CASE UNCHANGED vars
    BY <1>1 DEF vars, CoverBody, Covers
  <1>2. ASSUME tree' = tree, built' = built, generation' = generation, rebuild' = rebuild,
               \A d \in Commit : pc'[d] = "checkout" => pc[d] = "checkout"
        PROVE  CoverBody'
    BY <1>2 DEF CoverBody, Covers
  <1>3. CASE Forge
    BY <1>2, <1>3, HeadType
       DEF Forge, Merge, Refuse, StartRun, StartUnit, RunEnds, JobKilled, TypeOK
  <1>4. CASE Evaluate
    <2>1. tree' = tree /\ built' = tree /\ generation' = generation /\ pc' = pc
      BY <1>4 DEF Evaluate, host
    <2>2. Covers(tree, tree)
      BY DEF Covers
    <2> QED
      BY <2>1, <2>2 DEF CoverBody, Covers
  <1>5. CASE Activate
    BY <1>5 DEF Activate, host, CoverBody, Covers
  <1>6. CASE RebuildFails \/ UnitStarts
    BY <1>6 DEF RebuildFails, UnitStarts, host, CoverBody, Covers
  <1>7. CASE Reboot
    <2>1. \A d \in Commit : pc'[d] # "checkout"
      BY <1>7 DEF Reboot, Running, Live, Guarded, TypeOK
    <2> QED
      BY <1>7, <2>1 DEF Reboot, CoverBody, Covers
  <1>8. ASSUME NEW c \in Commit, Dispatch(c) \/ HumanStart(c) PROVE CoverBody'
    BY <1>2, <1>8 DEF Dispatch, HumanStart, StartUnit, TypeOK
  <1>9. ASSUME NEW c \in Commit, Wrapper(c) \/ PollTimeout(c) \/ Interrupt(c)
        PROVE  CoverBody'
    <2>1. CASE GoAhead(c)
      <3>1. /\ tree' = tree /\ built' = built /\ generation' = generation
            /\ rebuild' = rebuild
            /\ \A d \in Commit : pc'[d] = "checkout" => d = c \/ pc[d] = "checkout"
        BY <2>1 DEF GoAhead, Goto, TypeOK
      <3>2. Covers(c, tree)
        BY <2>1, CheckCovers DEF GoAhead
      <3> QED
        BY <3>1, <3>2 DEF CoverBody, Covers
    <2>2. CASE Checkout(c)
      <3>1. /\ tree' = c /\ built' = built /\ generation' = generation
            /\ rebuild' = rebuild /\ pc[c] = "checkout"
            /\ pc' = [pc EXCEPT ![c] = "launch"]
        BY <2>2 DEF Checkout, Goto
      <3>2. \A d \in Commit : pc'[d] # "checkout"
        BY <3>1 DEF FlockInv, Guarded, TypeOK
      <3>3. Covers(c, tree)
        BY <3>1 DEF CoverBody
      <3>4. Covers(c, generation) /\ (rebuild = "building" => Covers(c, built))
        BY <3>3, CoversTransitive DEF CoverBody, TypeOK
      <3> QED
        BY <3>1, <3>2, <3>4 DEF CoverBody, Covers
    <2>3. CASE Launch(c)
      <3>1. /\ tree' = tree /\ generation' = generation /\ rebuild' = "queued"
            /\ \A d \in Commit : pc'[d] = "checkout" => pc[d] = "checkout"
        BY <2>3 DEF Launch, Goto, TypeOK
      <3> QED
        BY <3>1 DEF CoverBody, Covers
    <2>4. CASE ~GoAhead(c) /\ ~Checkout(c) /\ ~Launch(c)
      <3>1. /\ tree' = tree /\ built' = built /\ generation' = generation
            /\ rebuild' = rebuild
            /\ \A d \in Commit : pc'[d] = "checkout" => pc[d] = "checkout"
        BY <1>9, <2>4 DEF Wrapper, WriteStarted, TakeLock, Busy, Superseded,
           LaunchFails, Collect, PollTimeout, Interrupt, Goto, TypeOK
      <3> QED
        BY <1>2, <3>1
    <2> QED
      BY <2>1, <2>2, <2>3, <2>4
  <1> QED
    BY <1>1, <1>3, <1>4, <1>5, <1>6, <1>7, <1>8, <1>9 DEF Next, Unit

LEMMA CoverInvariant == Spec => []CoverInv
  BY InitCoverInv, NextCoverInv, FlockInvariant, MergedInvariant, TypeCorrect, PTL DEF Spec

\* Only Activate replaces the generation, by one that covers the old.
LEMMA StepGeneration ==
    ASSUME HasFlock, TypeOK, CoverInv, MergedInv, [Next]_vars,
           generation' # generation
    PROVE  /\ main' = main /\ generation' \in 0..main
           /\ \A c \in Touches : c <= generation => c <= generation'
  <1>1. Activate
    BY HeadType DEF Next, vars, Forge, Merge, Refuse, StartRun, RunEnds, JobKilled,
       Dispatch, HumanStart, Wrapper, WriteStarted, TakeLock, Busy, Superseded, GoAhead,
       Checkout, Launch, LaunchFails, Collect, PollTimeout, Interrupt, Unit, UnitStarts, Evaluate,
       RebuildFails, Reboot
  <1>2. generation' = built /\ main' = main /\ rebuild = "building"
    BY <1>1 DEF Activate, host, kept, forge
  <1>3. built \in 0..main
    BY CommitsAssumption DEF TypeOK, MergedInv, Commit
  <1> QED
    BY <1>2, <1>3 DEF CoverInv, Covers

\* Where flock is installed, ringtail keeps the promise of HostGeneration for
\* what is under nixos/ringtail/: no generation is replaced by one that lacks such
\* a change, through dispatches of older commits, starts by hand, killed jobs,
\* interrupted wrappers with a live rebuild, and reboots.
THEOREM Implements == ASSUME HasFlock PROVE Spec => KeepsPromise
  <1>1. Init => Promise!Init
    BY DEF Init, Promise!Init
  <1>2. TypeOK /\ CoverInv /\ MergedInv /\ [Next]_vars => [Promise!Next]_<<main, generation>>
    <2> SUFFICES ASSUME TypeOK, CoverInv, MergedInv, [Next]_vars,
                        ~UNCHANGED <<main, generation>>
                 PROVE  Promise!Next
      OBVIOUS
    <2>1. CASE generation' # generation
      BY <2>1, StepGeneration DEF Promise!Next, Promise!Apply
    <2>2. CASE generation' = generation
      <3>1. main' # main
        BY <2>2
      <3>2. Merge
        BY <3>1, HeadType DEF Next, vars, Forge, Refuse, StartRun, RunEnds, JobKilled,
           Dispatch, HumanStart, Wrapper, WriteStarted, TakeLock, Busy, Superseded, GoAhead,
           Checkout, Launch, LaunchFails, Collect, PollTimeout, Interrupt, Unit, UnitStarts, Evaluate,
           Activate, RebuildFails, Reboot, host, kept, forge
      <3> QED
        BY <2>2, <3>2 DEF Merge, Promise!Next, Promise!Merge
    <2> QED
      BY <2>1, <2>2
  <1> QED
    BY <1>1, <1>2, TypeCorrect, CoverInvariant, MergedInvariant, PTL
       DEF Spec, KeepsPromise, Promise!Spec
-----------------------------------------------------------------------------
(* Nothing is lost silently. *)

\* The tip of main only moves on.
LEMMA MainGrows == ASSUME TypeOK, [Next]_vars PROVE main \in Nat /\ main' \in Nat /\ main <= main'
  <1>1. main \in Nat
    BY DEF TypeOK, Commit
  <1>2. CASE Merge
    BY <1>1, <1>2 DEF Merge
  <1>3. CASE ~Merge
    BY <1>1, <1>3 DEF Next, vars, Forge, Refuse, StartRun, RunEnds, JobKilled, Dispatch,
       HumanStart, Wrapper, WriteStarted, TakeLock, Busy, Superseded, GoAhead, Checkout,
       Launch, LaunchFails, Collect, PollTimeout, Interrupt, Unit, UnitStarts, Evaluate, Activate,
       RebuildFails, Reboot, host, kept, forge
  <1> QED
    BY <1>2, <1>3

\* Only a wrapper that found a newer merge writes superseded.
LEMMA StepSuperseded ==
    ASSUME TypeOK, [Next]_vars, NEW d \in Commit,
           status'[d] = "superseded", status[d] # "superseded"
    PROVE  DiffersOverRingtail(d, main)
  <1>1. CASE UNCHANGED vars \/ Unit \/ Reboot
    BY <1>1 DEF vars, Unit, UnitStarts, Evaluate, Activate, RebuildFails, host, Reboot
  <1>2. CASE Forge
    BY <1>2, HeadType
       DEF Forge, Merge, Refuse, StartRun, StartUnit, RunEnds, JobKilled, TypeOK
  <1>3. ASSUME NEW c \in Commit, Dispatch(c) \/ HumanStart(c)
        PROVE  DiffersOverRingtail(d, main)
    BY <1>3 DEF Dispatch, HumanStart, StartUnit, TypeOK
  <1>4. ASSUME NEW c \in Commit, Wrapper(c) \/ PollTimeout(c) \/ Interrupt(c)
        PROVE  DiffersOverRingtail(d, main)
    <2>1. CASE Superseded(c)
      <3>1. c = d
        BY <2>1 DEF Superseded, Exit, TypeOK
      <3> QED
        BY <2>1, <3>1 DEF Superseded
    <2>2. CASE ~Superseded(c)
      BY <1>4, <2>2 DEF Wrapper, WriteStarted, TakeLock, Busy, GoAhead, Checkout, Launch,
         LaunchFails, Collect, PollTimeout, Interrupt, Exit, TypeOK
    <2> QED
      BY <2>1, <2>2
  <1> QED
    BY <1>1, <1>2, <1>3, <1>4 DEF Next

\* What was read too early stays on record.
LEMMA EarlyGrows == ASSUME TypeOK, [Next]_vars PROVE early \subseteq early'
  BY HeadType DEF Next, vars, Forge, Merge, Refuse, StartRun, RunEnds, JobKilled,
     Dispatch, HumanStart, Wrapper, WriteStarted, TakeLock, Busy, Superseded, GoAhead,
     Checkout, Launch, LaunchFails, Collect, PollTimeout, Interrupt, Unit, UnitStarts,
     Evaluate, Activate, RebuildFails, Reboot, host, kept

LEMMA InitSidecarInv == Init => SidecarInv
  BY DEF Init, SidecarInv

LEMMA NextSidecarInv ==
    TypeOK /\ OwnRebuildInv /\ MergedInv /\ CoverInv /\ SidecarInv /\ [Next]_vars => SidecarInv'
  <1> SUFFICES ASSUME TypeOK, OwnRebuildInv, MergedInv, CoverInv, SidecarInv, [Next]_vars,
                      HasFlock, NEW d \in Commit
               PROVE  /\ status'[d] = "success" => d \in early' \/ Covers(generation', d)
                      /\ status'[d] = "superseded" => \E e \in Touches : d < e /\ e <= main'
    BY DEF SidecarInv, Covers
  <1>0. \A e \in Touches : e \in Nat
    BY CommitsAssumption
  <1>1. Covers(generation, d) => Covers(generation', d)
    BY StepGeneration DEF Covers
  <1>2. \A e \in Touches : e <= main => e <= main'
    BY <1>0, MainGrows
  <1>3. ASSUME status'[d] = "success" PROVE d \in early' \/ Covers(generation', d)
    <2>1. CASE status[d] = "success"
      BY <1>1, <2>1, EarlyGrows DEF SidecarInv
    <2>2. CASE status[d] # "success"
      <3>1. CASE generation = d
        BY <1>1, <3>1 DEF Covers
      <3> QED
        BY <1>3, <2>2, <3>1, StepSuccess
    <2> QED
      BY <2>1, <2>2
  <1>4. ASSUME status'[d] = "superseded" PROVE \E e \in Touches : d < e /\ e <= main'
    <2>1. \E e \in Touches : d < e /\ e <= main
      BY <1>4, StepSuperseded DEF SidecarInv, DiffersOverRingtail
    <2> QED
      BY <1>2, <2>1
  <1> QED
    BY <1>3, <1>4

LEMMA SidecarInvariant == Spec => []SidecarInv
  BY InitSidecarInv, NextSidecarInv, OwnRebuildInvariant, CoverInvariant, MergedInvariant,
     TypeCorrect, PTL DEF Spec

\* What is queued is the oldest run or stays queued without it.
LEMMA HeadOrTail ==
    ASSUME TypeOK, queue # <<>>, queue' = Tail(queue), NEW i \in DOMAIN queue
    PROVE  queue[i] = Head(queue) \/ \E j \in DOMAIN queue' : queue'[j] = queue[i]
  <1>1. CASE i = 1
    BY <1>1 DEF TypeOK
  <1>2. CASE i # 1
    <2>1. i - 1 \in DOMAIN queue' /\ queue'[i - 1] = queue[i]
      BY <1>2 DEF TypeOK
    <2> QED
      BY <2>1
  <1> QED
    BY <1>1, <1>2

\* What is queued stays so under an append.
LEMMA AppendKeeps ==
    ASSUME TypeOK, NEW c \in Commit, queue' = Append(queue, c)
    PROVE  /\ \A i \in DOMAIN queue : i \in DOMAIN queue' /\ queue'[i] = queue[i]
           /\ \E i \in DOMAIN queue' : queue'[i] = c
  <1>1. \A i \in DOMAIN queue : i \in DOMAIN queue' /\ queue'[i] = queue[i]
    BY DEF TypeOK
  <1>2. Len(queue) + 1 \in DOMAIN queue' /\ queue'[Len(queue) + 1] = c
    BY DEF TypeOK
  <1> QED
    BY <1>1, <1>2

\* What is in hand stays so while the run under way goes on and no queued run
\* is dropped.
LEMMA StaysInHand ==
    ASSUME TypeOK, [Next]_vars, NEW c \in Commit, InHand(c), red \subseteq red', job' = job,
           \A i \in DOMAIN queue : i \in DOMAIN queue' /\ queue'[i] = queue[i]
    PROVE  InHand(c)'
  <1>1. \A d \in red \union early : d <= main => d <= main'
    BY MainGrows DEF TypeOK, Commit
  <1> QED
    BY <1>1, EarlyGrows DEF InHand

\* A run that is taken out of hand as a red one leaves a trace.
LEMMA RedIsInHand ==
    ASSUME TypeOK, NEW c \in Commit, InHand(c), NEW d \in Commit, d <= main,
           main' = main, red' = red \union {d}, early' = early,
           \/ queue # <<>> /\ d = Head(queue) /\ queue' = Tail(queue) /\ job' = job
           \/ job = d /\ queue' = queue
    PROVE  InHand(c)'
  <1>1. CASE \E e \in red \union early : c <= e /\ e <= main
    BY <1>1 DEF InHand
  <1>2. CASE job # NoCommit /\ c <= job
    BY <1>2 DEF InHand
  <1>3. CASE \E i \in DOMAIN queue : c <= queue[i]
    <2>1. PICK i \in DOMAIN queue : c <= queue[i]
      BY <1>3
    <2>2. CASE queue' = queue
      BY <2>1, <2>2 DEF InHand
    <2>3. CASE queue # <<>> /\ d = Head(queue) /\ queue' = Tail(queue)
      <3>1. queue[i] = d \/ \E j \in DOMAIN queue' : queue'[j] = queue[i]
        BY <2>1, <2>3, HeadOrTail
      <3> QED
        BY <2>1, <3>1 DEF InHand
    <2> QED
      BY <2>2, <2>3
  <1> QED
    BY <1>1, <1>2, <1>3 DEF InHand

\* AccountInv without its hypothesis on the configuration.
AccountBody == \A c \in Touches : c <= main => c <= generation \/ InHand(c)

LEMMA InitAccountInv == Init => AccountInv
  BY CommitsAssumption DEF Init, AccountInv

\* The run that ends: applied, or replaced by a newer merge, or red.
LEMMA RunEndsAccount ==
    ASSUME TypeOK, MergedInv, SidecarInv, AccountBody, HasFlock, RunEnds,
           NEW c \in Touches, c <= main
    PROVE  c <= generation \/ InHand(c)'
  <1>0. /\ c \in Nat /\ main \in Nat /\ generation \in Nat /\ job \in Commit /\ job \in Nat
        /\ job <= main /\ main' = main /\ queue' = queue
        /\ \A e \in Touches : e \in Nat
        /\ \A i \in DOMAIN queue : queue[i] \in Nat
        /\ \A d \in red \union early : d \in Nat
        /\ early' = early
    BY CommitsAssumption DEF TypeOK, Commit, RunEnds, MergedInv
  <1>1. ASSUME NEW e \in Touches, c <= e, InHand(e), ~(e <= job)
        PROVE  InHand(c)'
    <2>1. CASE \E i \in DOMAIN queue : e <= queue[i]
      BY <1>0, <1>1, <2>1 DEF InHand
    <2>2. CASE \E d \in red \union early : e <= d /\ d <= main
      <3>1. PICK d \in red \union early : e <= d /\ d <= main
        BY <2>2
      <3>2. d \in red' \union early' /\ c <= d /\ d <= main'
        BY <1>0, <1>1, <3>1 DEF RunEnds
      <3> QED
        BY <3>2 DEF InHand
    <2> QED
      BY <1>1, <2>1, <2>2 DEF InHand
  <1>2. CASE c <= generation
    BY <1>2
  <1>3. CASE InHand(c) /\ ~(c <= job)
    BY <1>0, <1>1, <1>3
  <1>4. CASE InHand(c) /\ c <= job
    <2>1. CASE status[job] = "success"
      <3>1. CASE job \in early
        <4>1. job \in early' /\ c <= job /\ job <= main'
          BY <1>0, <1>4, <3>1
        <4> QED
          BY <4>1 DEF InHand
      <3>2. CASE job \notin early
        BY <1>0, <1>4, <2>1, <3>2 DEF SidecarInv, Covers
      <3> QED
        BY <3>1, <3>2
    <2>2. CASE status[job] = "superseded"
      <3>1. PICK e \in Touches : job < e /\ e <= main
        BY <1>0, <2>2 DEF SidecarInv
      <3>2. c <= e /\ ~(e <= job)
        BY <1>0, <1>4, <3>1
      <3>3. CASE e <= generation
        BY <1>0, <3>2, <3>3
      <3>4. CASE InHand(e)
        BY <1>1, <3>2, <3>4
      <3> QED
        BY <3>1, <3>3, <3>4 DEF AccountBody
    <2>3. CASE status[job] \notin {"success", "superseded"}
      <3>1. job \in red' /\ c <= job /\ job <= main'
        BY <1>0, <1>4, <2>3 DEF RunEnds
      <3> QED
        BY <3>1 DEF InHand
    <2> QED
      BY <2>1, <2>2, <2>3
  <1> QED
    BY <1>2, <1>3, <1>4 DEF AccountBody

LEMMA NextAccountInv ==
    TypeOK /\ MergedInv /\ CoverInv /\ SidecarInv /\ AccountInv /\ [Next]_vars => AccountInv'
  <1> SUFFICES ASSUME TypeOK, MergedInv, CoverInv, SidecarInv, AccountBody, [Next]_vars,
                      HasFlock, NEW c \in Touches, c <= main'
               PROVE  c <= generation' \/ InHand(c)'
    BY DEF AccountInv, AccountBody, InHand
  <1>0. c \in Commit /\ c \in Nat
    BY CommitsAssumption DEF Commit
  <1>1. c <= generation => c <= generation'
    BY StepGeneration
  <1>2. CASE c > main
    <2>0. main' # main
      BY <1>0, <1>2, MainGrows
    <2>1. Merge
      BY <2>0, HeadType DEF Next, vars, Forge, Refuse, StartRun, RunEnds, JobKilled,
         Dispatch, HumanStart, Wrapper, WriteStarted, TakeLock, Busy, Superseded, GoAhead,
         Checkout, Launch, LaunchFails, Collect, PollTimeout, Interrupt, Unit, UnitStarts, Evaluate,
         Activate, RebuildFails, Reboot, host, kept, forge
    <2>2. c = main + 1
      BY <1>0, <1>2, <2>1, MainGrows DEF Merge
    <2>3. queue' = Append(queue, c)
      BY <2>1, <2>2, CommitsAssumption DEF Merge
    <2>4. \E i \in DOMAIN queue' : queue'[i] = c
      BY <1>0, <2>3, AppendKeeps
    <2> QED
      BY <1>0, <2>4 DEF InHand
  <1>3. CASE c <= main
    <2>0. c <= generation \/ InHand(c)
      BY <1>3 DEF AccountBody
    <2>1. ASSUME UNCHANGED <<queue, job, red>> PROVE c <= generation' \/ InHand(c)'
      BY <1>0, <1>1, <2>0, <2>1, StaysInHand
    <2>2. CASE UNCHANGED vars \/ Unit
      BY <2>1, <2>2 DEF vars, Unit, UnitStarts, Evaluate, Activate, RebuildFails, host, kept, forge
    <2>3. ASSUME NEW d \in Commit, Wrapper(d) \/ PollTimeout(d) \/ Interrupt(d) \/ HumanStart(d)
          PROVE  c <= generation' \/ InHand(c)'
      BY <2>1, <2>3 DEF HumanStart, Wrapper, WriteStarted, TakeLock, Busy, Superseded, GoAhead,
         Checkout, Launch, LaunchFails, Collect, PollTimeout, Interrupt, kept, forge
    <2>4. CASE Merge
      <3>1. main + 1 \in Commit
        BY <2>4, MainGrows, CommitsAssumption DEF Merge, Commit
      <3>2. \A i \in DOMAIN queue : i \in DOMAIN queue' /\ queue'[i] = queue[i]
        BY <2>4, <3>1, AppendKeeps DEF Merge
      <3> QED
        BY <1>0, <1>1, <2>0, <2>4, <3>2, StaysInHand DEF Merge
    <2>5. ASSUME NEW d \in Commit, Dispatch(d) PROVE c <= generation' \/ InHand(c)'
      <3>1. \A i \in DOMAIN queue : i \in DOMAIN queue' /\ queue'[i] = queue[i]
        BY <2>5, AppendKeeps DEF Dispatch
      <3> QED
        BY <1>0, <1>1, <2>0, <2>5, <3>1, StaysInHand DEF Dispatch
    <2>6. CASE Refuse
      <3>1. Head(queue) \in Commit /\ Head(queue) <= main
        BY <2>6, QueueElements DEF Refuse
      <3>2. InHand(c) => InHand(c)'
        BY <1>0, <2>6, <3>1, RedIsInHand DEF Refuse
      <3> QED
        BY <1>1, <2>0, <3>2
    <2>7. CASE StartRun
      <3>1. Head(queue) \in Commit /\ job' = Head(queue) /\ job' # NoCommit
        BY <2>7, HeadType, CommitsAssumption DEF StartRun, Commit
      <3>2. ASSUME NEW i \in DOMAIN queue, c <= queue[i] PROVE InHand(c)'
        <4>1. queue[i] = Head(queue) \/ \E j \in DOMAIN queue' : queue'[j] = queue[i]
          BY <2>7, HeadOrTail DEF StartRun
        <4> QED
          BY <3>1, <3>2, <4>1 DEF InHand
      <3>3. InHand(c) => InHand(c)'
        BY <2>7, <3>2 DEF StartRun, InHand
      <3> QED
        BY <1>1, <2>0, <3>3
    <2>8. CASE RunEnds
      BY <1>1, <1>3, <2>8, RunEndsAccount
    <2>9. CASE JobKilled \/ (Reboot /\ job # NoCommit)
      <3>1. job \in Commit /\ job <= main
        BY <2>9 DEF JobKilled, TypeOK, MergedInv
      <3>2. InHand(c) => InHand(c)'
        BY <1>0, <2>9, <3>1, RedIsInHand DEF JobKilled, Reboot
      <3> QED
        BY <1>1, <2>0, <3>2
    <2>10. CASE Reboot /\ job = NoCommit
      BY <2>1, <2>10 DEF Reboot
    <2>11. CASE Forge
      BY <2>4, <2>6, <2>7, <2>8, <2>9, <2>11 DEF Forge
    <2>12. CASE Reboot
      BY <2>9, <2>10, <2>12
    <2>13. CASE \E d \in Commit : \/ Dispatch(d) \/ HumanStart(d) \/ Wrapper(d)
                                  \/ PollTimeout(d) \/ Interrupt(d)
      BY <2>3, <2>5, <2>13
    <2> QED
      BY <2>2, <2>11, <2>12, <2>13 DEF Next
  <1> QED
    BY <1>0, <1>2, <1>3, MainGrows

LEMMA AccountInvariant == Spec => []AccountInv
  BY InitAccountInv, NextAccountInv, SidecarInvariant, CoverInvariant, MergedInvariant,
     TypeCorrect, PTL DEF Spec

\* When all is quiet, every merged change under nixos/ringtail/ is active, or a
\* red run says that its own, or a newer one, is not, or its verdict was read
\* too early: through refused, killed and repeated runs, starts by hand,
\* interrupted wrappers and reboots, provided flock is installed.
THEOREM NothingLost == ASSUME HasFlock PROVE Spec => []NothingLostSilently
  <1>1. TypeOK /\ AccountInv => NothingLostSilently
    <2> SUFFICES ASSUME TypeOK, AccountInv, Quiescent, NEW c \in Touches, c <= main
                 PROVE  c <= generation \/ \E d \in c..main : d \in red \union early
      BY DEF NothingLostSilently
    <2>1. c <= generation \/ \E d \in red \union early : c <= d /\ d <= main
      <3>1. DOMAIN queue = {} /\ job = NoCommit
        BY DEF Quiescent
      <3> QED
        BY <3>1 DEF AccountInv, InHand
    <2>2. \A d \in red \union early : c <= d /\ d <= main => d \in c..main
      BY CommitsAssumption DEF TypeOK, Commit
    <2> QED
      BY <2>1, <2>2
  <1> QED
    BY <1>1, AccountInvariant, TypeCorrect, PTL
=============================================================================
