--------------------------- MODULE RingtailApply ---------------------------
(***************************************************************************)
(* Applying a blumeops commit to ringtail.                                 *)
(*                                                                         *)
(* A ringtail-rebuild run, once gate, preflight and FOD evaluation let it  *)
(* through, starts the systemd unit ringtail-apply@<sha> and waits for it; *)
(* a human on the host may start one too.  The unit's wrapper holds a      *)
(* flock, checks for newer merges, checks its commit out in /etc/blumeops  *)
(* and starts nixos-rebuild in a detached transient unit of one fixed      *)
(* name, which outlives the wrapper if that is interrupted.  An EXIT trap  *)
(* leaves the wrapper's verdict in <sha>.status.                           *)
(*                                                                         *)
(* Commits are the positions of main's history, 0 being the one ringtail   *)
(* runs at first.  A unit is named by its commit, so there is one wrapper  *)
(* per commit, which can be started again when it has ended.               *)
(***************************************************************************)
EXTENDS Naturals, Sequences

CONSTANTS
    MaxCommit,     \* bound on merges to main
    Touches,       \* the commits that change nixos/ringtail/
    Watched,       \* the commits of the push filter, which lists shared inputs too
    NoCommit,      \* no run, no lock holder
    HasFlock,      \* whether flock is installed
    MaxManual,     \* bound on dispatches and starts by hand
    MaxFaults      \* bound on refusals, kills, interrupts, reboots, failed fetches

ASSUME CommitsAssumption ==
    /\ MaxCommit \in Nat
    /\ Touches \subseteq Watched
    /\ Watched \subseteq 1..MaxCommit
    /\ NoCommit \notin Nat
ASSUME BoundsAssumption ==
    /\ HasFlock \in BOOLEAN
    /\ MaxManual \in Nat /\ MaxFaults \in Nat

Commit == 0..MaxCommit

VARIABLES
    main,        \* the tip of origin/main
    queue,       \* runs of the workflow's concurrency group, oldest first
    job,         \* the commit of the run whose rebuild job holds the runner
    red,         \* commits with a failed run (refusals post an alert as well)
    pc,          \* where the wrapper of each commit is
    flock,       \* who holds /var/lock/ringtail-apply.lock
    tree,        \* the commit checked out in /etc/blumeops
    rebuild,     \* state of the transient unit blumeops-nixos-rebuild
    built,       \* the commit the rebuild evaluated
    generation,  \* the commit of the active NixOS generation
    status,      \* the sidecar <sha>.status
    early,       \* history: commits whose verdict was read before the rebuild began
    manual,      \* dispatches and starts by hand so far
    faults       \* faults so far

vars == <<main, queue, job, red, pc, flock, tree, rebuild, built, generation,
          status, early, manual, faults>>

Guarded == {"fetch", "checkout", "launch", "poll"}
Live == {"begin", "enter"} \union Guarded
Verdicts == {"success", "superseded", "busy", "interrupted", "rebuild-failed", "timeout"}
Running(c) == pc[c] \in Live

Init ==
    /\ main = 0
    /\ queue = <<>>
    /\ job = NoCommit
    /\ red = {}
    /\ pc = [c \in Commit |-> "idle"]
    /\ flock = NoCommit
    /\ tree = 0
    /\ rebuild = "inactive"
    /\ built = 0
    /\ generation = 0
    /\ status = [c \in Commit |-> "none"]
    /\ early = {}
    /\ manual = 0
    /\ faults = 0

Fault == faults < MaxFaults /\ faults' = faults + 1

-----------------------------------------------------------------------------
(* The forge and its runner. *)

Merge ==
    /\ main < MaxCommit
    /\ main' = main + 1
    /\ queue' = IF main + 1 \in Watched THEN Append(queue, main + 1) ELSE queue
    /\ UNCHANGED <<job, red, pc, flock, tree, rebuild, built, generation, status,
                   early, manual, faults>>

Dispatch(c) ==
    /\ manual < MaxManual
    /\ c <= main
    /\ manual' = manual + 1
    /\ queue' = Append(queue, c)
    /\ UNCHANGED <<main, job, red, pc, flock, tree, rebuild, built, generation,
                   status, early, faults>>

\* Gate, preflight or FOD evaluation refuse the oldest run.
Refuse ==
    /\ job = NoCommit /\ queue # <<>>
    /\ Fault
    /\ red' = red \union {Head(queue)}
    /\ queue' = Tail(queue)
    /\ UNCHANGED <<main, job, pc, flock, tree, rebuild, built, generation, status,
                   early, manual>>

\* systemctl start of a unit that is active joins it; a new start drops the
\* sidecar an earlier one left.
StartUnit(c) ==
    IF Running(c) THEN UNCHANGED <<pc, status>>
    ELSE /\ pc' = [pc EXCEPT ![c] = "begin"]
         /\ status' = [status EXCEPT ![c] = "none"]

StartRun ==
    /\ job = NoCommit /\ queue # <<>>
    /\ job' = Head(queue)
    /\ queue' = Tail(queue)
    /\ StartUnit(Head(queue))
    /\ UNCHANGED <<main, red, flock, tree, rebuild, built, generation, early, manual, faults>>

HumanStart(c) ==
    /\ manual < MaxManual
    /\ c <= main
    /\ manual' = manual + 1
    /\ StartUnit(c)
    /\ UNCHANGED <<main, queue, job, red, flock, tree, rebuild, built, generation, early,
                   faults>>

\* systemctl start --wait returns.
RunEnds ==
    /\ job # NoCommit /\ ~Running(job)
    /\ red' = IF status[job] \in {"success", "superseded"} THEN red ELSE red \union {job}
    /\ job' = NoCommit
    /\ UNCHANGED <<main, queue, pc, flock, tree, rebuild, built, generation, status,
                   early, manual, faults>>

\* The job dies (a switch restarts the runner); the unit it started does not.
JobKilled ==
    /\ job # NoCommit
    /\ Fault
    /\ red' = red \union {job}
    /\ job' = NoCommit
    /\ UNCHANGED <<main, queue, pc, flock, tree, rebuild, built, generation, status,
                   early, manual>>

-----------------------------------------------------------------------------
(* The wrapper, ringtail-apply.sh. *)

forge == <<main, queue, job, red, manual>>
kept == <<forge, early>>

Goto(c, from, to) ==
    /\ pc[c] = from
    /\ pc' = [pc EXCEPT ![c] = to]

\* The EXIT trap writes the verdict; the kernel drops the lock with the process.
Exit(c, verdict) ==
    /\ status' = [status EXCEPT ![c] = verdict]
    /\ flock' = IF flock = c THEN NoCommit ELSE flock

WriteStarted(c) ==
    /\ Goto(c, "begin", "enter")
    /\ status' = [status EXCEPT ![c] = "started"]
    /\ UNCHANGED <<kept, flock, tree, rebuild, built, generation, faults>>

\* Variant of TakeLock: the lock file is a new one each time.
TakeLockAlways(c) ==
    /\ Goto(c, "enter", "fetch")
    /\ flock' = IF HasFlock THEN c ELSE flock
    /\ UNCHANGED <<kept, tree, rebuild, built, generation, status, faults>>

TakeLock(c) ==
    /\ Goto(c, "enter", "fetch")
    /\ flock = NoCommit \/ ~HasFlock
    /\ flock' = IF HasFlock THEN c ELSE flock
    /\ UNCHANGED <<kept, tree, rebuild, built, generation, status, faults>>

Busy(c) ==
    /\ Goto(c, "enter", "ended")
    /\ flock # NoCommit /\ HasFlock
    /\ Exit(c, "busy")
    /\ UNCHANGED <<kept, tree, rebuild, built, generation, faults>>

\* Variant of DiffersOverRingtail: from the parent of the commit.
DiffersFromParent(c, d) == \E e \in Touches : c <= e /\ e <= d

\* The diff of two commits of main over nixos/ringtail/ is not empty.
DiffersOverRingtail(c, d) == \E e \in Touches : c < e /\ e <= d

Superseded(c) ==
    /\ Goto(c, "fetch", "ended")
    /\ DiffersOverRingtail(c, main)
    /\ Exit(c, "superseded")
    /\ UNCHANGED <<kept, tree, rebuild, built, generation, faults>>

GoAhead(c) ==
    /\ Goto(c, "fetch", "checkout")
    /\ ~DiffersOverRingtail(c, main)
    /\ UNCHANGED <<kept, flock, tree, rebuild, built, generation, status, faults>>

Checkout(c) ==
    /\ Goto(c, "checkout", "launch")
    /\ tree' = c
    /\ UNCHANGED <<kept, flock, rebuild, built, generation, status, faults>>

\* What ActiveState says, and whether the unit's name is taken.
UnitActive == rebuild \in {"starting", "building"}
UnitExists == rebuild = "queued" \/ UnitActive

\* Variant of Launch: a start of the unit that joins one that is there.
LaunchJoins(c) ==
    /\ Goto(c, "launch", "poll")
    /\ rebuild' = IF UnitExists THEN rebuild ELSE "queued"
    /\ UNCHANGED <<kept, flock, tree, built, generation, status, faults>>

\* reset-failed, then systemd-run --no-block under the one fixed unit name: the
\* start is a job in systemd's queue ...
Launch(c) ==
    /\ Goto(c, "launch", "poll")
    /\ ~UnitExists
    /\ rebuild' = "queued"
    /\ UNCHANGED <<kept, flock, tree, built, generation, status, faults>>

\* ... and fails while the unit of an earlier wrapper is still there.
LaunchFails(c) ==
    /\ Goto(c, "launch", "ended")
    /\ UnitExists
    /\ Exit(c, "interrupted")
    /\ UNCHANGED <<kept, tree, rebuild, built, generation, faults>>

\* Variants of Collect: the unit's state as the verdict, and a poll that waits
\* for inactive only.
CollectRaw(c) ==
    /\ Goto(c, "poll", "ended")
    /\ ~UnitActive
    /\ Exit(c, rebuild)
    /\ UNCHANGED <<kept, tree, rebuild, built, generation, faults>>

CollectInactive(c) ==
    /\ Goto(c, "poll", "ended")
    /\ rebuild = "inactive"
    /\ Exit(c, "success")
    /\ UNCHANGED <<kept, tree, rebuild, built, generation, faults>>

\* The poll sees the unit inactive or failed; success resets the unit.  A unit
\* whose start is still queued is inactive too, with Result=success.
Collect(c) ==
    /\ Goto(c, "poll", "ended")
    /\ ~UnitActive
    /\ Exit(c, IF rebuild = "failed" THEN "rebuild-failed" ELSE "success")
    /\ early' = IF rebuild = "queued" THEN early \union {c} ELSE early
    /\ UNCHANGED <<forge, tree, rebuild, built, generation, faults>>

PollTimeout(c) ==
    /\ Goto(c, "poll", "ended")
    /\ UnitActive
    /\ Fault
    /\ Exit(c, "timeout")
    /\ UNCHANGED <<kept, tree, rebuild, built, generation>>

\* A command fails under set -e (the fetch), or the wrapper gets a SIGTERM.
Interrupt(c) ==
    /\ pc[c] \in Live \ {"begin"}
    /\ Fault
    /\ pc' = [pc EXCEPT ![c] = "ended"]
    /\ Exit(c, "interrupted")
    /\ UNCHANGED <<kept, tree, rebuild, built, generation>>

-----------------------------------------------------------------------------
(* The transient unit, and the host. *)

host == <<kept, pc, flock, tree, status, faults>>

\* systemd runs the queued job, ...
UnitStarts ==
    /\ rebuild = "queued"
    /\ rebuild' = "starting"
    /\ UNCHANGED <<host, built, generation>>

\* ... nixos-rebuild evaluates the flake of /etc/blumeops as it is now, ...
Evaluate ==
    /\ rebuild = "starting"
    /\ rebuild' = "building"
    /\ built' = tree
    /\ UNCHANGED <<host, generation>>

\* ... and later switches to what it built, or fails, or is timed out.
Activate ==
    /\ rebuild = "building"
    /\ rebuild' = "inactive"
    /\ generation' = built
    /\ UNCHANGED <<host, built>>

RebuildFails ==
    /\ UnitActive
    /\ rebuild' = "failed"
    /\ UNCHANGED <<host, built, generation>>

\* Power loss: every process and unit is gone, every file stays.
Reboot ==
    /\ Fault
    /\ UnitExists \/ \E c \in Commit : Running(c)
    /\ pc' = [c \in Commit |-> IF Running(c) THEN "ended" ELSE pc[c]]
    /\ flock' = NoCommit
    /\ rebuild' = "inactive"
    /\ red' = IF job = NoCommit THEN red ELSE red \union {job}
    /\ job' = NoCommit
    /\ UNCHANGED <<main, queue, tree, built, generation, status, early, manual>>

-----------------------------------------------------------------------------
Forge == Merge \/ Refuse \/ StartRun \/ RunEnds \/ JobKilled

Wrapper(c) ==
    \/ WriteStarted(c) \/ TakeLock(c) \/ Busy(c) \/ Superseded(c) \/ GoAhead(c)
    \/ Checkout(c) \/ Launch(c) \/ LaunchFails(c) \/ Collect(c)

Unit == UnitStarts \/ Evaluate \/ Activate \/ RebuildFails

Next ==
    \/ Forge \/ Unit \/ Reboot
    \/ \E c \in Commit :
         Dispatch(c) \/ HumanStart(c) \/ Wrapper(c) \/ PollTimeout(c) \/ Interrupt(c)

Spec == Init /\ [][Next]_vars

\* systemd runs every started wrapper and the rebuild (its TimeoutStartSec ends
\* a hung one), and the runner works off the queue.
Fairness ==
    /\ \A c \in Commit : WF_vars(Wrapper(c))
    /\ WF_vars(Unit) /\ WF_vars(StartRun) /\ WF_vars(RunEnds)
FairSpec == Spec /\ Fairness

-----------------------------------------------------------------------------
TypeOK ==
    /\ main \in Commit /\ tree \in Commit /\ built \in Commit /\ generation \in Commit
    /\ queue \in Seq(Commit)
    /\ job \in Commit \union {NoCommit}
    /\ red \subseteq Commit
    /\ pc \in [Commit -> {"idle", "ended"} \union Live]
    /\ flock \in Commit \union {NoCommit}
    /\ rebuild \in {"inactive", "queued", "starting", "building", "failed"}
    /\ status \in [Commit -> Verdicts \union {"none", "started"}]
    /\ early \subseteq Commit
    /\ manual \in 0..MaxManual /\ faults \in 0..MaxFaults

\* "Exclusive flock so two applies can't overlap": no two wrappers are between
\* the lock and their exit.
NoOverlap ==
    \A c, d \in Commit : pc[c] \in Guarded /\ pc[d] \in Guarded => c = d

\* "ringtail now runs blumeops <sha>": a wrapper reports success only when its
\* own commit is the active generation, whatever rebuild ran before, unless it
\* read the unit's state before systemd had started it.
SuccessMeansApplied ==
    [][\A c \in Commit : status'[c] = "success" /\ status[c] # "success"
          => generation = c \/ rebuild = "queued"]_vars

\* No apply takes a merged change of the push filter away from the host again:
\* a host exits clean "instead of applying a commit a newer run is already
\* bringing" (auto-apply.md:259).  False where Touches # Watched.
NoRegress ==
    [][\A c \in Watched : c <= generation => c <= generation']_generation

\* Ringtail keeps the promise of HostGeneration for what is under
\* nixos/ringtail/, which is what the wrapper's diff looks at.
Promise == INSTANCE HostGeneration WITH
               Watched <- Touches, main <- main, generation <- generation
KeepsPromise == Promise!Spec

Quiescent ==
    /\ queue = <<>> /\ job = NoCommit /\ ~UnitExists
    /\ \A c \in Commit : ~Running(c)

\* When all is quiet, every merged change under nixos/ringtail/ is in the active
\* generation, or a red run or an alerting sidecar says that its run, or a newer
\* one, did not go through, or the verdict of one was read too early.
NothingLostSilently ==
    Quiescent => \A c \in Touches : c <= main =>
        \/ c <= generation
        \/ \E d \in c..main :
              \/ d \in red \union early
              \/ status[d] \notin {"none", "success", "superseded"}

\* Every run that is queued ends, with the wrapper it started.
RunsEnd == queue # <<>> \/ job # NoCommit ~> queue = <<>> /\ job = NoCommit

-----------------------------------------------------------------------------
(* Inductive invariants behind the safety properties. *)

\* A wrapper past the lock holds it, where there is one.
FlockInv == HasFlock => \A c \in Commit : pc[c] \in Guarded => flock = c

\* The rebuild a wrapper polls is of its own commit.
OwnRebuildInv ==
    HasFlock => \A c \in Commit :
        /\ pc[c] \in {"launch", "poll"} => tree = c
        /\ pc[c] = "poll" => /\ rebuild = "building" => built = c
                             /\ rebuild = "inactive" => generation = c

\* c has every merged change under nixos/ringtail/ that d has.
Covers(c, d) == \A e \in Touches : e <= d => e <= c

\* Nothing newer than main is on its way to the host.
MergedInv ==
    /\ \A i \in DOMAIN queue : queue[i] <= main
    /\ job # NoCommit => job <= main
    /\ \A c \in Commit : Running(c) => c <= main
    /\ tree <= main /\ built <= main /\ generation <= main

\* What is checked out covers what is built, and that what is active.
CoverInv ==
    HasFlock =>
        /\ Covers(tree, generation)
        /\ rebuild = "building" => Covers(tree, built) /\ Covers(built, generation)
        /\ \A c \in Commit : pc[c] = "checkout" => Covers(c, tree)

\* What a sidecar says stays true: of what is active, or of a newer merge.
SidecarInv ==
    HasFlock =>
        \A d \in Commit :
            /\ status[d] = "success" => d \in early \/ Covers(generation, d)
            /\ status[d] = "superseded" => \E e \in Touches : d < e /\ e <= main

\* Every merged change under nixos/ringtail/ is active, or in hand: its commit or
\* a newer one is queued or under way, or has a failed run or an early verdict.
InHand(c) ==
    \/ \E i \in DOMAIN queue : c <= queue[i]
    \/ job # NoCommit /\ c <= job
    \/ \E d \in red \union early : c <= d /\ d <= main
AccountInv ==
    HasFlock =>
        \A c \in Touches : c <= main => c <= generation \/ InHand(c)
=============================================================================
