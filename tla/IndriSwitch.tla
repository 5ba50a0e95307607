---------------------------- MODULE IndriSwitch ----------------------------
(***************************************************************************)
(* Applying a blumeops commit to indri.                                    *)
(*                                                                         *)
(* A merge to main that touches a watched path queues a provision-indri    *)
(* workflow run; a human may dispatch an older commit or run the play from *)
(* another machine.  Every play checks its commit out in the one           *)
(* /etc/blumeops, and when that moved the checkout it starts a detached    *)
(* shell: mkdir lock, supersede check, darwin-rebuild switch, verdict      *)
(* sidecar.  Nothing waits for a workflow's switch, so the shells of       *)
(* several runs are alive together.                                        *)
(*                                                                         *)
(* Commits are the positions of main's history, 0 being the one indri      *)
(* runs at first.  A human may also apply the tip of a branch; of that it  *)
(* counts which of main's commits it has, those up to its fork.  A launch  *)
(* is one execution of the play and, once spawned, its shell and its pid.  *)
(***************************************************************************)
EXTENDS Naturals, Sequences

CONSTANTS
    Launches,      \* the plays that may be run, numbered as they are
    MaxCommit,     \* bound on merges to main
    Touches,       \* the commits that change darwin/indri/
    Watched,       \* the commits that match the workflow's push filter
    Tip,           \* the apply target "main" (no indri_commit given)
    Branch,        \* the apply target that is no commit of main
    Free,          \* the lock directory does not exist
    NoPid,         \* the lock directory holds no pid file
    MaxTries,      \* polls of a held lock before giving up (180 in the code)
    MaxManual,     \* bound on dispatches and human runs
    MaxFaults,     \* bound on refused runs, killed plays and reboots
    FetchFails     \* whether the shell's git fetch can fail

ASSUME CommitsAssumption ==
    /\ MaxCommit \in Nat
    /\ Touches \subseteq Watched
    /\ Watched \subseteq 1..MaxCommit
ASSUME NamesAssumption ==
    /\ Launches \subseteq Nat
    /\ Tip \notin Nat /\ Branch \notin Nat /\ Tip # Branch
    /\ Free \notin Launches /\ NoPid \notin Launches /\ Free # NoPid
ASSUME BoundsAssumption ==
    /\ MaxTries \in Nat /\ MaxManual \in Nat /\ MaxFaults \in Nat
    /\ FetchFails \in BOOLEAN

Commit == 0..MaxCommit
Target == Commit \union {Tip, Branch}

VARIABLES
    main,        \* the tip of origin/main
    queue,       \* runs of the workflow's concurrency group, oldest first
    tree,        \* the last commit of main in what /etc/blumeops has checked out
    forked,      \* whether that is a branch's tip
    lock,        \* /var/log/indri-rebuild/.switch.lock and its pid file
    status,      \* the sidecar <target>.status
    generation,  \* the commit of the active nix-darwin generation
    pc,          \* where each launch is
    by,          \* who runs the play: the workflow, or a human who waits
    target,      \* the launch's indri_apply_target
    seen,        \* the pid last read from the lock
    tries,       \* the shell's n
    built,       \* the commit the running switch evaluated
    verdict,     \* what the launch's own shell ended with
    result,      \* how the play (the run) ended
    refused,     \* runs the gate or the preflight refused, with an alert
    manual,      \* dispatches and human runs so far
    faults,      \* faults so far
    stolen       \* whether a lock was ever removed as stale under a live holder

repo == <<tree, forked>>
shell == <<lock, status, generation, seen, tries, built, verdict, stolen>>
environment == <<queue, refused, manual, faults>>
vars == <<main, queue, repo, lock, status, generation, pc, by, target, seen,
          tries, built, verdict, result, refused, manual, faults, stolen>>

Waiting == {"acquire", "inspect", "probe", "reclaim"}
Switching == {"eval", "activate"}
Critical == {"own", "check", "start", "verdict", "exit"} \union Switching
Live == Waiting \union Critical
Ended == {"noop", "done", "dead"}
Verdicts == {"ok", "failed", "superseded", "lock-held"}

Alive(l) == pc[l] \in Live

Init ==
    /\ main = 0
    /\ queue = <<>>
    /\ tree = 0 /\ forked = FALSE
    /\ lock = Free
    /\ status = [t \in Target |-> "none"]
    /\ generation = 0
    /\ pc = [l \in Launches |-> "idle"]
    /\ by = [l \in Launches |-> "workflow"]
    /\ target = [l \in Launches |-> 0]
    /\ seen = [l \in Launches |-> NoPid]
    /\ tries = [l \in Launches |-> 0]
    /\ built = [l \in Launches |-> 0]
    /\ verdict = [l \in Launches |-> "none"]
    /\ result = [l \in Launches |-> "none"]
    /\ refused = {}
    /\ manual = 0
    /\ faults = 0
    /\ stolen = FALSE

-----------------------------------------------------------------------------
(* The forge: merges, the run queue, the jobs that may refuse a run. *)

Merge ==
    /\ main < MaxCommit
    /\ main' = main + 1
    /\ queue' = IF main + 1 \in Watched THEN Append(queue, main + 1) ELSE queue
    /\ UNCHANGED <<shell, repo, pc, by, target, result, refused, manual, faults>>

Dispatch(c) ==
    /\ manual < MaxManual
    /\ c <= main
    /\ manual' = manual + 1
    /\ queue' = Append(queue, c)
    /\ UNCHANGED <<shell, main, repo, pc, by, target, result, refused, faults>>

Queued(c) == \E i \in DOMAIN queue : queue[i] = c

NoWorkflowPlay ==
    \A l \in Launches : ~(by[l] = "workflow" /\ pc[l] = "checkedout")

\* Variant of Refuse: a job that stops the run and does not fail.
RefuseSilently ==
    /\ queue # <<>> /\ NoWorkflowPlay
    /\ faults < MaxFaults
    /\ faults' = faults + 1
    /\ queue' = Tail(queue)
    /\ UNCHANGED <<shell, main, repo, pc, by, target, result, refused, manual>>

\* The gate (no merge commit) or the preflight (no runner online) says no.
Refuse ==
    /\ queue # <<>> /\ NoWorkflowPlay
    /\ faults < MaxFaults
    /\ faults' = faults + 1
    /\ refused' = refused \union {Head(queue)}
    /\ queue' = Tail(queue)
    /\ UNCHANGED <<shell, main, repo, pc, by, target, result, manual>>

-----------------------------------------------------------------------------
(* The play. *)

\* ansible.builtin.git with force: every later task of the rebuild is gated
\* on the checkout having changed.
Checkout(l, who, t, commit, changed) ==
    /\ pc[l] = "idle"
    /\ \A k \in Launches : k < l => pc[k] # "idle"
    /\ tree' = commit
    /\ forked' = (t = Branch)
    /\ by' = [by EXCEPT ![l] = who]
    /\ target' = [target EXCEPT ![l] = t]
    /\ pc' = [pc EXCEPT ![l] = IF changed THEN "checkedout" ELSE "noop"]
    /\ result' = [result EXCEPT ![l] = IF changed THEN "none" ELSE "green"]

CheckoutMain(l, who, t) ==
    LET commit == IF t = Tip THEN main ELSE t
    IN  Checkout(l, who, t, commit, commit # tree \/ forked)

WorkflowCheckout(l) ==
    /\ queue # <<>> /\ NoWorkflowPlay
    /\ queue' = Tail(queue)
    /\ CheckoutMain(l, "workflow", Head(queue))
    /\ UNCHANGED <<shell, main, refused, manual, faults>>

\* provision-indri on another machine: a commit of main, the bare play, or the
\* pushed tip of a branch, which may be the one that is there already.
HumanCheckout(l, t) ==
    /\ manual < MaxManual
    /\ manual' = manual + 1
    /\ \/ (t = Tip \/ t \in 0..main) /\ CheckoutMain(l, "human", t)
       \/ /\ t = Branch
          /\ \E fork \in 0..main, changed \in BOOLEAN :
                /\ changed \/ (forked /\ fork = tree)
                /\ Checkout(l, "human", t, fork, changed)
    /\ UNCHANGED <<shell, main, queue, refused, faults>>

\* Drop the leftover sidecar and start the shell; a workflow's play is over.
Spawn(l) ==
    /\ pc[l] = "checkedout"
    /\ pc' = [pc EXCEPT ![l] = "acquire"]
    /\ status' = [status EXCEPT ![target[l]] = "none"]
    /\ result' = [result EXCEPT ![l] = IF by[l] = "workflow" THEN "green" ELSE "none"]
    /\ UNCHANGED <<main, repo, by, target, lock, generation, seen, tries, built,
                   verdict, stolen, environment>>

\* The runner's agent is reloaded by an earlier switch, or the session drops.
PlayKilled(l) ==
    /\ pc[l] = "checkedout"
    /\ faults < MaxFaults
    /\ faults' = faults + 1
    /\ pc' = [pc EXCEPT ![l] = "dead"]
    /\ result' = [result EXCEPT ![l] = "red"]
    /\ UNCHANGED <<shell, main, repo, by, target, queue, refused, manual>>

\* A human's play polls the sidecar and reports its verdict ...
AwaitVerdict(l) ==
    /\ by[l] = "human" /\ result[l] = "none"
    /\ pc[l] \in Live \union {"done"}
    /\ status[target[l]] \in Verdicts
    /\ result' = [result EXCEPT ![l] =
                    IF status[target[l]] \in {"ok", "superseded"} THEN "green" ELSE "red"]
    /\ UNCHANGED <<shell, main, repo, pc, by, target, environment>>

\* ... or gives up on it.
AwaitTimeout(l) ==
    /\ by[l] = "human" /\ result[l] = "none"
    /\ pc[l] \in Live \union {"done"}
    /\ status[target[l]] \notin Verdicts
    /\ result' = [result EXCEPT ![l] = "red"]
    /\ UNCHANGED <<shell, main, repo, pc, by, target, environment>>

-----------------------------------------------------------------------------
(* The detached shell. *)

ShellStep(l, from, to) ==
    /\ pc[l] = from
    /\ pc' = [pc EXCEPT ![l] = to]
    /\ UNCHANGED <<main, repo, by, target, result, environment>>

\* n and holder are of no use after the loop.
LeaveLoop(l) ==
    /\ seen' = [seen EXCEPT ![l] = NoPid]
    /\ tries' = [tries EXCEPT ![l] = 0]

\* Variant of MakeLock: mkdir -p, which succeeds on a held lock.
MakeLockDashP(l) ==
    /\ ShellStep(l, "acquire", "own")
    /\ LeaveLoop(l)
    /\ lock' = NoPid
    /\ UNCHANGED <<status, generation, built, verdict, stolen>>

\* while ! mkdir .switch.lock
MakeLock(l) ==
    /\ lock = Free
    /\ ShellStep(l, "acquire", "own")
    /\ LeaveLoop(l)
    /\ lock' = NoPid
    /\ UNCHANGED <<status, generation, built, verdict, stolen>>

\* Variant of LockTaken: the shell never counts its tries.
LockTakenUncounted(l) ==
    /\ lock # Free
    /\ ShellStep(l, "acquire", "inspect")
    /\ UNCHANGED shell

LockTaken(l) ==
    /\ lock # Free
    /\ ShellStep(l, "acquire", "inspect")
    /\ tries' = [tries EXCEPT ![l] = IF @ < MaxTries THEN @ + 1 ELSE @]
    /\ UNCHANGED <<lock, status, generation, seen, built, verdict, stolen>>

\* Variant of ReadHolder: no fallback for a pid file that is not there.
ReadHolderRaw(l) ==
    /\ ShellStep(l, "inspect", "probe")
    /\ seen' = [seen EXCEPT ![l] = lock]
    /\ UNCHANGED <<lock, status, generation, tries, built, verdict, stolen>>

ReadHolder(l) ==
    /\ ShellStep(l, "inspect", "probe")
    /\ seen' = [seen EXCEPT ![l] = IF lock \in Launches THEN lock ELSE NoPid]
    /\ UNCHANGED <<lock, status, generation, tries, built, verdict, stolen>>

HolderDead(l) == seen[l] \in Launches /\ ~Alive(seen[l])

ProbeStale(l) ==
    /\ HolderDead(l)
    /\ ShellStep(l, "probe", "reclaim")
    /\ UNCHANGED shell

ProbeWait(l) ==
    /\ ~HolderDead(l) /\ tries[l] < MaxTries
    /\ ShellStep(l, "probe", "acquire")
    /\ UNCHANGED shell

\* Variant of GiveUp: with the EXIT trap set before the loop.
GiveUpTrapped(l) ==
    /\ ~HolderDead(l) /\ tries[l] >= MaxTries
    /\ ShellStep(l, "probe", "done")
    /\ LeaveLoop(l)
    /\ verdict' = [verdict EXCEPT ![l] = "lock-held"]
    /\ status' = [status EXCEPT ![target[l]] = "lock-held"]
    /\ lock' = Free
    /\ UNCHANGED <<generation, built, stolen>>

GiveUp(l) ==
    /\ ~HolderDead(l) /\ tries[l] >= MaxTries
    /\ ShellStep(l, "probe", "done")
    /\ LeaveLoop(l)
    /\ verdict' = [verdict EXCEPT ![l] = "lock-held"]
    /\ status' = [status EXCEPT ![target[l]] = "lock-held"]
    /\ UNCHANGED <<lock, generation, built, stolen>>

\* rm -rf of the directory, whoever's it has become since the read.
Reclaim(l) ==
    /\ ShellStep(l, "reclaim", "acquire")
    /\ lock' = Free
    /\ stolen' = (stolen \/ \E k \in Launches : pc[k] \in Critical)
    /\ UNCHANGED <<status, generation, seen, tries, built, verdict>>

\* echo $$ > pid: fails, without stopping the shell, when the directory is gone.
WritePid(l) ==
    /\ ShellStep(l, "own", "check")
    /\ lock' = IF lock = Free THEN Free ELSE l
    /\ UNCHANGED <<status, generation, seen, tries, built, verdict, stolen>>

\* The diff of two commits of main over darwin/indri/ is not empty.
DiffersOverDarwin(c, d) == \E e \in Touches : c < e /\ e <= d

\* What is no commit of main is never superseded.
SupersedeCheck(c) ==
    /\ c \in Commit
    /\ main # c
    /\ DiffersOverDarwin(c, main)

Superseded(l) ==
    /\ SupersedeCheck(target[l])
    /\ ShellStep(l, "check", "exit")
    /\ verdict' = [verdict EXCEPT ![l] = "superseded"]
    /\ status' = [status EXCEPT ![target[l]] = "superseded"]
    /\ UNCHANGED <<lock, generation, seen, tries, built, stolen>>

GoAhead(l) ==
    /\ ~SupersedeCheck(target[l]) \/ FetchFails
    /\ ShellStep(l, "check", "start")
    /\ UNCHANGED shell

WriteStarted(l) ==
    /\ ShellStep(l, "start", "eval")
    /\ status' = [status EXCEPT ![target[l]] = "started"]
    /\ UNCHANGED <<lock, generation, seen, tries, built, verdict, stolen>>

\* darwin-rebuild evaluates the flake of /etc/blumeops as it is now ...
Evaluate(l) ==
    /\ ShellStep(l, "eval", "activate")
    /\ built' = [built EXCEPT ![l] = tree]
    /\ UNCHANGED <<lock, status, generation, seen, tries, verdict, stolen>>

\* ... and much later activates what it built, ...
Activate(l) ==
    /\ ShellStep(l, "activate", "verdict")
    /\ generation' = built[l]
    /\ verdict' = [verdict EXCEPT ![l] = "ok"]
    /\ UNCHANGED <<lock, status, seen, tries, built, stolen>>

\* ... or ends with another exit code and the generation it found.
SwitchFails(l) ==
    /\ ShellStep(l, "activate", "verdict")
    /\ verdict' = [verdict EXCEPT ![l] = "failed"]
    /\ UNCHANGED <<lock, status, generation, seen, tries, built, stolen>>

\* Variant of WriteVerdict: the exit code of a later command of the line.
WriteVerdictZero(l) ==
    /\ ShellStep(l, "verdict", "exit")
    /\ status' = [status EXCEPT ![target[l]] = "ok"]
    /\ UNCHANGED <<lock, generation, seen, tries, built, verdict, stolen>>

WriteVerdict(l) ==
    /\ ShellStep(l, "verdict", "exit")
    /\ status' = [status EXCEPT ![target[l]] = verdict[l]]
    /\ UNCHANGED <<lock, generation, seen, tries, built, verdict, stolen>>

\* The EXIT trap removes the lock directory, whoever's it is.
ExitTrap(l) ==
    /\ ShellStep(l, "exit", "done")
    /\ lock' = Free
    /\ UNCHANGED <<status, generation, seen, tries, built, verdict, stolen>>

\* Panic or power loss: every process dies, every file stays.
Reboot ==
    /\ faults < MaxFaults
    /\ \E l \in Launches : Alive(l)
    /\ faults' = faults + 1
    /\ pc' = [l \in Launches |->
                IF pc[l] \in Live \union {"checkedout"} THEN "dead" ELSE pc[l]]
    /\ result' = [l \in Launches |->
                    IF pc[l] \in Live \union {"checkedout"} /\ result[l] = "none"
                    THEN "red" ELSE result[l]]
    /\ UNCHANGED <<shell, main, repo, by, target, queue, refused, manual>>

-----------------------------------------------------------------------------
Play(l) ==
    \/ WorkflowCheckout(l)
    \/ \E t \in Target : HumanCheckout(l, t)
    \/ Spawn(l) \/ PlayKilled(l) \/ AwaitVerdict(l) \/ AwaitTimeout(l)

Lock(l) ==
    \/ MakeLock(l) \/ LockTaken(l) \/ ReadHolder(l)
    \/ ProbeStale(l) \/ ProbeWait(l) \/ GiveUp(l) \/ Reclaim(l)

Switch(l) ==
    \/ WritePid(l) \/ Superseded(l) \/ GoAhead(l) \/ WriteStarted(l)
    \/ Evaluate(l) \/ Activate(l) \/ SwitchFails(l) \/ WriteVerdict(l)
    \/ ExitTrap(l)

Shell(l) == Lock(l) \/ Switch(l)

Forge == Merge \/ Refuse \/ \E c \in Commit : Dispatch(c)

Next == Forge \/ Reboot \/ \E l \in Launches : Play(l) \/ Shell(l)

Spec == Init /\ [][Next]_vars

\* The steps of a shell that end by themselves: not the fetch of the supersede
\* check, nor darwin-rebuild, which have no timeout.
Prompt(l) == Lock(l) \/ WritePid(l) \/ WriteStarted(l) \/ WriteVerdict(l) \/ ExitTrap(l)

\* The kernel schedules every live shell, and ansible goes on after a checkout.
Fairness == \A l \in Launches : WF_vars(Prompt(l)) /\ WF_vars(Spawn(l))
FairSpec == Spec /\ Fairness

-----------------------------------------------------------------------------
PlayPc == {"idle", "checkedout", "noop"}

TypeOK ==
    /\ main \in Commit /\ tree \in Commit /\ generation \in Commit
    /\ forked \in BOOLEAN
    /\ queue \in Seq(Commit)
    /\ lock \in Launches \union {Free, NoPid}
    /\ status \in [Target -> Verdicts \union {"none", "started"}]
    /\ pc \in [Launches -> PlayPc \union Live \union Ended]
    /\ by \in [Launches -> {"workflow", "human"}]
    /\ target \in [Launches -> Target]
    /\ seen \in [Launches -> Launches \union {NoPid}]
    /\ tries \in [Launches -> 0..MaxTries]
    /\ built \in [Launches -> Commit]
    /\ verdict \in [Launches -> Verdicts \union {"none"}]
    /\ result \in [Launches -> {"none", "green", "red"}]
    /\ refused \subseteq Commit
    /\ manual \in 0..MaxManual /\ faults \in 0..MaxFaults
    /\ stolen \in BOOLEAN

\* No two shells are between taking the lock and giving it up: "two switches
\* can't race" (auto-apply.md).
MutualExclusion ==
    \A k, l \in Launches : pc[k] \in Critical /\ pc[l] \in Critical => k = l

\* The mkdir lock excludes, through crashes and the locks they leave, until a
\* shell removes as stale the lock of a live one: nothing else lets two run.
LockExcludes == ~stolen => MutualExclusion

\* A run for the push of d: still queued, refused with an alert, or played.
HasRun(d) ==
    \/ Queued(d)
    \/ d \in refused
    \/ \E l \in Launches : pc[l] # "idle" /\ target[l] = d

\* "Skip only when a newer run is coming": a superseded verdict stands only
\* where main has a newer merge that started a run of its own.
SupersededHasNewerRun ==
    \A c \in Commit : status[c] = "superseded" =>
        \E d \in Watched : c < d /\ d <= main /\ HasRun(d)

\* Nothing is queued, being played or switching.
Quiescent ==
    /\ queue = <<>>
    /\ \A l \in Launches : pc[l] # "checkedout" /\ ~Alive(l)

\* Somebody is told about a run of t: a refusal alert, a red run, or a sidecar
\* the watcher does not take as settled.
Loud(t) ==
    \/ t \in refused
    \/ status[t] \in {"failed", "lock-held", "started"}
    \/ \E l \in Launches : target[l] = t /\ result[l] = "red"

\* A crash took a shell of t whose run had reported its launch.
LaunchLost(t) ==
    \E l \in Launches : target[l] = t /\ pc[l] = "dead" /\ result[l] = "green"

\* With pushes only so far, when all is quiet, every merged commit that must
\* reach indri is in the active generation, or somebody was told about its run
\* or a newer one, or a crash took that run's shell; as long as no live shell's
\* lock was removed.
PushesOnly == manual = 0
NothingLostSilently ==
    Quiescent /\ PushesOnly /\ ~stolen => \A c \in Watched : c <= main =>
        \/ c <= generation
        \/ \E t \in {Tip} \union c..main : Loud(t) \/ LaunchLost(t)

\* "so two switches can't race with the older SHA finishing last": no switch
\* replaces a generation by one without a merged change the first has.
NoRegress ==
    [][\A c \in Watched : c <= generation => c <= generation']_generation

\* Pushes alone never regress it as long as no live shell's lock was removed as
\* stale, whatever order the shells take the lock in.
NoRegressUnlessStolen ==
    [][PushesOnly /\ ~stolen =>
          \A c \in Watched : c <= generation => c <= generation']_vars

\* Every shell gets through the lock or gives up on it, though the holder may
\* hang in its fetch or its switch for ever, and every switch that ends has its
\* verdict written and its lock given up, unless a reboot comes first.
MayHang == {"check"} \union Switching
LaunchesEnd == \A l \in Launches : Alive(l) ~> pc[l] \in {"done", "dead"} \union MayHang
-----------------------------------------------------------------------------
(* Inductive invariants behind the safety properties. *)

\* Until one is stolen the lock directory is the critical shell's own.
LockInv ==
    ~stolen =>
        /\ MutualExclusion
        /\ \A l \in Launches : pc[l] = "own" => lock = NoPid
        /\ \A l \in Launches : pc[l] \in Critical \ {"own"} => lock = l

\* Every watched merge has its run, and a supersede looked at such a merge.
RunInv ==
    /\ \A d \in Watched : d <= main => HasRun(d)
    /\ \A c \in Commit : status[c] = "superseded" =>
          \E d \in Touches : c < d /\ d <= main
    /\ \A l \in Launches : pc[l] = "verdict" => verdict[l] # "superseded"

\* With pushes only, the queue, the checkout, what a switch built and the
\* generation are ordered like the merges.
OrderInv ==
    /\ \A i \in DOMAIN queue : tree < queue[i] /\ queue[i] <= main
    /\ \A i, j \in DOMAIN queue : i < j => queue[i] < queue[j]
    /\ tree <= main
    /\ generation <= tree
    /\ \A l \in Launches : pc[l] = "activate" =>
          built[l] <= tree /\ (stolen \/ generation <= built[l])

\* With pushes only every play is of a commit of its own, one the checkout has
\* not had before, and a play that is over reported how it went.
PlaysInv ==
    /\ \A l \in Launches : by[l] = "workflow" /\ pc[l] # "noop"
    /\ \A l \in Launches : pc[l] # "idle" => target[l] \in 0..tree
    /\ \A k, l \in Launches :
          pc[k] # "idle" /\ pc[l] # "idle" /\ target[k] = target[l] => k = l
    /\ \A l \in Launches : pc[l] \notin {"idle", "checkedout"} => result[l] # "none"

\* Then a shell builds what has its own commit, its sidecar holds its verdict,
\* and ok stays true of the generation.
OwnVerdict(l) ==
    /\ pc[l] = "activate" => target[l] <= built[l]
    /\ pc[l] = "verdict" => verdict[l] \in {"ok", "failed"}
    /\ pc[l] \in {"exit", "done"} =>
          verdict[l] \in Verdicts /\ status[target[l]] = verdict[l]
    /\ pc[l] \in {"verdict", "exit", "done"} /\ verdict[l] = "ok" =>
          stolen \/ target[l] <= generation
VerdictInv == \A l \in Launches : OwnVerdict(l)

\* And every watched merge is active, or the run of it or of a newer one is
\* queued, refused or under way, or has ended otherwise than well.
Outstanding(l) ==
    /\ pc[l] # "idle"
    /\ ~(pc[l] = "done" /\ verdict[l] \in {"ok", "superseded"})
InHand(c) ==
    \/ \E i \in DOMAIN queue : c <= queue[i]
    \/ \E d \in refused : c <= d /\ d <= main
    \/ \E l \in Launches : Outstanding(l) /\ target[l] \in c..main
AccountInv ==
    ~stolen => \A c \in Watched : c <= main => c <= generation \/ InHand(c)
=============================================================================
