# blumeops in TLA+

A verification development for the parts of blumeops that act on shared state
while something else acts on it too: the pipelines that apply a merged commit
to the two hosts, the watchers that tell when that went wrong, the loop in
which an agent requests a privileged run and the record of it is audited, the
rotation of the forge bot's token, and the exporter behind the blueprint alert; and for the check that decides which
downloads may take part in a build.  The modules are TLA+, checked by TLC on
small instances; what matters most is proved with TLAPS for every value of the
constants.

Every definition that stands for code is listed in `PROJECT.json` under `map`,
with the lines it translates.  Paths in this file are relative to the root of the repository.

## The system

blumeops configures two hosts (indri, a Mac under nix-darwin; ringtail, NixOS)
and a k3s cluster from one repository.  Forgejo on indri runs the workflows,
*Warrant* (horkos, an external service) keeps the approvals, *heph* the
humans' task list.  Most of the files are declarations which nix, ArgoCD or
ansible interpret.  The repository's own behaviour is in its shell scripts,
playbooks, workflows and some eighty tasks in `mise-tasks/`.

| Component | State it keeps | Operations | Interacts with | What is hard |
|---|---|---|---|---|
| indri apply (`.forgejo/workflows/provision-indri.yaml`, `ansible/playbooks/indri.yml`, `mise-tasks/provision-indri`) | run queue, checkout `/etc/blumeops`, lock directory and its pid file, `<target>.status` sidecars, active generation | push, dispatch, gate, play, detached shell (lock, supersede check, switch, verdict), a human's wait for it | forge (runs, origin/main), the watcher (sidecars) | several detached shells at once; checkout outside the lock; a lock whose making and whose reclaim are several steps; crashes |
| ringtail apply (`.forgejo/workflows/ringtail-rebuild.yaml`, `nixos/ringtail/ringtail-apply.sh`) | run queue, the unit of each SHA, flock, checkout, one transient rebuild unit, sidecars, generation | push, dispatch, start by hand, wrapper, rebuild | forge, systemd, the watcher | the rebuild outlives its wrapper; starts join; older commits after newer ones |
| apply watchers (`darwin/indri/mcquack-indri-rebuild-watcher.sh`, `nixos/ringtail/ringtail-apply-watcher.sh`) | the seen file | a pass every minute | sidecars, forge API (alerts) | three reads of a file that may change; posts whose answer is lost; a pass cut off |
| warrant loop (`mise-tasks/request-run`, `mise-tasks/verify-runs`) | Approve tasks and their stamps in heph, requests in Warrant | file, supersede, close the superseded task, stamp; list, attribute, audit, close | Warrant, forge runs, heph, the policy on main | no transaction over three services; reads that are stale when used |
| FOD evaluation check (`fod-eval-check/`) | contexts and their templates; two worklists; violations | anchor, resolve, make contexts, evaluate sources concurrently, walk, classify each FOD, gather its hooks | nix, flake locks, the closure's derivations | strict comparison except in parameters; hooks planted in a graph with cycles and dead ends; shared contexts; one failing evaluation of several |
| authentik blueprint exporter (`containers/authentik-blueprint-exporter/`) | the last good poll, errors by path with their time | poll page by page, record, serve metrics | authentik's list and hourly tasks, Prometheus, the alert | a list that changes between pages; failing polls; deletion and re-creation; restarts |
| rotation of the forge bot's token (`mise-tasks/forge-bot-pat-rotate`, its workflow) | none of its own: the bot's tokens at the forge, the vault item, the token the talos pod booted with | list, mint, prove, store, clean up, roll, revoke, check | forge, 1Password, the cluster, whoever uses the token | a failure or a kill after every step, with or without effect; what earlier runs left |
| workflow gates and CI checks | none | accept or refuse a tree | every workflow | – |
| auto-apply digest, pending deploys | the time of the last green digest run | list runs, post an issue | forge | a window which moves only on success, over paged lists |
| failure reporting actions | one open issue per subject | create, update, close | forge | found again by a marker |
| ringtail flake update | a branch, an artifact | build, verify, push, open PR | forge | verified artifact against a moving branch |
| other rotations (`zot-apikey-rotate`, `mirror-update-pats`) | tokens at the service, the vault item | mint, store, revoke | vault, service | – |
| forge reconcile, authentik and openrouter reconcile | none (declared files) | diff, apply, prune | forge, authentik, openrouter | live state changing under the plan |
| branch cleanup | none | classify, delete | git, forge | a classification that is stale when used |
| secret seeding and key sync, backups, media tasks | none | copy, dump, rip | external stores | sequences of commands |
| forge host guards, runner cache prune and sweep on indri | seen file; the runner's launchd job | check, alert; drain, prune, restore | launchd, forge | jobs in flight against two deadlines |
| aspects, lints, fly edge, host and cluster configuration, operator tools | none | checks, reports, declarations | – | – |

What makes each modelled component correct:

- an **apply**: two switches of a host do not overlap; a merged change that
  is active is not taken away by an older run that ends late or is started again; a run which
  steps aside as superseded has a newer run behind it; what a run reports is
  its own outcome; a merge that does not reach the host is told to somebody;
  every run ends.
- a **watcher**: nothing is settled that should have been told; an apply in
  flight does not alert; every failure is told some time.
- the **warrant loop**: a task closes on its own request's run, with the
  approved SHA where the workflow read it; a request is only retired for one
  that exists; a request decided meanwhile is not closed as retired; what is
  settled gets closed.
- the **FOD check**: green means that nothing downloaded executes inside a
  FOD, by its builder, its texts or its hooks; genuine fetcher calls are green;
  an entry point's outcome does not depend on what else is checked, and the
  exit code forgets no failure; the check ends.
- the **blueprint exporter**: a failing blueprint is shown as failing and its
  alert is not reset, whatever happens to a poll; one that is gone stops
  alerting.
- the **rotation**: no consumer is left with a revoked token, whatever fails and
  wherever; old tokens do not live on past the next run that goes through; a token
  that nobody has is not left behind.

## Modules

    HostGeneration          abstract: what applying commits promises
      ^ implemented by
    RingtailApply           ringtail's pipeline     MCRingtailApply, RingtailApply_proofs
    IndriSwitch             indri's pipeline        MCIndriSwitch, IndriSwitch_proofs
      | both write the sidecars read by
    StatusWatcher           the two watchers        MCStatusWatcher, StatusWatcher_proofs
    WarrantLoop             request-run and         MCWarrantLoop, WarrantLoop_proofs
                            verify-runs
    FodShapes               shapes of FODs
      ^ extended by
    FodWalk                 the check of a walk     MCFodWalk, FodWalk_proofs
    FodCheck                the check's main()      MCFodCheck, FodCheck_proofs
    BlueprintExporter       poll thread and alert   MCBlueprintExporter,
                                                    BlueprintExporter_proofs
    PatRotation             the bot's token         MCPatRotation, PatRotation_proofs

An `MC` module only adds constants for the instances.  Definitions commented
"Variant of X" are plausible mistakes in X; nothing in the specifications uses
them. They are the mutants of `PROJECT.json`, which show that each property
depends on the code it is about.

Commits are positions in main's history (0 is what the host runs at first).
This is the abstraction behind `DiffersOverDarwin` and `DiffersOverRingtail`:
`git diff --quiet c d -- paths` is non-empty iff a commit in between touches
the paths.  A pair of commits that cancel each other out (a change and its
revert) would make the real diff empty; leaving those out means that
"superseded" and "regressed" are told apart per merge, and loses only the case
in which nothing is at stake for the host's contents.

### IndriSwitch

| Variable | Code |
|---|---|
| `main`, `queue` | origin/main; the workflow's concurrency group, `cancel-in-progress: false` |
| `tree`, `forked` | `/etc/blumeops`, checked out by every play: the last commit of main it contains, and whether it is off main |
| `lock` | `.switch.lock`: `Free`, `NoPid` (the directory without its pid file) or the pid in it |
| `status`, `generation` | `<target>.status`; the active nix-darwin generation |
| `pc`, `seen`, `tries`, `built`, `verdict` | the detached shell: place, `$p`, `$n`, evaluated commit, exit code |
| `by`, `target`, `result` | the play: who runs it, `indri_apply_target`, how it ended |

The shell's one-liner (lines 229–267 of the playbook) is one action per
command that another process can see: `MakeLock`, `LockTaken`, `ReadHolder`,
`ProbeStale`/`ProbeWait`/`GiveUp`, `Reclaim`, `WritePid`, `Superseded`/`GoAhead`,
`WriteStarted`, `Evaluate`, `Activate`/`SwitchFails`, `WriteVerdict`, `ExitTrap`.
`Evaluate` and `Activate` are apart because darwin-rebuild reads the checkout at the
start and activates minutes later.  A workflow's play
is green once it has launched the shell; a human's polls the sidecar
(`AwaitVerdict`, `AwaitTimeout`, at any moment).  `Reboot` kills every process
and keeps every file; `PlayKilled` ends a play between checkout and launch.
Pids are not reused.  `stolen` is history: a shell has removed a lock as stale while a
live shell held one; removing what a crash left does not set it.

Which commits may come: a workflow run takes one of main (its gate refuses others);
`provision-indri` run by a human takes one of main on a detached HEAD, and on a
branch whatever its pushed tip is (`HumanCheckout` with `Branch`, `Checkout`).
Left out: the part of the playbook without the rebuild tag, and the
probe for a launch that failed at once.

### RingtailApply and HostGeneration

`pc[c]` is the unit `ringtail-apply@c`, a unit per commit: starting one that
is active joins it (`StartUnit`). `flock` is the lock, `rebuild` the transient unit
`blumeops-nixos-rebuild` with its one name, `status` the sidecars, `job` the
run whose rebuild job has the runner, `red` the failed runs.  `Launch` only
queues the rebuild, as `systemd-run --no-block` does; `UnitStarts` begins it.
A poll in between reads a unit that is inactive and whose result is success, so the
wrapper may say success of a rebuild that has not begun; `early` is history, the commits
of such verdicts.  The wrapper's
steps are actions; every exit goes through `Exit`, the EXIT trap.  `Interrupt` is a
failed command under `set -e` or a SIGTERM, and leaves the rebuild running;
`JobKilled` is the switch restarting the runner over its own job.  `HasFlock`
is a constant, as the script runs without a lock when flock is missing.

Two sets of commits are apart: `Watched` is what the workflow's push filter
lists, shared inputs included (`ringtail-rebuild.yaml:60-74`), and `Touches`, part of it, is
what the wrapper's supersede diff looks at, `nixos/ringtail/`
(`ringtail-apply.sh:87`).

`HostGeneration` says what this is for: the generation is always a commit
of main and replacing it never takes away a merged change that has to reach
the host.  `RingtailApply` implements it for the changes in `Touches` (`KeepsPromise`, checked and
proved), and not for those that are in `Watched` only (`ringtail_shared`).
IndriSwitch does not: see the findings.

### StatusWatcher

One pass is `Begin` (glob), then per sidecar `Exists`, `Stat` (the key and the
look into the seen file), `Cat` (contents), `Age` (the second stat), and
`PostLands`/`PostFails`, and at its end `Finish` (mv of the new seen file). Sidecars change
between any two of these: removed, rewritten, or torn by a power loss.
`Vanished` at the key's stat ends the pass early, and so does `Crash`. At the second stat the
failed call is inside an arithmetic expansion (line 59 of ringtail's script): `VanishedInAge` may end the
pass or leave the loop only, and then the new seen file is moved in place with what it has.  The writers are the exits of the two
apply modules, over-approximated by any write.  The two scripts differ only in
paths, text and the word for success.

### WarrantLoop

`RequestRun` is `request-run`: `Validate` reads the policy for the input that
carries the SHA, `File`/`FileUnmirrored`, `Supersede…`, `FileTask`, `CloseOld`
and `Stamp` are its calls in their order, each with its failure; `Dies` is the script
killed between two, and the PR comment refused (exit 1, with the request
live and no task). `Sweep` is `verify-runs`: `ListTask`, `FetchRecords`,
`FetchRuns`, `FetchPolicy` in the order of `main()`, with everything else
free to happen in between, then `SweepTask` – attribution, binding audit,
closure.  `Warrant`, the forge and the humans at both are external, and
modelled from what the two scripts expect of them.

`CloseOld` looks for the old task by its title and by its stamp as a substring of the
task's context (`Matches`): `#1` is found in the task of `#12` as well. `Alike` says which
tasks look like whose.  `known` is whether request-run has got its warrant id: a
request whose answer is lost is in Warrant all the same (`FileUnmirrored`), and neither
retired for another nor stamped.

Abstractions: all requests are for one workflow and one PR.  Sweeps carry
nothing from one task to the next, so one sweep looks at one task.  Inference
(`MatchRuns`) may pick any recent run that started after the filing, as the
commit a run lists is main's tip at that time and not the input.  Runs that
were cancelled count as failed. Left out: the report on requests which Warrant files
by itself, the runner preflight and argument checks (they refuse before
anything changes), the declared sentinel, closing a task by hand, and
the limit of 500 records.

### FodShapes and FodWalk

A derivation is a record: `builder`, `args`, `system`, `outputs`, `srcs`,
`inputs`, `attrs`, and a `name` of which it only counts what it claims to be.
An attribute key is a pair of the side it is serialised on and its name, as
`family_of` looks at one side and the comparison at both.  A text is what it
says, who wrote it, and the parameter spliced into it, which is what the rules
for phases and post-fetch texts tell apart.

`FodShapes` is the pure part: `FamilyOf` (the first test that holds),
`Matches` (`_whole_drv_mismatch` with the instance variables of the family, the
phase normalisations, the post-fetch texts that are listed, the sources that
pass as data by the ending of their name, whatever they are (`IsDataSrc`, `DataSuffixes`)), `MatchesExactly` for packages of nixpkgs and fixtures, `Recognised`
(`classify_fod`).  `FodWalk` adds the walk: packages first change derivations
(`SetAttr`, `DropAttr`, `SetBuilder`, `AddSrc`, `AddInput`; external: nix code), then
`Begin`/`Visit`/`UniverseDone` is `hook_universe`, `Classify`/`Descend` is
`effective_hooks`, and `Verdict` what `classify_walk` notes of a FOD.  A worklist
is a set here: the code's are lists fed from Python sets of strings, whose order
changes from run to run.  The properties say the same without worklists:
`Reach` and `RunHooks` are least closed sets. `ExecutedNames` are the attributes a
build executes, for every family: phases, run-hooks and the tools it is built with.
`LeftToPackage(family)` names those of them that the code takes from the package without
comparing them: tools, run-hooks and `checkPhase` of `goModules`, tools of `pnpmDeps`, run-hooks of
`npmDeps` and `cargoDeps`. `GreenMeansKnown` is about what a FOD executes but for these: everything
in `Executed` (builder, arguments, texts), and in `Scripted`, the sources in scope
that are not the package's own and do not pass as data.  The walk's stdenv clause (classify.py:1109–1117) adds nothing to
the seeds, as those inputs are on the list already.

Left out: `args`' text, most of the attribute names (each kind of parameter is
there once or twice), and the wording of a violation.

### FodCheck

The actions are `main()` from the trust anchor to the exit code in their order.
A context is its sources, its anchor errors and its templates, which are
evaluated when its first entry point needs them (`EvaluateSource`, at most `Workers` at
once) and kept only if all went well.  Sources are pins; a FOD is known by the pin
and system of its fetcher.  `Fault` is any call of nix that fails; `TimesOut` is the
one that nobody catches (a traceback: exit 1).

What a lock says is modelled apart from what nix evaluates. `tree.flake`, `tree.lock` and `tree.pin`
are the pins that are evaluated (`locked`); `vouched` are the lock entries whose
`original` says NixOS/nixpkgs, and this is all that `Untrusted`, `AnchorHolds` and `AnchorFails` look
at, as the code does. So `Trusted` means that the originals say so, and no more.
`inputs` is what the flake's lock lists; an unread lock and one that lists nothing are
both `<<>>`, and then ringtail is not anchored (`FlakeUnanchored`).
Two pins are told apart by the start of their hash (`Prefix`, one-to-one in the instance). Templates are
repeats if they agree in name, builder and system: in the instance two of three
pins share a builder (`Shell`), so the second one's templates are dropped (`Kept`), and FODs of that pin
are what `Shadowed` is about.

### BlueprintExporter

`authentik`'s variables are external: files, instances, `ClearFailed` and
`Discover` as its hourly tasks.  The poll thread is `StartPoll`, `FetchPage`, and
one of `RecordPoll`, `SnapshotFails`, `PageMissing`, `CallFails`, `EmptyList`; between any two
the list may change.  `Shown` is what `/metrics` says, `Scrape` and `Firing` are
Prometheus and the alert's expression.  `known` is history: the paths that were in
error at the last good poll that had them.  Time is counted in quarters of an hour,
as ages: the exporter's 2 h are 8, the alert's 75 min are 5, and authentik's hour is 4.

Assumed of authentik: an instance is not deleted in the quarter in which it
was applied or created (`moved`; both tasks are hourly), and creating and applying it
is one step.  An instance that is deleted within a minute of its re-creation would be
missed by the poll.

### PatRotation

The state is the world the script works on: the forge's tokens of the bot user (`live`),
the vault's and the pod's, and whether a restart of the deployment is under way;
each run has a place in the script and what it has read.  A run's token has the
run's number, 0 is the one from before, `External` are
`RETAINED_EXTERNAL_TOKENS`, `ByHand` tokens somebody mints.  There is an action per call of the
script, and one for its failure where that differs from dying on the spot (`Dies`): a
write, restart or revoke that failed may have had its effect, a mint whose answer
was lost too.  `Reread`, `Unmint` and `CleanupFails` are the cleanup.  A run may be `Killed` at any
step, between the steps of its cleanup as well.  The pod boots (`Boot`) when
the deployment is restarted, or by itself at any time.

Assumed: runs wait for each other (`Serialised`), as the workflow's concurrency group
makes them; the deployment has one pod and replaces it by recreating
(`argocd/manifests/talos/deployment.yaml`); the pages of a list are of one moment, and
so are the read through the new token and the list that follows it; a write that
failed has taken effect by the time the vault is read again, or never does; nobody edits
the vault by hand. That the last eight characters tell tokens apart is taken
for granted. A dry run changes nothing and is left out.

## Runs

Passing runs:

| Run | Checks | Instance |
|---|---|---|
| `indri_all` | `TypeOK`, `LockExcludes`, `SupersededHasNewerRun`, `NothingLostSilently`, `NoRegressUnlessStolen`, `LaunchesEnd` | 3 launches: 2 pushes and a run by hand (of any commit of main, the bare play, or a branch), a fault, failing fetches; fairness |
| `ringtail_all` | `TypeOK`, `NothingLostSilently`, `SuccessMeansApplied`, `KeepsPromise`, `RunsEnd` | 3 commits besides the first, of which one changes shared inputs only, a manual start, 2 faults; fairness |
| `watcher_all` | `TypeOK`, `SettledMeansTold`, `FreshStaysQuiet`, `EventuallyTold` | 2 sidecars with 2 changes each, a fault; fairness |
| `warrant_all` | `TypeOK`, `SupersededHasSuccessor`, `ClosedMeansRetired` | 3 requests, any of which may retire another, one with a stamp that is in the other two's, a fault; symmetry of those two |
| `warrant_settled` | `RecordedMeansOwnRun`, `SettledGetsClosed` | 1 request, 2 runs with a window of 1, a rename of the input, a fault; fairness |
| `fodwalk_all` | `TypeOK`, `UniverseIsReach`, `GreenMeansKnown`, `GreenMeansKnownHooks`, `GenuineIsGreen`, `CheckEnds` | a FOD of each family, of a fixture and of no shape, beside templates, hooks and hooks of hooks; up to 2 changes; fairness |
| `fodcheck_all` | `TypeOK`, `GreenMeansChecked`, `OwnOutcome`, `AllTold`, `Ends` | 2 containers and ringtail, 3 inputs of its flake, 3 pins of which 2 share a builder, originals and pins that vary apart, trees up to two steps from a plain one, every selection, 2 workers, 2 faults; fairness |
| `blueprint_all` | `TypeOK`, `QuarterTells`, `CarryEnds`, `NeverReset`, `Stops` | 3 blueprints of which 2 change, pages of 2, 2 edits, 1 outage, 1 restart; fairness |
| `rotation_all` | `TypeOK`, `ConsumersWork`, `NextRunCleansUp`, `FailedIsKnown` | 3 runs, with and without `--skip-roll`, an external token and one minted by hand; any call fails, any run is killed |

Runs that show a disagreement between the code and what the repository says of
it (each is a finding in `PROJECT.json`, with both lines quoted):

| Run | Violated | How |
|---|---|---|
| `indri_regress` | `NoRegress` | Pushes only, no crash. Shell A probes the pid of a holder that has just ended; B takes the lock anew; A removes it as stale and C takes it. Two switches run and the older may finish last. |
| `ringtail_shared` | `NoRegress` | A merge that changes shared inputs only is applied. A start of the commit before it, by hand or as a re-run, finds nothing newer under `nixos/ringtail/`, switches back and reports success. |
| `warrant_guess` | `ClosedMeansOwnRun` | A sweep between the creation of the Approve task and its stamp finds no record and infers a run. No failure needed. |

`warrant_guess` has a bug's smallest form: the window between two
calls of a script whose last one, the append of the stamp, is unchecked as well.

### Bounds

- **Launches, commits.** The mkdir lock's races need a holder that ends, one
  that reclaims, and one that takes the lock in between, hence 3 launches, and
  4 in `indri_regress`, where the old holder is a launch as well. A
  supersede needs two commits. `indri_all` has one run by hand among its three: with
  it behind them the order and the account of pushes are not claimed (below), and before it or
  without it they are.
- **Commits on ringtail.** Of three one changes shared inputs only, between two that touch
  `nixos/ringtail/`: it does not supersede, and is superseded. `ringtail_shared` needs two.
- **MaxTries** is 180 in the code; 2 in `indri_all`, so that a shell waits once and gives up the next time: what can
  happen at a poll does not depend on how many went before. `indri_regress` needs one poll.
- **MaxManual, MaxFaults** are at most 2: a dispatch of an older commit, a start by hand beside
  the run's own of the same unit, a crash during the recovery from another.
- **Stale** is 1 second where the code has 90 minutes: a sidecar is fresh in its own second
  and stale in the next. `MaxClock` is 3, so it can be written in two of the seconds, and one
  written as late as that still gets stale.
- **RunWindow** is 1 where the code has 50: a run has to leave the list.
- **Requests.** Three, so that the task that looks like the retired one's can be that of a third
  request as well as of its successor.
- **Distinct** is TRUE: two writes of a sidecar do not share a second.  The
  seen file's key has seconds, and without this `SettledMeansTold` is false.
- **FetchFails** is TRUE in the passing indri runs, FALSE in the others, which
  do not need it.
- **PolicyFails** is FALSE: an unreadable policy switches the binding audit off, as
  verify-runs says itself, and `RecordedMeansOwnRun` does not hold then.
- **FodWalk.** The graph has a hook behind stdenv, a package's own hook behind that
  package, and inputs that are not listed. One change makes a FOD run the planted hook, or
  makes a hook of the package, and a second one hides it behind the other, closes a
  cycle, or gives the FOD a text of its own; two changes also make a FOD with the marks of two families.
- **FodCheck.** Two containers share a context or do not; ringtail's flake has three
  inputs, so that one can repeat another or fall back to the primary, or none. Two steps from a
  plain tree re-point a pin under an original that says NixOS/nixpkgs, or the other way
  round. Two pins that share a builder lose templates to each other (`Shadowed`); without that exception
  `OwnOutcome` is violated there. With 2
  faults the second may hit the recovery from the first. `Workers` is 2 where the
  code has 4: one that fails while another runs.
- **BlueprintExporter.** `Carry`, `Window` and `Cycle` are the deployment's; a page of 2 for
  3 blueprints makes a second page that appears and disappears, where 500 to a
  page would hide it. One blueprint is never edited: with none left the exporter
  counts polls as failed (see below). Two edits: break, then mend or remove; or
  two that break. A third edit finds nothing new for the invariants (checked once, with the
  strengthenings), and `AlertNotReset` is for any number.
- **PatRotation.** Of three runs the last one meets what two earlier ones left in any combination:
  a token that reached the vault only, the pod as well, or neither. One token minted by hand
  passes for the one predecessor without a prefix, or is one too many beside it.
  `Serialised` is TRUE: with two runs at once `ConsumersWork` is false (see below).
- `CHECK_DEADLOCK FALSE` everywhere: when the bounds are used up and all is
  quiet, the model has nothing left to do, as the system between two merges.

### Fairness

- IndriSwitch: weak fairness of a live shell's prompt steps (`Prompt`: the lock, its own files, the
  exit trap) and of the launch that follows a checkout: the kernel schedules every process.  None for
  its fetch or for darwin-rebuild, which nothing bounds (`indri.yml:257-261`): `LaunchesEnd`
  says that a shell ends or hangs in one of these (`MayHang`), and that the others get past
  a holder that hangs, since they give up.  None for merges, dispatches, humans, or a play that has not begun.
- RingtailApply: weak fairness of each wrapper and of the rebuild (systemd starts
  and runs them, and `TimeoutStartSec` ends a hung one), and of the runner taking and
  ending jobs.
- StatusWatcher: time passes and the timer starts pass after pass (weak); a
  post that is tried again and again for a sidecar lands some time (strong:
  between two tries the pass is elsewhere).
- WarrantLoop: somebody keeps running verify-runs (weak), and each sweep gets
  to every open task (strong fairness of `ListTask(f)`: the code's loop is
  over all of them, the model's sweep over one). None for humans or Warrant.
- FodWalk, FodCheck: weak fairness of the check itself: it is one process, with
  workers whose calls of nix end, as each has a timeout. None for packages.
- BlueprintExporter: weak fairness of the poll thread, of time, of authentik's
  tasks, and of an outage's end. None for edits and restarts.
- PatRotation: none; it has safety properties only, since nothing makes a failed rotation
  run again.

No failure, interrupt or crash is ever required to happen.

## Proofs

TLAPS checks, for every value of the constants that satisfies the named
assumptions:

| Theorem | Says | Rests on |
|---|---|---|
| IndriSwitch `TypeCorrect` | types | – |
| `LockExclusion` | until a live shell's lock is removed as stale, no two shells are critical | `LockInv`: the lock directory is the critical shell's own |
| `SupersedeIsSafe` | a superseded verdict has a newer run behind it | `RunInv`: every watched merge has its run, and a supersede looked at such a merge |
| `PushesKeepOrder` | while there were pushes only (`PushesOnly`), no regress before such a removal | `OrderInv`, `LockInv` |
| `PushesAccounted` | while there were pushes only and before such a removal, a merged change that is not active when all is quiet was told of, or a crash took its shell | `AccountInv`, `VerdictInv`, `PlaysInv` and these |
| RingtailApply `TypeCorrect` | types | – |
| `Exclusion` | with flock, applies do not overlap | `FlockInv` |
| `SuccessIsOwn` | with flock, success means one's own commit is active, or the rebuild was still queued when the wrapper looked | `OwnRebuildInv`, `FlockInv` |
| `NothingLost` | with flock, a merged change under `nixos/ringtail/` that is not active when all is quiet has a failed run, or a verdict that was read too early | `AccountInv`, `SidecarInv`, `CoverInv`, `MergedInv` and these |
| `Implements` | with flock, `RingtailApply` implements `HostGeneration` for the changes in `Touches` | the same |
| StatusWatcher `TypeCorrect` | types | – |
| `SettledIsTold` | with `Distinct`, what is settled was told | `KeyInv` |
| `InFlightIsQuiet` | an apply that is fresh when the pass begins is not told of as stalled | `QuietInv` |
| WarrantLoop `TypeCorrect` | types | – |
| `ClosedIsRetired`, `RetiredHasSuccessor` | request-run closes only the task of a retired request or one that looks like it (`Alike`); a retired request has a successor in Warrant | `FilingInv` |
| `RecordedIsOwn` | with a readable policy (`~PolicyFails`), what is closed on the record is its own run's, or never runs | `RecordInv`, `SweepInv` |
| FodWalk `TypeCorrect` | types | – |
| `UniverseCorrect`, `HooksCorrect` | for any graph, the worklists end with exactly the hooks in reach, and those that run | `UniverseInv`, `HooksInv` |
| `GreenHooks` | for any walk, green means no FOD runs a hook from elsewhere | these and `VerdictInv` |
| `GreenShapes` | for any walk and templates, green means each FOD executes only what its template does, but for what is left to the package by name (`LeftToPackage`) | `VerdictInv`, `TextsInv` |
| `GenuineGreen` | for any walk and templates, genuine fetchers that run known hooks give no violation | `ExactInv`, `TextsInv`, `UniverseInv`, `FamiliesAssumption` |
| FodCheck `TypeCorrect` | types | – |
| `EverythingTold` | everything asked for is told of | `ToldInv`, `FreshInv` |
| `GreenIsChecked` | where the starts of hashes tell pins apart (`PrefixesDiffer`), exit 0 means all was matched against templates of its own sources, whose lock entries say NixOS/nixpkgs | `ContextsInv`, `EntriesInv`, `GateInv` |
| `OutcomeIsOwn` | under the same assumption, an outcome does not depend on what else is checked; red without a fault of its own are only FODs of a source that shares its builder | the same |
| BlueprintExporter `TypeCorrect`, `ErrorsKnown` | types; errors of listed paths are the last good poll's | – |
| `QuartersTell` | when a quarter ends with the exporter up, it shows who fails and who does not | `PollInv` |
| `CarryEndsAlways` | where a blueprint stays (`Paths \ Edited # {}`), one that has been gone for the carry is not shown in error when a quarter ends with the exporter up | `SilenceInv`, `PollInv` |
| `StopsInTimeAlways` | where a blueprint stays, one that is gone alerts for at most carry and window, unless polls fail | `SilenceInv`, `PollInv` |
| `AlertNotReset` | where a blueprint stays, `Cycle < Window` and `Cycle + 1 < Carry`, the alert of a blueprint that keeps failing is not reset | `AlertInv`, `CarryInv`, `ShownInv` and these |
| PatRotation `TypeCorrect` | types, also when runs overlap | – |
| `ExternalKept` | the retained tokens of others are never revoked, also when runs overlap | – |
| `ConsumersAlwaysWork` | where runs wait for each other (`Serialised`), the vault's, the pod's and the external tokens are always live | `TokenAt`, `OneByOne`, `Unminted` |
| `EarlierRetired` | under the same assumption, a run that has revoked its targets has retired every earlier token | `KnowsEarlier`, `OneByOne` |
| `FailedTokenKnown` | under the same assumption, the token of a run that died with its cleanup is revoked or has reached the vault | `TokenAt`, `Unminted`, `OneByOne` |

Why strengthenings are needed:

- `LockExcludes` alone is not inductive: nothing in it says that a shell in
  the critical section *has* the lock, so an `ExitTrap` of another could free
  it. `LockInv` says whose the directory is at each place, including the moment
  between mkdir and the pid file.
- `SupersededHasNewerRun` speaks of sidecars; that the newer merge has a run
  comes from the forge's queue, which `RunInv` follows from push to play.
- `NoRegressUnlessStolen` holds although the shells take the lock in any
  order and build what they find. The reason is that the queue is in merge
  order, each play moves the one checkout forward, and a switch under the lock
  activates a tree that is at least the last one: `OrderInv`.  The shared checkout,
  which breaks "each run applies its own SHA", is what keeps the order.
- On ringtail a wrapper may die over a live rebuild and the next moves the
  checkout under it.  `OwnRebuildInv` shows that a wrapper which polls has
  launched its own rebuild, since the launch fails while the unit is active;
  `CoverInv` that what is checked out covers what is being built, and that
  what is active, since each wrapper has looked for newer merges under the lock.
- A watcher's key, contents and age are of three moments. `KeyInv` says that what
  was read while the key is current is the current version, and that a key is
  never newer than its sidecar; `QuietInv` that a started sidecar which is about to be told
  of, and is still the one that was read, was stale when the pass began.
- `NothingLostSilently` speaks of quiet states, in which everything is over. `AccountInv` says
  of every state who has a merged change in hand: the queue, a job, a wrapper or a
  shell under way, a failed run. For ringtail `SidecarInv` adds that what a sidecar says
  stays true, unless it was written before the rebuild began (`early`), as a job that joins a unit or finds it over relies on it. For indri
  `PlaysInv` says that with pushes only each play has a commit of its own, and `VerdictInv`
  that a shell which says ok has put its own commit in.  A run by hand breaks `PlaysInv`, so after
  one the property is neither proved nor checked.
- A sweep's four reads are of four moments, and its closure of a fifth. `SweepInv`
  says what of them still holds then: a run in the book is the request's own and
  for good, the window is no newer than the runs, the policy was read after the runs, so that a
  rename in between is seen. `RecordInv` ties a request's run to the one that was dispatched
  for it, `FilingInv` a retirement to the script that is still between its calls.
- `UniverseIsReach` speaks of the empty worklist; `UniverseInv` of every state of it:
  what was taken off is followed, what is on it is in reach. `Reach` is the
  least closed set, so a set the worklist has closed contains it. `HooksInv` is the same for a FOD's
  hooks, `VerdictInv` says that a FOD off the list with no violation ran known hooks and has
  the shape of a template. That the shape implies what is executed is proved for any
  templates; all it needs of the instance is that attributes are texts (`TextsAssumption`).
- `GenuineIsGreen` is the other direction: `ExactInv` says that each violation has its ground,
  a shape that is not recognised or a hook from outside, and that FODs are judged. What remains is about shapes:
  an instance is told by the very test that tells its template, through thirteen tests of which any earlier
  one could take it. For that the templates must be told by their own family's test, `fetchgit`'s
  switches stand beside a `rev`, and the builders whose tools are parameters have no `url`
  (`FamiliesAssumption`; "each family is recognised by its distinguishing key set",
  fod-eval-check/README.md:112): a Go package's own `nativeBuildInputs` may name
  mercurial, and with a `url` it would be taken for `fetchhg`. And an instance does not bring a list of `urls` that its template does
  not have: `urls` is a parameter of `fetchhg` and others in the code, but a FOD that has it in its structured attributes is read as `fetchurl`'s.
- FodCheck's entry points share contexts by key. `ContextsInv` says that a context under an
  entry point's key has that entry point's own sources, or an anchor error that will be
  told; `EntriesInv` whose the entries are, `ToldInv` that nobody asked for is forgotten between
  selection and exit.  The keys are 8 characters of a hash: that these tell pins apart (`PrefixesDiffer`) is what the
  code takes for granted, and the theorems say so.  The templates of two
  sources are one if they agree in name, builder and system, which two pins of one stdenv do. No
  theorem assumes that away: a dropped template makes nothing green, and what it
  makes red is named (`Shadowed`).
- The pages of one poll may be of several lists. `PollInv` says what they are put together to
  when nothing changed since the poll began, and such a poll is always the last of a
  quarter; `SilenceInv` lets the age of a carried error, and of what the alert
  looks back at, grow with the time the blueprint has been gone.
- `NeverReset` is about the end of a quarter, when the alert's window moves on. While polls
  succeed a failing instance has just been shown, and one that was deleted was shown until then
  and is back within the cycle: `AlertInv`.  While they fail, the exporter shows what it
  knew, if the carry had not run out before: `CarryInv` bounds the age of a known error by what its
  instance has gone through since (`Oldest`).  After that the first good poll may drop it, but then
  it was shown until that poll, and the alert outlasts the rest of the cycle.
- `ConsumersWork` says nothing of what a run is about to revoke. `TokenAt` does: at each step it says
  whether the run's token may be in the vault or the pod, so that what the cleanup
  revokes is in neither (after a failed write the pod can only have it if the vault
  does), and what the last step revokes is not the new one, which both have by then. `OneByOne`
  keeps other runs from moving the vault in between. `NextRunCleansUp` compares a run with all earlier
  ones: `KnowsEarlier` carries what was live from the list to the revoke, over the
  run's own mint, and says that a list which was complete once stays so, as only newer tokens come.

`KeepsPromise` is a refinement: `HostGeneration` is instantiated with
ringtail's `main`, `generation` and `Touches`, and `Implements` shows that initial
states map to initial states and each step to a step or a stutter.

Only model-checked: liveness (`LaunchesEnd`, `RunsEnd`, `EventuallyTold`,
`SettledGetsClosed`, `CheckEnds`, `Ends`, `Stops`), which is out of the prover's
reach.  Every safety and action property of the passing runs has a theorem. Those with a
hypothesis on the constants (above) are not claimed beyond it. Some theorems state more than a
run checks: `Exclusion`, `StopsInTimeAlways`, and `ExternalKept`,
which needs no hypothesis; and `HooksCorrect` and `ErrorsKnown`, which the others rest on.

## Seen while modelling

Behaviour of the code that no run is about, noted for its owners:

- indri: a reboot after the launch and before the first sidecar is written
  loses the apply with a green run behind it and no alert (`LaunchLost`, an
  exception of `NothingLostSilently` for that commit and older ones).
- indri: a dispatch of the commit that is already checked out launches
  nothing and is green, also after a play that was killed before its launch.
- indri: a run switches to what the shared checkout holds when its shell gets the
  lock, not to its own SHA ("Each run applies its own SHA",
  `docs/explanation/auto-apply.md:251`).
- indri: an earlier shell of the same target, still waiting or switching, writes its
  verdict after the play has removed the leftover sidecar (`indri.yml:223`), and
  the waiting play takes it for its own.
- indri: a crash between mkdir and the pid file leaves a lock directory that the stale
  test can never reclaim ("reclaimed as stale once its pid dies", `indri.yml:226`);
  every later launch ends lock-held until somebody removes it.
- indri: the supersede diff is over `darwin/indri/`, narrower than the
  push filter, as on ringtail (`ringtail_shared`); the order there comes from the shared checkout.
- indri: a dispatch of an older commit moves the checkout under the waiting
  switch of a newer push, which then activates the older commit.
- ringtail: between `systemd-run --no-block` (`ringtail-apply.sh:104`) and the start of the
  unit, a poll reads `ActiveState` inactive, and then `Result` success, of a rebuild that has not begun
  (lines 121–135): the wrapper writes success, also if the rebuild fails afterwards. The
  properties except such a verdict by name (`early`).
- ringtail: without flock a wrapper started by hand overlaps another.
- watchers: two writes of a sidecar in one second share a key; a torn (empty)
  sidecar is never told; a failed verdict that a re-run removes before a pass has
  seen it is never told.
- request-run: the superseded request's task is looked for by its title and by a substring of its
  context, so `#1` is found in the task of `#12` if both are for the same action and commit. When the task of
  `#1` is closed already, the task of `#12` is the one match and is closed, though `#12` is not
  retired; the docstring says "Anything other than exactly one match prints what to close by hand
  rather than guessing" (`request-run:742–748`). `ClosedMeansRetired` says what is true of the code: the closed task
  looks like a retired request's.
- request-run: a request whose answer from Warrant is lost is live there without anybody having its id;
  its task gets no stamp.
- verify-runs: a stamped request older than the newest 500 is attributed as if it had no
  record.
- FOD check: a lock entry is authenticated by its `original` (`check.py:93–114`, `996`, `1012`), and nix evaluates
  its `locked`. A `locked` that was re-pointed under an `original` of NixOS/nixpkgs passes, where the docstring says
  "authenticated by its locked identity" (`check.py:13–18`); a test holds the original to be what counts
  (`test_check.py:244`). `Trusted` says no more than the code looks at.
- FOD check: if ringtail's flake.lock cannot be read, or lists no inputs, there is no anchor violation
  and ringtail's own packages are the templates, whatever they come from (`check.py:990–994`; "A source
  that is used but cannot be authenticated is a red entry point", lines 17–18).
- FOD check: `fod-eval-check/README.md` says in its text that `nativeBuildInputs` and `checkPhase` are compared
  strictly (lines 169–172, 249–252). Its table has nativeBuildInputs of goModules and
  pnpmDeps among the instance variables (lines 182–196), as the code does, and the code has goModules'
  `checkPhase` there as well (classify.py:432). With the run-hooks that goModules, npmDeps and cargoDeps forward
  ("instance variables" in the text too, line 254) these are package-written, and the build may run them, where
  line 3 says that nothing downloaded executes. `LeftToPackage` is the list.
- FOD check: a file passes as data by the ending of its name, whatever is in it (classify.py:230–236).
- FOD check: a comment says that fetchurl and fetchpatch share both template shapes (classify.py:1234); a
  FOD that looks like fetchpatch is not compared with fetchurl's.
- FOD check: a call that takes longer than half an hour, or prints no JSON,
  ends the run with a traceback; the rest of the entry points are not told of.
- FOD check: templates of two sources with the same name, builder and system count as
  one (check.py:603), which drops a different template of the second: its genuine FODs are red (`Shadowed`).
  Contexts are known by 8 characters of a hash.
- exporter: a restart together with failing polls resets an alert, and so do two
  times of failing polls that fall on two re-creations; and the alert that is left over from an earlier
  failure, mended since, lapses for a new one that begins while polls fail. `NeverReset` allows
  these: the first is in the instance, the second takes two outages and the last three edits.
- exporter: an instance that comes and another that goes between two pages leave the count right,
  so the poll counts as good with one missing; the next poll repairs it.
- exporter: when the last instance is gone, the list is empty, every poll counts as failed,
  and a carried error stays.
- rotation: a run by hand on gilbert is outside of the concurrency group. Overlapping another
  run it can revoke the token in use: the first one's write fails but lands and the pod
  boots with it, the second one writes its own token, and the first one's cleanup finds that
  the vault does not have its token and revokes it under the pod (`Serialised = FALSE`,
  two runs).
- rotation: the mint is outside of the guarded block (`forge-bot-pat-rotate:437`): a mint
  whose answer is lost leaves a token that no cleanup looks for. As it has the prefix
  the next run that revokes retires it (`NextRunCleansUp`).
- rotation: when the proof of the new token or its vault write fails, the cleanup makes one attempt. If
  its read of the vault or its revoke fails too it prints a warning, and the token stays
  live with nobody knowing it until the next run that revokes ("a live PAT that no consumer
  knows about is never left behind", `rotate-talos-forgejo-pat.md:141`): the run ends `"warned"`, of which
  `FailedIsKnown` claims nothing.
- exporter: a path whose file is removed stays in error for two hours (`CarryEnds`), and only then do the
  alert's 75 minutes start to run out, so it may take 3 h 15 min until the alert
  resolves (`StopsInTimeAlways`), where the runbook says "up to ~2h15m" (`runbook-authentik-blueprint.md:45`) and
  the rule's comment that the window bridges the cycle "without stacking on the exporter's own 2h error-carry"
  (`alerting.yaml:1792–1793`).
- exporter: its comment says that two hours match the alert's window (exporter.py:55), which is 75
  minutes.

## What is left

The order in which the modules above were written is that of what is at stake:
the hosts first, then who is told, then who may run what, then what may take
part in a build and what an alert says. What a next step would take up, in this order:

1. `NothingLostSilently` of indri after a run by hand: what becomes of a commit when an older one
   is dispatched is not what the property says now (see above), so it has to be
   stated per run first.
2. The runner's drain and restore (`mcquack-runner-cache-prune.sh`).
3. The digest's window over paged run lists; the mirror guard as an instance of
   the watchers' scheme.
4. The flake update's posting job; branch cleanup and forge reconcile as plan
   and apply over state that moves.

Left out for good: gates, lints and aspects other than the FOD check (pure functions of a tree; their
outcome is the `Refuse` action), backups, media and seeding tasks (sequences of
commands around other tools), declarations of hosts and cluster, the fly edge, and
read-only operator tools.

## Running it

    tlc -workers 2 -config IndriSwitch_all.cfg MCIndriSwitch
    tlapm IndriSwitch_proofs.tla

and likewise for the other configurations and `_proofs` modules.
