--------------------------- MODULE StatusWatcher ---------------------------
(***************************************************************************)
(* The watcher of a host's apply sidecars.                                 *)
(*                                                                         *)
(* Applies leave <sha>.status files on the host: removed when an apply of  *)
(* that SHA is started again, "started" while it runs, its verdict last.   *)
(* Every minute a watcher pass looks at each of them and posts an alert    *)
(* for a verdict that is a failure and for a "started" that got stale.     *)
(* What is settled it keeps in a seen file, keyed by name and mtime in     *)
(* seconds, which a pass builds anew and moves into place at its end.      *)
(*                                                                         *)
(* The two watcher scripts differ in paths, wording and the word for a     *)
(* success; the writers are the applies of IndriSwitch and RingtailApply,  *)
(* here any change of a sidecar at any time.                               *)
(***************************************************************************)
EXTENDS Naturals

CONSTANTS
    Files,         \* the sidecars' names
    NoFile,        \* no sidecar is being looked at
    MaxClock,      \* bound on time
    Stale,         \* age at which a "started" sidecar is presumed dead (90 min)
    MaxChanges,    \* bound on the changes of one sidecar
    MaxFaults,     \* bound on watcher crashes and torn writes
    Distinct       \* whether two writes of a sidecar never share a second

ASSUME NoFileAssumption == NoFile \notin Files
ASSUME BoundsAssumption ==
    /\ MaxClock \in Nat \ {0} /\ Stale \in Nat /\ MaxChanges \in Nat /\ MaxFaults \in Nat
    /\ Distinct \in BOOLEAN

VARIABLES
    clock,         \* seconds
    value,         \* what each sidecar says
    mtime,         \* the second of its last write
    version,       \* how often it changed
    seen,          \* the seen file
    tmp,           \* the seen file in the making
    phase,         \* where the watcher is
    todo,          \* sidecars the pass has still to look at
    cur, key, got, gotVersion,  \* the one it looks at: name, key's mtime, contents
    now,           \* the second the pass began
    sent,          \* versions of sidecars an alert went out for
    faults         \* faults so far

sidecars == <<value, mtime, version>>
reading == <<cur, key, got, gotVersion>>
vars == <<clock, sidecars, seen, tmp, phase, todo, reading, now, sent, faults>>

Values == {"none", "started", "silent", "failed", "empty"}
Seconds == 0..MaxClock
Version == 0..MaxChanges

Init ==
    /\ clock = 1
    /\ value = [f \in Files |-> "none"]
    /\ mtime = [f \in Files |-> 0]
    /\ version = [f \in Files |-> 0]
    /\ seen = {} /\ tmp = {}
    /\ phase = "idle"
    /\ todo = {}
    /\ cur = NoFile /\ key = 0 /\ got = "none" /\ gotVersion = 0
    /\ now = 0
    /\ sent = {}
    /\ faults = 0

-----------------------------------------------------------------------------
(* Time, and the applies that write the sidecars. *)

watcher == <<seen, tmp, phase, todo, reading, now, sent>>

Tick ==
    /\ clock < MaxClock
    /\ clock' = clock + 1
    /\ UNCHANGED <<sidecars, watcher, faults>>

Change(f, v) ==
    /\ version[f] < MaxChanges
    /\ value' = [value EXCEPT ![f] = v]
    /\ version' = [version EXCEPT ![f] = @ + 1]
    /\ UNCHANGED <<clock, watcher>>

\* An apply of this SHA is started (again).
Remove(f) ==
    /\ value[f] # "none"
    /\ Change(f, "none")
    /\ UNCHANGED <<mtime, faults>>

\* echo > tmp and mv.  The bound leaves a started sidecar time to get stale.
Write(f, v) ==
    /\ clock + Stale <= MaxClock
    /\ Distinct => clock > mtime[f]
    /\ Change(f, v)
    /\ mtime' = [mtime EXCEPT ![f] = clock]
    /\ UNCHANGED faults

\* Power is lost with the name on disk and the contents not yet.
Tear(f) ==
    /\ value[f] # "none"
    /\ faults < MaxFaults
    /\ faults' = faults + 1
    /\ Change(f, "empty")
    /\ UNCHANGED mtime

-----------------------------------------------------------------------------
(* A pass of the watcher. *)

outside == <<clock, sidecars>>

\* The loop goes on; nothing is carried from one sidecar to the next.
Continue ==
    /\ phase' = "loop"
    /\ cur' = NoFile /\ key' = 0 /\ got' = "none" /\ gotVersion' = 0

\* The pass is over, and all it kept but the seen file.
EndPass ==
    /\ phase' = "idle"
    /\ cur' = NoFile /\ key' = 0 /\ got' = "none" /\ gotVersion' = 0
    /\ tmp' = {} /\ todo' = {} /\ now' = 0

\* Variant of Begin: a glob that matches nothing stays a name.
BeginUnmatched ==
    /\ phase = "idle"
    /\ phase' = "loop"
    /\ now' = clock
    /\ tmp' = {}
    /\ todo' = IF \A f \in Files : value[f] = "none" THEN {NoFile}
               ELSE {f \in Files : value[f] # "none"}
    /\ UNCHANGED <<outside, seen, reading, sent, faults>>

Begin ==
    /\ phase = "idle"
    /\ phase' = "loop"
    /\ now' = clock
    /\ tmp' = {}
    /\ todo' = {f \in Files : value[f] # "none"}
    /\ UNCHANGED <<outside, seen, reading, sent, faults>>

\* [ -e "$f" ] || continue
Exists(f) ==
    /\ phase = "loop" /\ f \in todo
    /\ todo' = todo \ {f}
    /\ IF value[f] = "none" THEN UNCHANGED <<phase, cur>>
       ELSE phase' = "stat" /\ cur' = f
    /\ UNCHANGED <<outside, seen, tmp, key, got, gotVersion, now, sent, faults>>

\* stat fails when the sidecar is gone by now, and set -e ends the pass.
Vanished ==
    /\ phase = "stat"
    /\ value[cur] = "none"
    /\ EndPass
    /\ UNCHANGED <<outside, seen, sent, faults>>

\* Inside $((...)) it is an arithmetic error: sh ends the pass (indri), bash
\* leaves the loop and still moves the seen file, without the rest (ringtail).
VanishedInAge ==
    /\ phase = "age"
    /\ value[cur] = "none"
    /\ EndPass
    /\ seen' \in {seen, tmp}
    /\ UNCHANGED <<outside, sent, faults>>

\* Variant of Stat: the key is the name alone.
StatByName ==
    /\ phase = "stat"
    /\ value[cur] # "none"
    /\ IF \E t \in Seconds : <<cur, t>> \in seen
       THEN Continue /\ tmp' = tmp \union {<<cur, mtime[cur]>>}
       ELSE /\ phase' = "cat" /\ key' = mtime[cur]
            /\ UNCHANGED <<tmp, cur, got, gotVersion>>
    /\ UNCHANGED <<outside, seen, todo, now, sent, faults>>

\* The key is made; a settled one is carried over.
Stat ==
    /\ phase = "stat"
    /\ value[cur] # "none"
    /\ IF <<cur, mtime[cur]>> \in seen
       THEN Continue /\ tmp' = tmp \union {<<cur, mtime[cur]>>}
       ELSE /\ phase' = "cat" /\ key' = mtime[cur]
            /\ UNCHANGED <<tmp, cur, got, gotVersion>>
    /\ UNCHANGED <<outside, seen, todo, now, sent, faults>>

Settle == tmp' = tmp \union {<<cur, key>>}

\* cat, and the case on what it read; a vanished sidecar reads as empty.
Cat ==
    /\ phase = "cat"
    /\ IF value[cur] \in {"started", "failed"}
       THEN /\ phase' = IF value[cur] = "started" THEN "age" ELSE "post"
            /\ got' = value[cur] /\ gotVersion' = version[cur]
            /\ UNCHANGED <<tmp, cur, key>>
       ELSE /\ Continue
            /\ IF value[cur] = "silent" THEN Settle ELSE UNCHANGED tmp
    /\ UNCHANGED <<outside, seen, todo, now, sent, faults>>

\* Variant of Age: a second too early.
AgeEarly ==
    /\ phase = "age"
    /\ value[cur] # "none"
    /\ IF now + 1 < mtime[cur] + Stale THEN Continue
       ELSE phase' = "post" /\ UNCHANGED reading
    /\ UNCHANGED <<outside, seen, tmp, todo, now, sent, faults>>

\* The age of a started sidecar, of an mtime read again.
Age ==
    /\ phase = "age"
    /\ value[cur] # "none"
    /\ IF now < mtime[cur] + Stale THEN Continue
       ELSE phase' = "post" /\ UNCHANGED reading
    /\ UNCHANGED <<outside, seen, tmp, todo, now, sent, faults>>

PostLands ==
    /\ phase = "post"
    /\ Continue
    /\ sent' = sent \union {<<cur, gotVersion>>}
    /\ Settle
    /\ UNCHANGED <<outside, seen, todo, now, faults>>

\* Variant of PostFails: settled whether the post landed or not.
PostFailsSettled ==
    /\ phase = "post"
    /\ Continue
    /\ sent' \in {sent, sent \union {<<cur, gotVersion>>}}
    /\ Settle
    /\ UNCHANGED <<outside, seen, todo, now, faults>>

\* curl fails; after a timeout the alert may be out all the same.
PostFails ==
    /\ phase = "post"
    /\ Continue
    /\ sent' \in {sent, sent \union {<<cur, gotVersion>>}}
    /\ UNCHANGED <<outside, seen, tmp, todo, now, faults>>

\* mv of the new seen file.
Finish ==
    /\ phase = "loop" /\ todo = {}
    /\ EndPass
    /\ seen' = tmp
    /\ UNCHANGED <<outside, sent, faults>>

\* The watcher is killed; nobody reads what it left of tmp.
Crash ==
    /\ phase # "idle"
    /\ faults < MaxFaults
    /\ faults' = faults + 1
    /\ EndPass
    /\ UNCHANGED <<outside, seen, sent>>

-----------------------------------------------------------------------------
Apply(f) ==
    \/ Remove(f) \/ Tear(f)
    \/ \E v \in {"started", "silent", "failed"} : Write(f, v)

Pass ==
    \/ Begin \/ (\E f \in Files : Exists(f)) \/ Vanished \/ Stat \/ Cat \/ Age
    \/ VanishedInAge \/ PostLands \/ PostFails \/ Finish

Next == Tick \/ (\E f \in Files : Apply(f)) \/ Pass \/ Crash

Spec == Init /\ [][Next]_vars

\* Time passes, the timer starts pass after pass, and a post that is tried
\* again and again lands some time.
Fairness == WF_vars(Tick) /\ WF_vars(Pass) /\ \A f \in Files : SF_vars(PostLands /\ cur = f)
FairSpec == Spec /\ Fairness

-----------------------------------------------------------------------------
TypeOK ==
    /\ clock \in Seconds /\ now \in Seconds /\ key \in Seconds
    /\ value \in [Files -> Values]
    /\ mtime \in [Files -> Seconds]
    /\ version \in [Files -> Version]
    /\ seen \subseteq Files \X Seconds /\ tmp \subseteq Files \X Seconds
    /\ phase \in {"idle", "loop", "stat", "cat", "age", "post"}
    /\ todo \subseteq Files
    /\ cur \in Files \union {NoFile}
    /\ phase \in {"stat", "cat", "age", "post"} => cur \in Files
    /\ got \in Values /\ gotVersion \in Version
    /\ sent \subseteq Files \X Version
    /\ faults \in 0..MaxFaults

\* What stands in the seen file as settled is settled: a sidecar whose key is
\* there is silent, or an alert about just this version of it went out.
Alerting(f) == value[f] \in {"started", "failed"}
SettledMeansTold ==
    \A f \in Files :
        <<f, mtime[f]>> \in seen /\ Alerting(f) => <<f, version[f]>> \in sent

\* "An in-flight apply must not alert": the alert of a started sidecar goes
\* out only when it is as old as Stale, unless it changed since it was read.
FreshStaysQuiet ==
    [][\A f \in Files :
          sent' # sent /\ cur = f /\ got = "started" /\ gotVersion = version[f] =>
              mtime[f] + Stale <= clock]_sent

\* A failed verdict, and a started sidecar without one, is told some time,
\* unless the sidecar changes.
EventuallyTold ==
    \A f \in Files, n \in Version :
        Alerting(f) /\ version[f] = n ~> <<f, n>> \in sent \/ version[f] # n

-----------------------------------------------------------------------------
(* Inductive invariants behind SettledMeansTold and FreshStaysQuiet. *)

\* Where writes are a second apart, a key names one version of a sidecar: keys
\* are never newer than the sidecar, and what is read under the current key is
\* the current version.
KeyInv ==
    Distinct =>
        /\ \A k \in seen \union tmp : k[2] <= mtime[k[1]]
        /\ \A f \in Files :
              <<f, mtime[f]>> \in seen \union tmp /\ Alerting(f) => <<f, version[f]>> \in sent
        /\ phase \in {"cat", "age", "post"} => key <= mtime[cur]
        /\ phase \in {"age", "post"} /\ key = mtime[cur] /\ Alerting(cur) =>
              gotVersion = version[cur]

\* What is posted of a started sidecar that has not changed since is stale by
\* the second the pass began.
QuietInv ==
    /\ now <= clock
    /\ phase \in {"age", "post"} => gotVersion <= version[cur]
    /\ phase = "post" /\ got = "started" /\ gotVersion = version[cur] =>
          mtime[cur] + Stale <= now
=============================================================================
