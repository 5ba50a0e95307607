---------------------------- MODULE PatRotation ----------------------------
(***************************************************************************)
(* The rotation of the forge token (PAT) of the bot user talos:            *)
(* mise-tasks/forge-bot-pat-rotate, with the forge, the vault and the      *)
(* talos pod it works on.                                                  *)
(*                                                                         *)
(* Runs are numbered in the order in which they start, and a run's token   *)
(* has the number of the run.  0 is the token from before the rotation,    *)
(* the only one of the rotation's without its prefix.  Every call may      *)
(* fail, also after it took effect, and a run may be killed anywhere.      *)
(***************************************************************************)
EXTENDS Naturals

CONSTANTS
    MaxRuns,     \* bound on runs
    External,    \* tokens of the bot user that others own and use
    ByHand,      \* tokens somebody mints on the bot user
    Serialised   \* whether a run waits for the one before it

Runs == 1..MaxRuns
Incumbent == 0
Own == Runs \union {Incumbent}
Token == Own \union External \union ByHand

ASSUME PatAssumption ==
    /\ MaxRuns \in Nat \ {0}
    /\ External \intersect Own = {} /\ ByHand \intersect Own = {}
    /\ External \intersect ByHand = {}
    /\ Serialised \in BOOLEAN

VARIABLES
    live,      \* the forge's tokens of the bot user
    vault,     \* the token in the vault, which tasks read when they need it
    pod,       \* the token the talos pod read when it booted
    rolling,   \* a restart of the deployment is not through yet
    pc,        \* where each run is, or how it ended
    skipRoll,  \* its option
    current,   \* the vault's token as the run read it
    existing,  \* the tokens it listed before it minted
    targets    \* those it has still to revoke

locals == <<skipRoll, current, existing, targets>>
vars == <<live, vault, pod, rolling, pc, locals>>

\* "failed": the script died and says why.  "warned": its cleanup failed and it
\* asks for a check by hand.  "lost": the mint's answer never came.
Ends == {"done", "failed", "warned", "lost", "killed"}
Over(r) == pc[r] \in Ends
Active(r) == pc[r] # "idle" /\ ~Over(r)

Init ==
    /\ live = External \union {Incumbent}
    /\ vault = Incumbent /\ pod = Incumbent
    /\ rolling = FALSE
    /\ pc = [r \in Runs |-> "idle"]
    /\ skipRoll = [r \in Runs |-> FALSE]
    /\ current = [r \in Runs |-> Incumbent]
    /\ existing = [r \in Runs |-> {}]
    /\ targets = [r \in Runs |-> {}]

Goto(r, from, to) == pc[r] = from /\ pc' = [pc EXCEPT ![r] = to]

\* A workflow run waits for its concurrency group.
Start(r, skip) ==
    /\ Goto(r, "idle", "current")
    /\ \A q \in 1..(r - 1) : IF Serialised THEN Over(q) ELSE pc[q] # "idle"
    /\ skipRoll' = [skipRoll EXCEPT ![r] = skip]
    /\ UNCHANGED <<live, vault, pod, rolling, current, existing, targets>>

ReadCurrent(r) ==
    /\ Goto(r, "current", "verify")
    /\ current' = [current EXCEPT ![r] = vault]
    /\ UNCHANGED <<live, vault, pod, rolling, skipRoll, existing, targets>>

VerifyCurrent(r) ==
    /\ Goto(r, "verify", "list")
    /\ current[r] \in live
    /\ UNCHANGED <<live, vault, pod, rolling, locals>>

\* The guards before the mint: one token at most is neither the rotation's nor
\* retained, and the vault's is listed.
MayMint(r, tokens) ==
    /\ current[r] \in tokens
    /\ \A s, t \in tokens \ (Runs \union External) : s = t

ListTokens(r) ==
    /\ Goto(r, "list", "mint")
    /\ MayMint(r, live)
    /\ existing' = [existing EXCEPT ![r] = live]
    /\ UNCHANGED <<live, vault, pod, rolling, skipRoll, current, targets>>

Mint(r) ==
    /\ Goto(r, "mint", "prove")
    /\ live' = live \union {r}
    /\ UNCHANGED <<vault, pod, rolling, locals>>

\* The request times out, outside of what is guarded by the cleanup.
MintLost(r) ==
    /\ Goto(r, "mint", "lost")
    /\ live' \in {live, live \union {r}}
    /\ UNCHANGED <<vault, pod, rolling, locals>>

\* A read through the new token, and the list once more.
Prove(r) ==
    /\ Goto(r, "prove", "write")
    /\ r \in live
    /\ UNCHANGED <<live, vault, pod, rolling, locals>>

\* Variant of ProveFails: the cleanup does not catch typer.Exit.
ProveFailsUnguarded(r) ==
    /\ Goto(r, "prove", "failed")
    /\ UNCHANGED <<live, vault, pod, rolling, locals>>

ProveFails(r) ==
    /\ Goto(r, "prove", "cleanup")
    /\ UNCHANGED <<live, vault, pod, rolling, locals>>

Write(r) ==
    /\ pc[r] = "write"
    /\ vault' = r
    /\ pc' = [pc EXCEPT ![r] = IF skipRoll[r] THEN "done" ELSE "roll"]
    /\ UNCHANGED <<live, pod, rolling, locals>>

\* What failed may have landed.
WriteFails(r) ==
    /\ Goto(r, "write", "cleanup")
    /\ vault' \in {vault, r}
    /\ UNCHANGED <<live, pod, rolling, locals>>

\* Variant of Reread: the new token is revoked wherever it got to.
RereadNothing(r) ==
    /\ Goto(r, "cleanup", "unmint")
    /\ UNCHANGED <<live, vault, pod, rolling, locals>>

\* The cleanup reads the vault again and dies as it was if the token is there.
Reread(r) ==
    /\ Goto(r, "cleanup", IF vault = r THEN "failed" ELSE "unmint")
    /\ UNCHANGED <<live, vault, pod, rolling, locals>>

Unmint(r) ==
    /\ Goto(r, "unmint", "failed")
    /\ r \in live
    /\ live' = live \ {r}
    /\ UNCHANGED <<vault, pod, rolling, locals>>

CleanupFails(r) ==
    /\ \/ Goto(r, "cleanup", "warned") /\ live' = live
       \/ Goto(r, "unmint", "warned") /\ live' \in {live, live \ {r}}
    /\ UNCHANGED <<vault, pod, rolling, locals>>

RestartPod(r) ==
    /\ Goto(r, "roll", "status")
    /\ rolling' = TRUE
    /\ UNCHANGED <<live, vault, pod, locals>>

RestartFails(r) ==
    /\ Goto(r, "roll", "failed")
    /\ rolling' \in {rolling, TRUE}
    /\ UNCHANGED <<live, vault, pod, locals>>

\* Variant of Superseded: the external tokens too.
SupersededAll(r) == existing[r] \ {r}

\* What a run supersedes.
Superseded(r) == existing[r] \ ({r} \union External)

\* Variant of RollThrough: only the vault's last token is known to be ours.
RollThroughProvable(r) ==
    /\ Goto(r, "status", "revoke")
    /\ ~rolling
    /\ targets' = [targets EXCEPT ![r] = Superseded(r) \intersect {current[r]}]
    /\ UNCHANGED <<live, vault, pod, rolling, skipRoll, current, existing>>

RollThrough(r) ==
    /\ Goto(r, "status", "revoke")
    /\ ~rolling
    /\ targets' = [targets EXCEPT ![r] = Superseded(r)]
    /\ UNCHANGED <<live, vault, pod, rolling, skipRoll, current, existing>>

Revoke(r, t) ==
    /\ pc[r] = "revoke" /\ t \in targets[r]
    /\ t \in live
    /\ live' = live \ {t}
    /\ targets' = [targets EXCEPT ![r] = @ \ {t}]
    /\ UNCHANGED <<vault, pod, rolling, pc, skipRoll, current, existing>>

RevokeFails(r, t) ==
    /\ Goto(r, "revoke", "failed")
    /\ t \in targets[r]
    /\ live' \in {live, live \ {t}}
    /\ UNCHANGED <<vault, pod, rolling, locals>>

\* The new token, the retained ones and no other; the old one does not work.
PostCheck(r) ==
    /\ Goto(r, "revoke", "done")
    /\ targets[r] = {}
    /\ live = {r} \union (External \intersect existing[r])
    /\ current[r] \notin live
    /\ UNCHANGED <<live, vault, pod, rolling, locals>>

\* A guard that does not hold, or a call that fails and changes nothing.
Dies(r) ==
    /\ \E from \in {"current", "verify", "list", "mint", "status", "revoke"} : Goto(r, from, "failed")
    /\ UNCHANGED <<live, vault, pod, rolling, locals>>

Killed(r) ==
    /\ Active(r)
    /\ pc' = [pc EXCEPT ![r] = "killed"]
    /\ UNCHANGED <<live, vault, pod, rolling, locals>>

\* The pod boots, as the deployment was restarted or by itself.
Boot ==
    /\ pod' = vault
    /\ rolling' \in {rolling, FALSE}
    /\ UNCHANGED <<live, vault, pc, locals>>

MintByHand(t) ==
    /\ t \in ByHand \ live
    /\ live' = live \union {t}
    /\ UNCHANGED <<vault, pod, rolling, pc, locals>>

Run(r) ==
    \/ \E skip \in BOOLEAN : Start(r, skip)
    \/ ReadCurrent(r) \/ VerifyCurrent(r) \/ ListTokens(r)
    \/ Mint(r) \/ MintLost(r) \/ Prove(r) \/ ProveFails(r)
    \/ Write(r) \/ WriteFails(r) \/ Reread(r) \/ Unmint(r) \/ CleanupFails(r)
    \/ RestartPod(r) \/ RestartFails(r) \/ RollThrough(r)
    \/ \E t \in Token : Revoke(r, t) \/ RevokeFails(r, t)
    \/ PostCheck(r) \/ Dies(r) \/ Killed(r)

Next == Boot \/ (\E t \in ByHand : MintByHand(t)) \/ \E r \in Runs : Run(r)
Spec == Init /\ [][Next]_vars

-----------------------------------------------------------------------------

TypeOK ==
    /\ live \subseteq Token
    /\ vault \in Own /\ pod \in Own
    /\ rolling \in BOOLEAN
    /\ pc \in [Runs -> {"idle", "current", "verify", "list", "mint", "prove", "write", "cleanup",
                        "unmint", "roll", "status", "revoke"} \union Ends]
    /\ skipRoll \in [Runs -> BOOLEAN]
    /\ current \in [Runs -> Own]
    /\ existing \in [Runs -> SUBSET Token]
    /\ targets \in [Runs -> SUBSET (Token \ External)]

\* "A failure anywhere before the revoke step leaves every consumer working", and
\* so does one after it: at any moment the token in the vault, the pod's and the
\* external ones are live (forge-bot-pat-rotate's order of steps and cleanup).
ConsumersWork == vault \in live /\ pod \in live /\ External \subseteq live

Swept(r) == \/ pc[r] = "revoke" /\ targets[r] = {}
            \/ pc[r] = "done" /\ ~skipRoll[r]

\* A run that has revoked its targets has retired what was there before it: the
\* first token and those of every earlier run, whether skipped, failed, lost or
\* killed ("the next run cleans them up"); and they stay retired.
NextRunCleansUp == \A r \in Runs : Swept(r) => \A q \in 0..(r - 1) : q \notin live

\* A run that died with its cleanup leaves no token that no consumer knows about:
\* its own reached the vault, which has it still or one of a later run.
FailedIsKnown == \A r \in Runs : pc[r] = "failed" /\ r \in live => vault >= r

-----------------------------------------------------------------------------
\* The inductive invariant of PatRotation_proofs.

\* Runs follow each other.
OneByOne == \A q, r \in Runs : q < r /\ pc[r] # "idle" => Over(q)

\* Nobody has the token of a run that has not minted it.
Unminted(r) ==
    pc[r] \in {"idle", "current", "verify", "list", "mint"} =>
        r \notin live /\ vault # r /\ pod # r

\* Where a run's token is, step by step.
TokenAt(r) ==
    /\ pc[r] \in {"prove", "write", "unmint"} => vault # r /\ pod # r
    /\ pc[r] = "write" => r \in live
    /\ pc[r] = "cleanup" => (pod = r => vault = r)
    /\ pc[r] \in {"roll", "status", "revoke"} => vault = r
    /\ pc[r] = "status" => rolling \/ pod = r
    /\ pc[r] = "revoke" => pod = r /\ r \notin targets[r]

\* What a run listed is all that is left of the time before it, and then what it
\* has still to revoke.
KnowsEarlier(r) == \A q \in (0..(r - 1)) \intersect live :
    /\ pc[r] \in {"mint", "prove", "write", "roll", "status"} => q \in existing[r]
    /\ pc[r] = "revoke" => q \in targets[r]
    /\ pc[r] = "done" => skipRoll[r]

RotationInv ==
    /\ TypeOK /\ OneByOne /\ ConsumersWork /\ FailedIsKnown
    /\ \A r \in Runs : Unminted(r) /\ TokenAt(r) /\ KnowsEarlier(r)
=============================================================================
