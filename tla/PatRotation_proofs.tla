------------------------ MODULE PatRotation_proofs ------------------------
(***************************************************************************)
(* What PatRotation promises, for any number of runs and any tokens.       *)
(*                                                                         *)
(* Types and each part of RotationInv get a lemma about one step; the part *)
(* about the consumers rests on where the active run's token is (TokenAt)  *)
(* and on the runs following each other (OneByOne).                        *)
(***************************************************************************)
EXTENDS PatRotation, TLAPS

USE PatAssumption DEF Runs, Incumbent, Own, Token

\* The run's steps keep the types.
LEMMA RunTypes ==
  ASSUME TypeOK, NEW r \in Runs, Run(r)
  PROVE  TypeOK'
<1>1. CASE \E skip \in BOOLEAN : Start(r, skip)
  BY <1>1 DEF TypeOK, Start, Goto, Ends
<1>2. CASE ReadCurrent(r)
  BY <1>2 DEF TypeOK, ReadCurrent, Goto, Ends
<1>3. CASE VerifyCurrent(r) \/ Prove(r)
  BY <1>3 DEF TypeOK, VerifyCurrent, Prove, Goto, Ends, locals
<1>15. CASE ProveFails(r) \/ PostCheck(r)
  <2>1. /\ \E from, to \in {"prove", "cleanup", "revoke", "done"} : Goto(r, from, to)
        /\ UNCHANGED <<live, vault, pod, rolling, locals>>
    BY <1>15 DEF ProveFails, PostCheck
  <2> QED BY <2>1 DEF TypeOK, Goto, Ends, locals
<1>13. CASE Reread(r)
  <2>1. PICK to \in {"failed", "unmint"} : Goto(r, "cleanup", to)
    BY <1>13 DEF Reread
  <2> QED BY <1>13, <2>1 DEF TypeOK, Reread, Goto, Ends, locals
<1>4. CASE ListTokens(r)
  BY <1>4 DEF TypeOK, ListTokens, Goto, Ends
<1>5. CASE Mint(r) \/ MintLost(r)
  BY <1>5 DEF TypeOK, Mint, MintLost, Goto, Ends, locals
<1>6. CASE Write(r)
  <2>1. PICK to \in {"done", "roll"} : pc' = [pc EXCEPT ![r] = to]
    BY <1>6 DEF Write
  <2> QED BY <1>6, <2>1 DEF TypeOK, Write, Ends, locals
<1>14. CASE WriteFails(r)
  BY <1>14 DEF TypeOK, WriteFails, Goto, Ends, locals
<1>7. CASE Unmint(r) \/ CleanupFails(r)
  BY <1>7 DEF TypeOK, Unmint, CleanupFails, Goto, Ends, locals
<1>8. CASE RestartPod(r) \/ RestartFails(r)
  BY <1>8 DEF TypeOK, RestartPod, RestartFails, Goto, Ends, locals
<1>9. CASE RollThrough(r)
  <2>1. Superseded(r) \in SUBSET (Token \ External)
    BY DEF TypeOK, Superseded
  <2> QED BY <1>9, <2>1 DEF TypeOK, RollThrough, Goto, Ends
<1>10. CASE \E t \in Token : Revoke(r, t)
  BY <1>10 DEF TypeOK, Revoke, Ends
<1>11. CASE \E t \in Token : RevokeFails(r, t)
  BY <1>11 DEF TypeOK, RevokeFails, Goto, Ends, locals
<1>12. CASE Dies(r) \/ Killed(r)
  BY <1>12 DEF TypeOK, Dies, Killed, Goto, Ends, locals
<1> QED
  BY <1>1, <1>2, <1>3, <1>4, <1>5, <1>6, <1>7, <1>8, <1>9, <1>10, <1>11, <1>12, <1>13, <1>14, <1>15 DEF Run

LEMMA StepTypes ==
  ASSUME TypeOK, [Next]_vars
  PROVE  TypeOK'
<1>1. CASE UNCHANGED vars
  BY <1>1 DEF TypeOK, vars, locals
<1>2. CASE Boot \/ \E t \in ByHand : MintByHand(t)
  BY <1>2 DEF TypeOK, Boot, MintByHand, locals
<1>3. CASE \E r \in Runs : Run(r)
  BY <1>3, RunTypes
<1> QED BY <1>1, <1>2, <1>3 DEF Next

LEMMA InitTypes == ASSUME Init PROVE TypeOK
BY DEF Init, TypeOK

\* Types, for any runs and any tokens, also when runs overlap.
THEOREM TypeCorrect == Spec => []TypeOK
<1>1. Init => TypeOK
  BY InitTypes
<1>2. TypeOK /\ [Next]_vars => TypeOK'
  BY StepTypes
<1> QED BY <1>1, <1>2, PTL DEF Spec

LEMMA RunKeepsExternal ==
  ASSUME TypeOK, NEW r \in Runs, External \subseteq live, Run(r)
  PROVE  External \subseteq live'
<1>1. CASE live \subseteq live'
  BY <1>1
<1>2. CASE Unmint(r) \/ CleanupFails(r)
  BY <1>2 DEF Unmint, CleanupFails
<1>3. CASE \E t \in Token : Revoke(r, t) \/ RevokeFails(r, t)
  BY <1>3 DEF Revoke, RevokeFails, TypeOK
<1>4. CASE (\E skip \in BOOLEAN : Start(r, skip)) \/ ReadCurrent(r) \/ VerifyCurrent(r) \/ ListTokens(r)
  BY <1>1, <1>4 DEF Start, ReadCurrent, VerifyCurrent, ListTokens
<1>5. CASE Mint(r) \/ MintLost(r) \/ Prove(r) \/ ProveFails(r) \/ Write(r) \/ WriteFails(r)
  BY <1>1, <1>5 DEF Mint, MintLost, Prove, ProveFails, Write, WriteFails
<1>6. CASE Reread(r) \/ RestartPod(r) \/ RestartFails(r) \/ RollThrough(r) \/ PostCheck(r)
  BY <1>1, <1>6 DEF Reread, RestartPod, RestartFails, RollThrough, PostCheck
<1>7. CASE Dies(r) \/ Killed(r)
  BY <1>1, <1>7 DEF Dies, Killed
<1> QED BY <1>2, <1>3, <1>4, <1>5, <1>6, <1>7 DEF Run

\* The tokens that others own (RETAINED_EXTERNAL_TOKENS) are never revoked, also
\* when runs overlap.
THEOREM ExternalKept == Spec => [](External \subseteq live)
<1> DEFINE Inv == TypeOK /\ External \subseteq live
<1>1. Init => Inv
  BY InitTypes DEF Init
<1>2. Inv /\ [Next]_vars => Inv'
  <2> SUFFICES ASSUME Inv, [Next]_vars PROVE External \subseteq live'
    BY StepTypes
  <2>1. CASE UNCHANGED vars
    BY <2>1 DEF vars
  <2>2. CASE Boot \/ \E t \in ByHand : MintByHand(t)
    BY <2>2 DEF Boot, MintByHand
  <2>3. CASE \E r \in Runs : Run(r)
    BY <2>3, RunKeepsExternal
  <2> QED BY <2>1, <2>2, <2>3 DEF Next
<1>3. Inv => External \subseteq live
  OBVIOUS
<1> QED BY <1>1, <1>2, <1>3, PTL DEF Spec

-----------------------------------------------------------------------------

\* Only the run itself moves, and not out of its end nor back to idle, and only
\* with its own option.
LEMMA RunMoves ==
  ASSUME TypeOK, NEW r \in Runs, Run(r)
  PROVE  /\ \A q \in Runs \ {r} : pc'[q] = pc[q] /\ skipRoll'[q] = skipRoll[q]
         /\ ~Over(r) /\ pc'[r] # "idle"
         /\ pc[r] = "idle" /\ Serialised => \A q \in 1..(r - 1) : Over(q)
<1>1. CASE \E skip \in BOOLEAN : Start(r, skip)
  BY <1>1 DEF TypeOK, Start, Goto, locals, Over, Ends
<1>2. CASE VerifyCurrent(r) \/ Prove(r) \/ ProveFails(r) \/ PostCheck(r) \/ Mint(r) \/ MintLost(r)
  BY <1>2 DEF TypeOK, VerifyCurrent, Prove, ProveFails, PostCheck, Mint, MintLost, Goto, locals, Over, Ends
<1>3. CASE ReadCurrent(r) \/ ListTokens(r) \/ WriteFails(r) \/ Unmint(r) \/ CleanupFails(r)
  BY <1>3 DEF TypeOK, ReadCurrent, ListTokens, WriteFails, Unmint, CleanupFails, Goto, locals, Over, Ends
<1>4. CASE RestartPod(r) \/ RestartFails(r) \/ RollThrough(r) \/ Dies(r) \/ Killed(r)
  BY <1>4 DEF TypeOK, RestartPod, RestartFails, RollThrough, Dies, Killed, Goto, locals, Over, Active, Ends
<1>5. CASE \E t \in Token : Revoke(r, t) \/ RevokeFails(r, t)
  BY <1>5 DEF TypeOK, Revoke, RevokeFails, Goto, locals, Over, Ends
<1>6. CASE Write(r)
  <2>1. PICK to \in {"done", "roll"} : pc' = [pc EXCEPT ![r] = to]
    BY <1>6 DEF Write
  <2> QED BY <1>6, <2>1 DEF TypeOK, Write, locals, Over, Ends
<1>7. CASE Reread(r)
  <2>1. PICK to \in {"failed", "unmint"} : Goto(r, "cleanup", to)
    BY <1>7 DEF Reread
  <2> QED BY <1>7, <2>1 DEF TypeOK, Reread, Goto, locals, Over, Ends
<1> QED BY <1>1, <1>2, <1>3, <1>4, <1>5, <1>6, <1>7 DEF Run

\* A run adds no token but its own, puts no other one into the vault and leaves
\* the pod to boot by itself.
LEMMA RunEffect ==
  ASSUME NEW r \in Runs, Run(r)
  PROVE  live' \subseteq live \union {r} /\ vault' \in {vault, r} /\ pod' = pod
<1>1. CASE \E skip \in BOOLEAN : Start(r, skip)
  BY <1>1 DEF Start
<1>2. CASE VerifyCurrent(r) \/ Prove(r) \/ ProveFails(r) \/ PostCheck(r) \/ Mint(r) \/ MintLost(r)
  BY <1>2 DEF VerifyCurrent, Prove, ProveFails, PostCheck, Mint, MintLost
<1>3. CASE ReadCurrent(r) \/ ListTokens(r) \/ Write(r) \/ WriteFails(r) \/ Reread(r) \/ Unmint(r)
  BY <1>3 DEF ReadCurrent, ListTokens, Write, WriteFails, Reread, Unmint
<1>4. CASE RestartPod(r) \/ RestartFails(r) \/ RollThrough(r) \/ Dies(r) \/ Killed(r)
  BY <1>4 DEF RestartPod, RestartFails, RollThrough, Dies, Killed
<1>5. CASE CleanupFails(r) \/ \E t \in Token : Revoke(r, t) \/ RevokeFails(r, t)
  BY <1>5 DEF CleanupFails, Revoke, RevokeFails
<1> QED BY <1>1, <1>2, <1>3, <1>4, <1>5 DEF Run

LEMMA RunOneByOne ==
  ASSUME Serialised, TypeOK, OneByOne, NEW r \in Runs, Run(r)
  PROVE  OneByOne'
<1> SUFFICES ASSUME NEW p \in Runs, NEW q \in Runs, p < q, pc'[q] # "idle"
             PROVE  Over(p)'
  BY DEF OneByOne
<1>1. Over(p) /\ p # r
  <2>1. CASE q = r /\ pc[r] = "idle"
    BY <2>1, RunMoves
  <2>2. CASE q # r \/ pc[r] # "idle"
    BY <2>2, RunMoves DEF OneByOne
  <2> QED BY <2>1, <2>2
<1> QED BY <1>1, RunMoves DEF Over

\* While a run moves the earlier ones are over and the later ones have not begun.
LEMMA Alone ==
  ASSUME Serialised, TypeOK, OneByOne, NEW r \in Runs, Run(r), NEW q \in Runs, q # r
  PROVE  /\ pc'[q] = pc[q]
         /\ q < r => pc[q] \in Ends
         /\ r < q => pc[q] = "idle"
<1>1. OneByOne'
  BY RunOneByOne
<1>2. pc'[q] = pc[q] /\ pc'[r] # "idle" /\ ~Over(r)
  BY RunMoves
<1>3. q < r => pc[q] \in Ends
  BY <1>1, <1>2 DEF OneByOne, Over
<1>4. r < q => pc[q] = "idle"
  BY <1>2 DEF OneByOne
<1> QED BY <1>2, <1>3, <1>4

-----------------------------------------------------------------------------

\* No step of a run revokes a token somebody uses: what it revokes is neither in
\* the vault nor the pod's nor an external one.
LEMMA RunConsumers ==
  ASSUME TypeOK, ConsumersWork, NEW r \in Runs, TokenAt(r), Run(r)
  PROVE  ConsumersWork'
<1>1. CASE live \subseteq live' /\ vault' = vault
  BY <1>1, RunEffect DEF ConsumersWork
<1>2. CASE Write(r) \/ WriteFails(r)
  BY <1>2 DEF Write, WriteFails, Goto, TokenAt, ConsumersWork
<1>3. CASE Unmint(r) \/ CleanupFails(r)
  BY <1>3 DEF Unmint, CleanupFails, Goto, TokenAt, ConsumersWork
<1>4. CASE \E t \in Token : Revoke(r, t) \/ RevokeFails(r, t)
  BY <1>4 DEF Revoke, RevokeFails, Goto, TokenAt, ConsumersWork, TypeOK, locals
<1>5. CASE (\E skip \in BOOLEAN : Start(r, skip)) \/ ReadCurrent(r) \/ VerifyCurrent(r) \/ ListTokens(r)
  BY <1>1, <1>5 DEF Start, ReadCurrent, VerifyCurrent, ListTokens
<1>6. CASE Mint(r) \/ MintLost(r) \/ Prove(r) \/ ProveFails(r) \/ Reread(r) \/ PostCheck(r)
  BY <1>1, <1>6 DEF Mint, MintLost, Prove, ProveFails, Reread, PostCheck
<1>7. CASE RestartPod(r) \/ RestartFails(r) \/ RollThrough(r) \/ Dies(r) \/ Killed(r)
  BY <1>1, <1>7 DEF RestartPod, RestartFails, RollThrough, Dies, Killed
<1> QED BY <1>2, <1>3, <1>4, <1>5, <1>6, <1>7 DEF Run

LEMMA RunUnminted ==
  ASSUME TypeOK, NEW r \in Runs, Unminted(r), Run(r)
  PROVE  Unminted(r)'
<1>1. CASE pc'[r] \notin {"idle", "current", "verify", "list", "mint"}
  BY <1>1 DEF Unminted
<1>2. CASE \E skip \in BOOLEAN : Start(r, skip)
  BY <1>2 DEF TypeOK, Start, Goto, Unminted
<1>3. CASE ReadCurrent(r) \/ VerifyCurrent(r) \/ ListTokens(r)
  BY <1>3 DEF TypeOK, ReadCurrent, VerifyCurrent, ListTokens, Goto, Unminted
<1>4. CASE Mint(r) \/ MintLost(r) \/ Prove(r) \/ ProveFails(r) \/ PostCheck(r)
  BY <1>1, <1>4 DEF TypeOK, Mint, MintLost, Prove, ProveFails, PostCheck, Goto
<1>5. CASE Write(r) \/ WriteFails(r)
  BY <1>1, <1>5 DEF TypeOK, Write, WriteFails, Goto
<1>6. CASE Reread(r)
  BY <1>1, <1>6 DEF TypeOK, Reread, Goto
<1>7. CASE Unmint(r) \/ CleanupFails(r) \/ RestartPod(r) \/ RestartFails(r) \/ RollThrough(r)
  BY <1>1, <1>7 DEF TypeOK, Unmint, CleanupFails, RestartPod, RestartFails, RollThrough, Goto
<1>8. CASE (\E t \in Token : Revoke(r, t) \/ RevokeFails(r, t)) \/ Dies(r) \/ Killed(r)
  BY <1>1, <1>8 DEF TypeOK, Revoke, RevokeFails, Dies, Killed, Goto
<1> QED BY <1>2, <1>3, <1>4, <1>5, <1>6, <1>7, <1>8 DEF Run

LEMMA RunTokenAt ==
  ASSUME TypeOK, NEW r \in Runs, Unminted(r), TokenAt(r), Run(r)
  PROVE  TokenAt(r)'
<1>1. CASE pc'[r] \in {"current", "verify", "list", "mint"} \union Ends
  BY <1>1 DEF TokenAt, Ends
<1>2. CASE (\E skip \in BOOLEAN : Start(r, skip)) \/ ReadCurrent(r) \/ VerifyCurrent(r) \/ ListTokens(r)
  BY <1>1, <1>2 DEF TypeOK, Start, ReadCurrent, VerifyCurrent, ListTokens, Goto
<1>3. CASE Mint(r)
  BY <1>3 DEF TypeOK, Mint, Goto, Unminted, TokenAt
<1>4. CASE MintLost(r) \/ Unmint(r) \/ CleanupFails(r)
  BY <1>1, <1>4 DEF TypeOK, MintLost, Unmint, CleanupFails, Goto, Ends
<1>13. CASE RestartFails(r) \/ PostCheck(r)
  <2>1. \E from \in {"roll", "revoke"}, to \in {"failed", "done"} : Goto(r, from, to)
    BY <1>13 DEF RestartFails, PostCheck
  <2> QED BY <1>1, <2>1 DEF TypeOK, Goto, Ends
<1>5. CASE (\E t \in Token : RevokeFails(r, t)) \/ Dies(r) \/ Killed(r)
  BY <1>1, <1>5 DEF TypeOK, RevokeFails, Dies, Killed, Goto, Ends
<1>6. CASE Prove(r) \/ ProveFails(r)
  BY <1>6 DEF TypeOK, Prove, ProveFails, Goto, TokenAt
<1>7. CASE Write(r)
  BY <1>7 DEF TypeOK, Write, TokenAt
<1>8. CASE WriteFails(r)
  BY <1>8 DEF TypeOK, WriteFails, Goto, TokenAt
<1>9. CASE Reread(r)
  BY <1>9 DEF TypeOK, Reread, Goto, TokenAt
<1>10. CASE RestartPod(r)
  BY <1>10 DEF TypeOK, RestartPod, Goto, TokenAt
<1>11. CASE RollThrough(r)
  <2>1. r \notin Superseded(r)
    BY DEF Superseded
  <2> QED BY <1>11, <2>1 DEF TypeOK, RollThrough, Goto, TokenAt
<1>12. CASE \E t \in Token : Revoke(r, t)
  BY <1>12 DEF TypeOK, Revoke, TokenAt
<1> QED
  BY <1>2, <1>3, <1>4, <1>5, <1>6, <1>7, <1>8, <1>9, <1>10, <1>11, <1>12, <1>13 DEF Run

\* The list is complete when it is taken, only the run's own token comes after it,
\* and what leaves the targets is no longer live.
LEMMA RunKnowsEarlier ==
  ASSUME TypeOK, NEW r \in Runs, KnowsEarlier(r), Run(r)
  PROVE  KnowsEarlier(r)'
<1> SUFFICES ASSUME NEW q \in 0..(r - 1), q \in live'
             PROVE  /\ pc'[r] \in {"mint", "prove", "write", "roll", "status"} => q \in existing'[r]
                    /\ pc'[r] = "revoke" => q \in targets'[r]
                    /\ pc'[r] = "done" => skipRoll'[r]
  BY DEF KnowsEarlier
<1>0. q \in live /\ q # r /\ q \in Token \ External
  BY RunEffect
<1> USE <1>0 DEF TypeOK, Goto
<1>1. CASE pc'[r] \in {"current", "verify", "list", "cleanup", "unmint"} \union (Ends \ {"done"})
  BY <1>1 DEF Ends
<1>2. CASE (\E skip \in BOOLEAN : Start(r, skip)) \/ ReadCurrent(r) \/ VerifyCurrent(r)
  BY <1>1, <1>2 DEF Start, ReadCurrent, VerifyCurrent
<1>3. CASE MintLost(r) \/ ProveFails(r) \/ WriteFails(r) \/ Unmint(r) \/ CleanupFails(r)
  BY <1>1, <1>3 DEF MintLost, ProveFails, WriteFails, Unmint, CleanupFails, Ends
<1>4. CASE RestartFails(r) \/ Dies(r) \/ Killed(r) \/ \E t \in Token : RevokeFails(r, t)
  BY <1>1, <1>4 DEF RestartFails, Dies, Killed, RevokeFails, Ends
<1>5. CASE Reread(r)
  BY <1>1, <1>5 DEF Reread, Ends
<1>6. CASE ListTokens(r)
  BY <1>6 DEF ListTokens
<1>7. CASE Mint(r) \/ Prove(r) \/ RestartPod(r)
  BY <1>7 DEF Mint, Prove, RestartPod, KnowsEarlier, locals
<1>8. CASE Write(r)
  BY <1>8 DEF Write, KnowsEarlier, locals
<1>9. CASE RollThrough(r)
  BY <1>9 DEF RollThrough, Superseded, KnowsEarlier
<1>10. CASE \E t \in Token : Revoke(r, t)
  BY <1>10 DEF Revoke, KnowsEarlier
<1>11. CASE PostCheck(r)
  BY <1>11 DEF PostCheck, KnowsEarlier
<1> QED
  BY <1>2, <1>3, <1>4, <1>5, <1>6, <1>7, <1>8, <1>9, <1>10, <1>11 DEF Run

\* A run that fails with its token live has left it in the vault.
LEMMA RunFailed ==
  ASSUME TypeOK, NEW r \in Runs, Unminted(r), TokenAt(r), Run(r), pc'[r] = "failed", r \in live'
  PROVE  vault' = r
<1> USE DEF TypeOK, Goto
<1>1. CASE Reread(r)
  BY <1>1 DEF Reread
<1>2. CASE Unmint(r)
  BY <1>2 DEF Unmint
<1>3. CASE RestartFails(r) \/ \E t \in Token : RevokeFails(r, t)
  BY <1>3 DEF RestartFails, RevokeFails, TokenAt
<1>4. CASE Dies(r)
  BY <1>4 DEF Dies, Unminted, TokenAt
<1>5. CASE (\E skip \in BOOLEAN : Start(r, skip)) \/ ReadCurrent(r) \/ VerifyCurrent(r) \/ ListTokens(r)
  BY <1>5 DEF Start, ReadCurrent, VerifyCurrent, ListTokens
<1>6. CASE Mint(r) \/ MintLost(r) \/ Prove(r) \/ ProveFails(r) \/ Write(r) \/ WriteFails(r)
  BY <1>6 DEF Mint, MintLost, Prove, ProveFails, Write, WriteFails
<1>7. CASE CleanupFails(r) \/ RestartPod(r) \/ RollThrough(r) \/ PostCheck(r) \/ Killed(r)
  BY <1>7 DEF CleanupFails, RestartPod, RollThrough, PostCheck, Killed
<1>8. CASE \E t \in Token : Revoke(r, t)
  BY <1>8 DEF Revoke
<1> QED BY <1>1, <1>2, <1>3, <1>4, <1>5, <1>6, <1>7, <1>8 DEF Run

-----------------------------------------------------------------------------

\* A run's step keeps what holds of the others: the earlier ones are over, and
\* what it mints and writes is newer than theirs.
LEMMA RunOthers ==
  ASSUME Serialised, RotationInv, NEW r \in Runs, Run(r), NEW q \in Runs, q # r
  PROVE  Unminted(q)' /\ TokenAt(q)' /\ KnowsEarlier(q)'
<1> USE DEF RotationInv
<1>1. pc'[q] = pc[q] /\ (q < r => pc[q] \in Ends) /\ (r < q => pc[q] = "idle")
  BY Alone
<1>2. q < r \/ r < q
  OBVIOUS
<1>3. Unminted(q)'
  BY <1>1, RunEffect DEF Unminted
<1>4. TokenAt(q)'
  BY <1>1, <1>2 DEF TokenAt, Ends
<1>5. KnowsEarlier(q)'
  <2>1. CASE pc[q] # "done"
    BY <1>1, <1>2, <2>1 DEF KnowsEarlier, Ends
  <2>2. CASE pc[q] = "done"
    <3>1. skipRoll'[q] = skipRoll[q]
      BY RunMoves
    <3>2. q < r
      BY <1>1, <1>2, <2>2
    <3>3. (0..(q - 1)) \intersect live' \subseteq live
      BY <3>2, RunEffect
    <3> QED BY <1>1, <2>2, <3>1, <3>3 DEF KnowsEarlier
  <2> QED BY <2>1, <2>2
<1> QED BY <1>3, <1>4, <1>5

LEMMA RunFailedKnown ==
  ASSUME Serialised, RotationInv, NEW r \in Runs, Run(r)
  PROVE  FailedIsKnown'
<1> USE DEF RotationInv
<1> SUFFICES ASSUME NEW q \in Runs, pc'[q] = "failed", q \in live'
             PROVE  vault' >= q
  BY DEF FailedIsKnown
<1>1. CASE q = r
  BY <1>1, RunFailed
<1>2. CASE q # r
  <2>1. pc[q] = "failed" /\ q < r
    <3>1. pc'[q] = pc[q] /\ (r < q => pc[q] = "idle")
      BY <1>2, Alone
    <3> QED BY <1>2, <3>1
  <2>2. q \in live /\ vault' \in {vault, r}
    BY <1>2, RunEffect
  <2>3. vault >= q
    BY <2>1, <2>2 DEF FailedIsKnown
  <2> QED BY <2>1, <2>2, <2>3
<1> QED BY <1>1, <1>2

LEMMA RunInv ==
  ASSUME Serialised, RotationInv, NEW r \in Runs, Run(r)
  PROVE  RotationInv'
<1> USE DEF RotationInv
<1>1. TypeOK' /\ OneByOne' /\ ConsumersWork' /\ FailedIsKnown'
  BY RunTypes, RunOneByOne, RunConsumers, RunFailedKnown
<1>2. ASSUME NEW q \in Runs PROVE Unminted(q)' /\ TokenAt(q)' /\ KnowsEarlier(q)'
  <2>1. CASE q = r
    BY <2>1, RunUnminted, RunTokenAt, RunKnowsEarlier
  <2>2. CASE q # r
    BY <2>2, RunOthers
  <2> QED BY <2>1, <2>2
<1> QED BY <1>1, <1>2

\* The pod takes what is in the vault, whatever the runs are doing.
LEMMA BootInv == ASSUME RotationInv, Boot PROVE RotationInv'
<1> USE DEF RotationInv, Boot, locals
<1>1. TypeOK'
  BY DEF TypeOK
<1>2. OneByOne' /\ FailedIsKnown' /\ ConsumersWork'
  BY DEF OneByOne, Over, FailedIsKnown, ConsumersWork
<1>3. ASSUME NEW r \in Runs PROVE Unminted(r)' /\ TokenAt(r)' /\ KnowsEarlier(r)'
  BY <1>3 DEF Unminted, TokenAt, KnowsEarlier
<1> QED BY <1>1, <1>2, <1>3

LEMMA ByHandInv == ASSUME RotationInv, NEW t \in ByHand, MintByHand(t) PROVE RotationInv'
<1> USE DEF RotationInv, MintByHand, locals
<1>1. TypeOK'
  BY DEF TypeOK
<1>2. t \notin Own
  OBVIOUS
<1>3. OneByOne' /\ FailedIsKnown' /\ ConsumersWork'
  BY <1>2 DEF OneByOne, Over, FailedIsKnown, ConsumersWork
<1>4. ASSUME NEW r \in Runs PROVE Unminted(r)' /\ TokenAt(r)' /\ KnowsEarlier(r)'
  BY <1>2 DEF Unminted, TokenAt, KnowsEarlier
<1> QED BY <1>1, <1>3, <1>4

LEMMA RotationInvariant ==
  ASSUME Serialised
  PROVE  Spec => []RotationInv
<1>1. Init => RotationInv
  <2> SUFFICES ASSUME Init PROVE RotationInv
    OBVIOUS
  <2>1. TypeOK
    BY InitTypes
  <2>2. OneByOne /\ ConsumersWork /\ FailedIsKnown
    BY DEF Init, OneByOne, ConsumersWork, FailedIsKnown
  <2>3. ASSUME NEW r \in Runs PROVE Unminted(r) /\ TokenAt(r) /\ KnowsEarlier(r)
    <3>1. r # 0 /\ r \notin External
      OBVIOUS
    <3>2. pc[r] = "idle" /\ vault # r /\ pod # r /\ r \notin live
      BY <3>1 DEF Init
    <3> QED BY <3>2 DEF Unminted, TokenAt, KnowsEarlier
  <2> QED BY <2>1, <2>2, <2>3 DEF RotationInv
<1>2. RotationInv /\ [Next]_vars => RotationInv'
  <2> SUFFICES ASSUME RotationInv, [Next]_vars PROVE RotationInv'
    OBVIOUS
  <2>1. CASE UNCHANGED vars
    BY <2>1 DEF vars, locals, RotationInv, TypeOK, OneByOne, Over, ConsumersWork, FailedIsKnown,
                Unminted, TokenAt, KnowsEarlier
  <2> QED BY <2>1, RunInv, BootInv, ByHandInv DEF Next
<1> QED BY <1>1, <1>2, PTL DEF Spec

\* While runs wait for each other, whatever fails in them and wherever they are
\* killed, the tokens of the vault, of the pod and of the external consumers work.
THEOREM ConsumersAlwaysWork ==
  ASSUME Serialised
  PROVE  Spec => []ConsumersWork
<1>1. RotationInv => ConsumersWork
  BY DEF RotationInv
<1> QED BY <1>1, RotationInvariant, PTL

\* A run that has revoked its targets has retired every token from before it.
THEOREM EarlierRetired ==
  ASSUME Serialised
  PROVE  Spec => []NextRunCleansUp
<1>1. RotationInv => NextRunCleansUp
  BY DEF RotationInv, NextRunCleansUp, Swept, KnowsEarlier
<1> QED BY <1>1, RotationInvariant, PTL

\* The token of a run that died with its cleanup is revoked or has reached the vault.
THEOREM FailedTokenKnown ==
  ASSUME Serialised
  PROVE  Spec => []FailedIsKnown
<1>1. RotationInv => FailedIsKnown
  BY DEF RotationInv
<1> QED BY <1>1, RotationInvariant, PTL
=============================================================================
