------------------------ MODULE StatusWatcher_proofs ------------------------
(***************************************************************************)
(* Proofs about StatusWatcher, for any sidecars, any staleness and any     *)
(* bounds: type correctness, that what is settled was told, and that what  *)
(* is in flight stays quiet.                                               *)
(***************************************************************************)
EXTENDS StatusWatcher, TLAPS

LEMMA InitTypeOK == Init => TypeOK
  <1>1. 0 \in Seconds /\ 1 \in Seconds /\ 0 \in Version /\ 0 \in 0..MaxFaults
    BY BoundsAssumption DEF Seconds, Version
  <1> QED
    BY <1>1 DEF Init, TypeOK, Values

\* A change of a sidecar, by whoever makes it.
LEMMA ChangeTypeOK ==
    ASSUME TypeOK, NEW f \in Files, NEW v \in Values, Change(f, v),
           mtime' \in [Files -> Seconds], faults' \in 0..MaxFaults
    PROVE  TypeOK'
  <1>1. version[f] + 1 \in Version
    BY BoundsAssumption DEF Change, TypeOK, Version
  <1> QED
    BY <1>1 DEF Change, TypeOK, watcher, reading

LEMMA ApplyTypeOK == ASSUME TypeOK, NEW f \in Files, Apply(f) PROVE TypeOK'
  <1>1. CASE Remove(f)
    <2>1. Change(f, "none") /\ mtime' = mtime /\ faults' = faults
      BY <1>1 DEF Remove
    <2> QED
      BY <2>1, ChangeTypeOK DEF TypeOK, Values
  <1>2. CASE Tear(f)
    <2>1. Change(f, "empty") /\ mtime' = mtime /\ faults' \in 0..MaxFaults
      BY <1>2, BoundsAssumption DEF Tear, TypeOK
    <2> QED
      BY <2>1, ChangeTypeOK DEF TypeOK, Values
  <1>3. ASSUME NEW v \in {"started", "silent", "failed"}, Write(f, v) PROVE TypeOK'
    <2>1. Change(f, v) /\ mtime' = [mtime EXCEPT ![f] = clock] /\ faults' = faults
      BY <1>3 DEF Write
    <2> QED
      BY <2>1, ChangeTypeOK DEF TypeOK, Values
  <1> QED
    BY <1>1, <1>2, <1>3 DEF Apply

LEMMA PassTypeOK == ASSUME TypeOK, Pass PROVE TypeOK'
  <1>0. 0 \in Seconds /\ 0 \in Version
    BY BoundsAssumption DEF Seconds, Version
  <1> USE <1>0 DEF TypeOK, outside, sidecars, reading, Continue, EndPass, Values
  <1>1. CASE Begin
    BY <1>1 DEF Begin
  <1>2. ASSUME NEW f \in Files, Exists(f) PROVE TypeOK'
    BY <1>2 DEF Exists
  <1>3. CASE Vanished \/ VanishedInAge
    BY <1>3 DEF Vanished, VanishedInAge
  <1>4. CASE Stat
    BY <1>4 DEF Stat
  <1>5. CASE Cat
    <2>1. cur \in Files
      BY <1>5 DEF Cat
    <2>2. CASE value[cur] \in {"started", "failed"}
      BY <1>5, <2>1, <2>2 DEF Cat
    <2>3. CASE value[cur] \notin {"started", "failed"}
      <3>1. tmp' \subseteq Files \X Seconds
        BY <1>5, <2>1, <2>3 DEF Cat, Settle
      <3> QED
        BY <1>5, <2>3, <3>1 DEF Cat
    <2> QED
      BY <2>2, <2>3
  <1>6. CASE Age
    BY <1>6 DEF Age
  <1>7. CASE PostLands
    BY <1>7 DEF PostLands, Settle
  <1>8. CASE PostFails
    BY <1>8 DEF PostFails
  <1>9. CASE Finish
    BY <1>9 DEF Finish
  <1> QED
    BY <1>1, <1>2, <1>3, <1>4, <1>5, <1>6, <1>7, <1>8, <1>9 DEF Pass

LEMMA NextTypeOK == TypeOK /\ [Next]_vars => TypeOK'
  <1> SUFFICES ASSUME TypeOK, [Next]_vars PROVE TypeOK'
    OBVIOUS
  <1>1. CASE Tick
    BY <1>1, BoundsAssumption DEF Tick, TypeOK, sidecars, watcher, reading, Seconds
  <1>2. CASE Crash
    BY <1>2, BoundsAssumption DEF Crash, EndPass, TypeOK, outside, sidecars, Seconds, Version, Values
  <1>3. CASE UNCHANGED vars
    BY <1>3 DEF vars, TypeOK, sidecars, reading
  <1> QED
    BY <1>1, <1>2, <1>3, ApplyTypeOK, PassTypeOK DEF Next

\* Every variable keeps its type, whatever is removed, torn or killed.
THEOREM TypeCorrect == Spec => []TypeOK
  BY InitTypeOK, NextTypeOK, PTL DEF Spec

-----------------------------------------------------------------------------
(* What is settled was told. *)

LEMMA InitKeyInv == Init => KeyInv
  BY DEF Init, KeyInv

\* A sidecar's change leaves no key that would settle its new version.
LEMMA ApplyKeyInv ==
    ASSUME TypeOK, KeyInv, Distinct, NEW f \in Files, Apply(f)
    PROVE  KeyInv'
  <1>1. /\ seen' = seen /\ tmp' = tmp /\ sent' = sent /\ phase' = phase
        /\ key' = key /\ cur' = cur /\ gotVersion' = gotVersion
        /\ \A g \in Files \ {f} : /\ value'[g] = value[g] /\ mtime'[g] = mtime[g]
                                  /\ version'[g] = version[g]
    BY DEF Apply, Remove, Tear, Write, Change, watcher, reading, TypeOK
  <1>2. /\ mtime[f] \in Nat /\ mtime'[f] \in Nat
        /\ \/ mtime'[f] = mtime[f] /\ value'[f] \in {"none", "empty"}
           \/ mtime[f] < mtime'[f]
    BY DEF Apply, Remove, Tear, Write, Change, TypeOK, Seconds
  <1>3. \A g \in Files : mtime[g] \in Nat /\ mtime'[g] \in Nat /\ mtime[g] <= mtime'[g]
    BY <1>1, <1>2 DEF TypeOK, Seconds
  <1>4. \A k \in seen \union tmp : k \in Files \X Seconds /\ k[1] \in Files /\ k[2] \in Nat
    BY DEF TypeOK, Seconds
  <1>5. \A k \in seen \union tmp : k[2] <= mtime'[k[1]]
    <2> TAKE k \in seen \union tmp
    <2>1. k[2] <= mtime[k[1]] /\ k[1] \in Files /\ k[2] \in Nat
      BY <1>4 DEF KeyInv
    <2> QED
      BY <1>3, <2>1
  <1>6. ASSUME NEW g \in Files, <<g, mtime'[g]>> \in seen \union tmp, Alerting(g)'
        PROVE  <<g, version'[g]>> \in sent
    <2>1. CASE g # f
      BY <1>1, <1>6, <2>1 DEF KeyInv, Alerting
    <2>2. CASE g = f
      <3>1. mtime'[f] <= mtime[f]
        BY <1>4, <1>6, <2>2 DEF KeyInv
      <3> QED
        BY <1>2, <1>6, <2>2, <3>1 DEF Alerting
    <2> QED
      BY <2>1, <2>2
  <1>7. phase \in {"cat", "age", "post"} => key \in Nat /\ key <= mtime[cur] /\ cur \in Files
    BY DEF KeyInv, TypeOK, Seconds
  <1>8. phase \in {"cat", "age", "post"} => key <= mtime'[cur]
    BY <1>3, <1>7
  <1>9. ASSUME phase \in {"age", "post"}, key = mtime'[cur], Alerting(cur)'
        PROVE  gotVersion = version'[cur]
    <2>1. cur \in Files /\ cur' = cur
      BY <1>1, <1>9 DEF TypeOK
    <2>2. CASE cur # f
      BY <1>1, <1>9, <2>1, <2>2 DEF KeyInv, Alerting
    <2>3. CASE cur = f
      <3>1. mtime'[f] <= mtime[f]
        BY <1>7, <1>9, <2>3
      <3> QED
        BY <1>2, <1>9, <2>1, <2>3, <3>1 DEF Alerting
    <2> QED
      BY <2>2, <2>3
  <1> QED
    BY <1>1, <1>5, <1>6, <1>8, <1>9 DEF KeyInv

LEMMA PassKeyInv == ASSUME TypeOK, KeyInv, Distinct, Pass PROVE KeyInv'
  <1>0. ASSUME UNCHANGED outside PROVE \A f \in Files : Alerting(f)' = Alerting(f)
    BY <1>0 DEF outside, sidecars, Alerting
  <1>1. CASE Begin \/ Vanished \/ VanishedInAge \/ Finish
    <2>1. /\ UNCHANGED outside /\ sent' = sent /\ seen' \union tmp' \subseteq seen \union tmp
          /\ phase' \in {"idle", "loop"}
      BY <1>1 DEF Begin, Vanished, VanishedInAge, Finish, EndPass
    <2> QED
      BY <1>0, <2>1 DEF KeyInv, outside, sidecars
  <1>2. ASSUME NEW f \in Files, Exists(f) PROVE KeyInv'
    BY <1>0, <1>2 DEF Exists, KeyInv, outside, sidecars
  <1>3. CASE Stat
    <2>1. cur \in Files /\ mtime[cur] \in Nat
      BY <1>3 DEF Stat, TypeOK, Seconds
    <2>2. seen' \union tmp' = seen \union tmp
      BY <1>3 DEF Stat
    <2>3. \/ phase' = "loop"
          \/ phase' = "cat" /\ key' = mtime[cur] /\ cur' = cur
      BY <1>3 DEF Stat, Continue
    <2>4. UNCHANGED outside /\ sent' = sent
      BY <1>3 DEF Stat
    <2> QED
      BY <1>0, <2>1, <2>2, <2>3, <2>4 DEF KeyInv, outside, sidecars
  <1>4. CASE Cat
    <2>1. /\ UNCHANGED outside /\ sent' = sent /\ seen' = seen
          /\ cur \in Files /\ key <= mtime[cur]
      BY <1>4 DEF Cat, TypeOK, KeyInv
    <2>2. CASE Alerting(cur)
      <3>1. /\ tmp' = tmp /\ key' = key /\ cur' = cur /\ gotVersion' = version[cur]
        BY <1>4, <2>2 DEF Cat, Alerting
      <3> QED
        BY <1>0, <2>1, <3>1 DEF KeyInv, outside, sidecars
    <2>3. CASE ~Alerting(cur)
      <3>1. phase' = "loop" /\ (tmp' = tmp \/ tmp' = tmp \union {<<cur, key>>})
        BY <1>4, <2>3 DEF Cat, Continue, Settle, Alerting
      <3> QED
        BY <1>0, <2>1, <2>3, <3>1 DEF KeyInv, outside, sidecars
    <2> QED
      BY <2>2, <2>3
  <1>5. CASE Age
    <2>1. /\ UNCHANGED outside /\ sent' = sent /\ seen' = seen /\ tmp' = tmp
          /\ cur \in Files /\ phase = "age"
          /\ \/ phase' = "loop"
             \/ phase' = "post" /\ cur' = cur /\ key' = key /\ gotVersion' = gotVersion
      BY <1>5 DEF Age, Continue, TypeOK, reading
    <2> QED
      BY <1>0, <2>1 DEF KeyInv, outside, sidecars
  <1>6. CASE PostLands
    <2>1. /\ UNCHANGED outside /\ seen' = seen /\ tmp' = tmp \union {<<cur, key>>}
          /\ sent' = sent \union {<<cur, gotVersion>>} /\ phase' = "loop"
      BY <1>6 DEF PostLands, Settle, Continue
    <2>2. /\ cur \in Files /\ key <= mtime[cur]
          /\ key = mtime[cur] /\ Alerting(cur) => gotVersion = version[cur]
      BY <1>6 DEF PostLands, KeyInv, TypeOK
    <2> QED
      BY <1>0, <2>1, <2>2 DEF KeyInv, outside, sidecars
  <1>7. CASE PostFails
    BY <1>0, <1>7 DEF PostFails, Continue, KeyInv, outside, sidecars
  <1> QED
    BY <1>1, <1>2, <1>3, <1>4, <1>5, <1>6, <1>7 DEF Pass

LEMMA NextKeyInv == TypeOK /\ KeyInv /\ [Next]_vars => KeyInv'
  <1> SUFFICES ASSUME TypeOK, KeyInv, [Next]_vars, Distinct PROVE KeyInv'
    BY DEF KeyInv
  <1>1. CASE Tick \/ UNCHANGED vars
    BY <1>1 DEF Tick, vars, KeyInv, Alerting, sidecars, watcher, reading
  <1>2. CASE Crash
    BY <1>2 DEF Crash, EndPass, KeyInv, Alerting, outside, sidecars
  <1> QED
    BY <1>1, <1>2, ApplyKeyInv, PassKeyInv DEF Next

\* No sidecar that should alert is ever taken as settled without an alert for
\* just that version of it, however the writes interleave with a pass and
\* wherever a pass is cut off, provided two writes never share a second.
THEOREM SettledIsTold == ASSUME Distinct PROVE Spec => []SettledMeansTold
  <1>1. KeyInv => SettledMeansTold
    BY DEF KeyInv, SettledMeansTold
  <1> QED
    BY <1>1, InitKeyInv, NextKeyInv, TypeCorrect, PTL DEF Spec

-----------------------------------------------------------------------------
(* What is in flight stays quiet. *)

LEMMA InitQuietInv == Init => QuietInv
  BY DEF Init, QuietInv

\* A change gives the sidecar a version that no pass has read.
LEMMA ApplyQuietInv ==
    ASSUME TypeOK, QuietInv, NEW f \in Files, Apply(f)
    PROVE  QuietInv'
  <1>1. /\ phase' = phase /\ cur' = cur /\ got' = got /\ gotVersion' = gotVersion
        /\ now' = now /\ clock' = clock
        /\ version[f] \in Nat /\ version'[f] = version[f] + 1 /\ gotVersion \in Nat
        /\ \A g \in Files \ {f} : mtime'[g] = mtime[g] /\ version'[g] = version[g]
    BY DEF Apply, Remove, Tear, Write, Change, watcher, reading, TypeOK, Version
  <1>2. phase \in {"age", "post"} => cur \in Files
    BY DEF TypeOK
  <1>3. CASE cur = f
    BY <1>1, <1>3 DEF QuietInv
  <1>4. CASE cur # f
    BY <1>1, <1>2, <1>4 DEF QuietInv
  <1> QED
    BY <1>3, <1>4

LEMMA PassQuietInv == ASSUME TypeOK, QuietInv, Pass PROVE QuietInv'
  <1>0. /\ clock \in Nat /\ now \in Nat /\ Stale \in Nat
        /\ \A f \in Files : mtime[f] \in Nat /\ version[f] \in Nat
    BY BoundsAssumption DEF TypeOK, Seconds, Version
  <1>1. CASE Begin \/ Vanished \/ VanishedInAge \/ Finish
    <2>1. clock' = clock /\ phase' \in {"idle", "loop"} /\ now' \in {clock, 0}
      BY <1>1 DEF Begin, Vanished, VanishedInAge, Finish, EndPass, outside
    <2> QED
      BY <1>0, <2>1 DEF QuietInv
  <1>2. ASSUME NEW f \in Files, Exists(f) PROVE QuietInv'
    BY <1>2 DEF Exists, QuietInv, outside
  <1>3. CASE Stat \/ PostLands \/ PostFails
    <2>1. clock' = clock /\ now' = now /\ phase' \in {"loop", "cat"}
      BY <1>3 DEF Stat, PostLands, PostFails, Continue, outside
    <2> QED
      BY <2>1 DEF QuietInv
  <1>4. CASE Cat
    <2>1. clock' = clock /\ now' = now /\ version' = version /\ cur \in Files
      BY <1>4 DEF Cat, outside, sidecars, TypeOK
    <2>2. \/ phase' = "loop"
          \/ /\ cur' = cur /\ gotVersion' = version[cur]
             /\ phase' = "age" \/ (phase' = "post" /\ got' # "started")
      BY <1>4 DEF Cat, Continue
    <2> QED
      BY <1>0, <2>1, <2>2 DEF QuietInv
  <1>5. CASE Age
    <2>1. /\ clock' = clock /\ now' = now /\ version' = version /\ mtime' = mtime
          /\ cur \in Files /\ phase = "age"
      BY <1>5 DEF Age, outside, sidecars, TypeOK
    <2>2. \/ phase' = "loop"
          \/ /\ phase' = "post" /\ cur' = cur /\ got' = got /\ gotVersion' = gotVersion
             /\ ~(now < mtime[cur] + Stale)
      BY <1>5 DEF Age, Continue, reading
    <2> QED
      BY <1>0, <2>1, <2>2 DEF QuietInv
  <1> QED
    BY <1>1, <1>2, <1>3, <1>4, <1>5 DEF Pass

LEMMA NextQuietInv == TypeOK /\ QuietInv /\ [Next]_vars => QuietInv'
  <1> SUFFICES ASSUME TypeOK, QuietInv, [Next]_vars PROVE QuietInv'
    OBVIOUS
  <1>1. CASE Tick
    BY <1>1 DEF Tick, QuietInv, watcher, reading, sidecars, TypeOK, Seconds
  <1>2. CASE Crash
    BY <1>2 DEF Crash, EndPass, QuietInv, outside, TypeOK, Seconds
  <1>3. CASE UNCHANGED vars
    BY <1>3 DEF vars, QuietInv, sidecars, reading
  <1> QED
    BY <1>1, <1>2, <1>3, ApplyQuietInv, PassQuietInv DEF Next

LEMMA QuietInvariant == Spec => []QuietInv
  BY InitQuietInv, NextQuietInv, TypeCorrect, PTL DEF Spec

\* Only a post sends.
LEMMA StepSends ==
    ASSUME TypeOK, QuietInv, [Next]_vars, sent' # sent,
           NEW f \in Files, cur = f, got = "started", gotVersion = version[f]
    PROVE  mtime[f] + Stale <= clock
  <1>1. phase = "post"
    BY DEF Next, Tick, Apply, Remove, Tear, Write, Change, Pass, Begin, Exists, Vanished,
       VanishedInAge, Stat, Cat, Age, PostLands, PostFails, Finish, Crash, watcher, vars
  <1>2. mtime[f] + Stale <= now /\ now <= clock
    BY <1>1 DEF QuietInv
  <1>3. mtime[f] \in Nat /\ Stale \in Nat /\ now \in Nat /\ clock \in Nat
    BY BoundsAssumption DEF TypeOK, Seconds
  <1> QED
    BY <1>2, <1>3

\* An apply in flight does not alert: a started sidecar that has not changed
\* since it was read is told only when it is as old as Stale, whatever is
\* written between the reads of a pass, which take its key, its contents and
\* its age at three moments, and also where two writes share a second.
THEOREM InFlightIsQuiet == Spec => FreshStaysQuiet
  <1>1. TypeOK /\ QuietInv /\ [Next]_vars =>
          [\A f \in Files :
             sent' # sent /\ cur = f /\ got = "started" /\ gotVersion = version[f] =>
                mtime[f] + Stale <= clock]_sent
    BY StepSends
  <1> QED
    BY <1>1, QuietInvariant, TypeCorrect, PTL DEF Spec, FreshStaysQuiet
=============================================================================
