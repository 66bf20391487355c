------------------------------ MODULE FilesProofs ------------------------------
(***************************************************************************)
(* Proofs about files that are read while somebody else may write them:    *)
(* the data directory that a fork copies (Fork), for any number of calls,  *)
(* of starts and stops of the source and of versions of its data; and the  *)
(* two halves of a certificate (Certs), for any hosts, any lanes and any   *)
(* number of writes.                                                       *)
(***************************************************************************)
EXTENDS Fork, Certs, TLAPS

-------------------------------------------------------------------------------
\* The fork of a postgres.


Walks == {"walk", "walking", "recheck"}
Empty == {"judge", "walk", "wake", "live", "stream"}
Made == {"run", "ready", "run2", "ready2", "done"}
PCs == {"idle", "failed", "clear", "clear2"} \cup Walks \cup Empty \cup Made

\* The source has not run since its fingerprint was taken.
Quiet == before[1] = "gone" \/ runs = before[2]

\* A fingerprint of a source at rest; as long as nobody has started it, it still is.
Judged ==
    pc \in Walks =>
        /\ before[1] \in {"exited", "gone"}
        /\ before[1] = "gone" => status = "gone"
        /\ before[1] = "exited" =>
              runs >= before[2] /\ (runs = before[2] => status \in {"exited", "gone"})

\* A version the source had at some moment of this call.
Timely(v) == v \in Version /\ low <= v /\ v <= version

\* The bytes at the destination, step by step: they are what the source held unless it ran.
Copied ==
    /\ pc \in Empty => dst = Absent
    /\ pc = "walking" => dst = Partial /\ Timely(from) /\ (Quiet => version = from)
    /\ pc = "recheck" => Timely(dst) \/ (dst = Torn /\ ~Quiet)
    /\ pc \in Made => Timely(dst)

ForkInv == ForkTypeOK /\ pc \in PCs /\ low <= version /\ Judged /\ Copied
-------------------------------------------------------------------------------
LEMMA ForkInitInv == ForkInit => ForkInv
<1> SUFFICES ASSUME ForkInit PROVE ForkInv
    OBVIOUS
<1>1. 1 \in Version /\ {MaxVersion, MaxRuns, MaxCalls} \subseteq Nat
      BY ForkAssumption DEF Version
<1>2. status \in Status /\ runs \in 0..MaxRuns /\ version \in Version
      BY <1>1 DEF ForkInit, Status
<1>3. damaged \in BOOLEAN /\ retry \in BOOLEAN
      BY DEF ForkInit
<1>4. before \in Status \X (0..MaxRuns) /\ {from, low} \subseteq Version
      BY <1>1 DEF ForkInit, Status
<1>5. dst \in Bytes /\ dstUp \in {"none", "down", "up"} /\ calls \in 0..MaxCalls
      BY <1>1 DEF ForkInit, Bytes
<1>6. ForkTypeOK
      BY <1>2, <1>3, <1>4, <1>5 DEF ForkTypeOK
<1>7. pc \in PCs /\ low <= version /\ Judged /\ Copied
      BY DEF ForkInit, PCs, Walks, Empty, Made, Judged, Copied
<1> QED BY <1>6, <1>7 DEF ForkInv

LEMMA ForkStepInv == ForkInv /\ [ForkNext]_forkVars => ForkInv'
<1> SUFFICES ASSUME ForkInv, [ForkNext]_forkVars PROVE ForkInv'
    OBVIOUS
<1> USE ForkAssumption DEF ForkInv, PCs, Walks, Empty, Made, source, locals, history
<1>1. CASE Call
  <2>1. ForkTypeOK' /\ (pc \in PCs)' /\ (low <= version)'
    <3>1. calls' \in 0..MaxCalls
          BY <1>1 DEF Call, ForkTypeOK
    <3>2. low' \in Version /\ from' \in Version /\ (low <= version)'
          BY <1>1 DEF Call, ForkTypeOK, Version
    <3>3. retry' \in BOOLEAN /\ damaged' \in BOOLEAN /\ (pc \in PCs)'
          BY <1>1 DEF Call, Goto, ForkTypeOK
    <3>4. UNCHANGED <<status, runs, version, before, dst, dstUp>>
          BY <1>1 DEF Call
    <3> QED BY <3>1, <3>2, <3>3, <3>4 DEF ForkTypeOK
  <2>2. Judged'
        BY <1>1 DEF Call, Goto, ForkTypeOK, Judged, Status
  <2>3. Copied'
        BY <1>1 DEF Call, Goto, ForkTypeOK, Judged, Copied, Quiet, Timely, Version, Bytes, Absent, Partial, Torn
  <2> QED BY <2>1, <2>2, <2>3
<1>2. CASE ClearOrphan
  <2>1. ForkTypeOK' /\ (pc \in PCs)' /\ (low <= version)'
        BY <1>2 DEF ClearOrphan, Cleared, Goto, Throw, ForkTypeOK, Status, Version, Bytes, Absent, Partial, Torn
  <2>2. Judged'
        BY <1>2 DEF ClearOrphan, Cleared, Goto, Throw, ForkTypeOK, Judged, Status
  <2>3. Copied'
        BY <1>2 DEF ClearOrphan, Cleared, Goto, Throw, ForkTypeOK, Judged, Copied, Quiet, Timely, Version, Bytes, Absent, Partial, Torn
  <2> QED BY <2>1, <2>2, <2>3
<1>3. CASE Judge
  <2>1. ForkTypeOK' /\ (pc \in PCs)' /\ (low <= version)'
        BY <1>3 DEF Judge, AtRest, Fingerprint, Fallback, Goto, ForkTypeOK, Status, Version, Bytes, Absent, Partial, Torn
  <2>2. Judged'
        BY <1>3 DEF Judge, AtRest, Fingerprint, Fallback, Goto, ForkTypeOK, Judged, Status
  <2>3. Copied'
        BY <1>3 DEF Judge, AtRest, Fingerprint, Fallback, Goto, ForkTypeOK, Judged, Copied, Quiet, Timely, Version, Bytes, Absent, Partial, Torn
  <2> QED BY <2>1, <2>2, <2>3
<1>4. CASE WalkBegin
  <2>1. ForkTypeOK' /\ (pc \in PCs)' /\ (low <= version)'
        BY <1>4 DEF WalkBegin, Fallback, Goto, ForkTypeOK, Status, Version, Bytes, Absent, Partial, Torn
  <2>2. Judged'
        BY <1>4 DEF WalkBegin, Fallback, Goto, ForkTypeOK, Judged, Status
  <2>3. Copied'
        BY <1>4 DEF WalkBegin, Fallback, Goto, ForkTypeOK, Judged, Copied, Quiet, Timely, Version, Bytes, Absent, Partial, Torn
  <2> QED BY <2>1, <2>2, <2>3
<1>5. CASE WalkEnd
  <2>1. ForkTypeOK' /\ (pc \in PCs)' /\ (low <= version)'
        BY <1>5 DEF WalkEnd, Throw, Fallback, Goto, ForkTypeOK, Status, Version, Bytes, Absent, Partial, Torn
  <2>2. Judged'
        BY <1>5 DEF WalkEnd, Throw, Fallback, Goto, ForkTypeOK, Judged, Status
  <2>3. Copied'
        BY <1>5 DEF WalkEnd, Throw, Fallback, Goto, ForkTypeOK, Judged, Copied, Quiet, Timely, Version, Bytes, Absent, Partial, Torn
  <2> QED BY <2>1, <2>2, <2>3
<1>6. CASE Recheck
  <2>1. ForkTypeOK' /\ (pc \in PCs)' /\ (low <= version)'
        BY <1>6 DEF Recheck, StayedAtRest, Fingerprint, Fallback, Goto, ForkTypeOK, Status, Version, Bytes, Absent, Partial, Torn
  <2>2. Judged'
        BY <1>6 DEF Recheck, StayedAtRest, Fingerprint, Fallback, Goto, ForkTypeOK, Judged, Status
  <2>3. Copied'
        BY <1>6 DEF Recheck, StayedAtRest, Fingerprint, Fallback, Goto, ForkTypeOK, Judged, Copied, Quiet, Timely, Version, Bytes, Absent, Partial, Torn
  <2> QED BY <2>1, <2>2, <2>3
<1>7. CASE Run
  <2>1. ForkTypeOK' /\ (pc \in PCs)' /\ (low <= version)'
        BY <1>7 DEF Run, Goto, Throw, ForkTypeOK, Status, Version, Bytes, Absent, Partial, Torn
  <2>2. Judged'
        BY <1>7 DEF Run, Goto, Throw, ForkTypeOK, Judged, Status
  <2>3. Copied'
        BY <1>7 DEF Run, Goto, Throw, ForkTypeOK, Judged, Copied, Quiet, Timely, Version, Bytes, Absent, Partial, Torn
  <2> QED BY <2>1, <2>2, <2>3
<1>8. CASE Ready
  <2>1. ForkTypeOK' /\ (pc \in PCs)' /\ (low <= version)'
        BY <1>8 DEF Ready, Goto, Throw, Fallback, MayRetry, ForkTypeOK, Status, Version, Bytes, Absent, Partial, Torn
  <2>2. Judged'
        BY <1>8 DEF Ready, Goto, Throw, Fallback, MayRetry, ForkTypeOK, Judged, Status
  <2>3. Copied'
        BY <1>8 DEF Ready, Goto, Throw, Fallback, MayRetry, ForkTypeOK, Judged, Copied, Quiet, Timely, Version, Bytes, Absent, Partial, Torn
  <2> QED BY <2>1, <2>2, <2>3
<1>9. CASE WakeSource
  <2>1. ForkTypeOK' /\ (pc \in PCs)' /\ (low <= version)'
        BY <1>9 DEF WakeSource, Goto, Throw, ForkTypeOK, Status, Version, Bytes, Absent, Partial, Torn
  <2>2. Judged'
        BY <1>9 DEF WakeSource, Goto, Throw, ForkTypeOK, Judged, Status
  <2>3. Copied'
        BY <1>9 DEF WakeSource, Goto, Throw, ForkTypeOK, Judged, Copied, Quiet, Timely, Version, Bytes, Absent, Partial, Torn
  <2> QED BY <2>1, <2>2, <2>3
<1>10. CASE SourceReady
  <2>1. ForkTypeOK' /\ (pc \in PCs)' /\ (low <= version)'
        BY <1>10 DEF SourceReady, Goto, Throw, ForkTypeOK, Status, Version, Bytes, Absent, Partial, Torn
  <2>2. Judged'
        BY <1>10 DEF SourceReady, Goto, Throw, ForkTypeOK, Judged, Status
  <2>3. Copied'
        BY <1>10 DEF SourceReady, Goto, Throw, ForkTypeOK, Judged, Copied, Quiet, Timely, Version, Bytes, Absent, Partial, Torn
  <2> QED BY <2>1, <2>2, <2>3
<1>11. CASE Stream
  <2>1. ForkTypeOK' /\ (pc \in PCs)' /\ (low <= version)'
        BY <1>11 DEF Stream, Goto, Throw, ForkTypeOK, Status, Version, Bytes, Absent, Partial, Torn
  <2>2. Judged'
        BY <1>11 DEF Stream, Goto, Throw, ForkTypeOK, Judged, Status
  <2>3. Copied'
        BY <1>11 DEF Stream, Goto, Throw, ForkTypeOK, Judged, Copied, Quiet, Timely, Version, Bytes, Absent, Partial, Torn
  <2> QED BY <2>1, <2>2, <2>3
<1>12. CASE Ready2
  <2>1. ForkTypeOK' /\ (pc \in PCs)' /\ (low <= version)'
        BY <1>12 DEF Ready2, Goto, Throw, ForkTypeOK, Status, Version, Bytes, Absent, Partial, Torn
  <2>2. Judged'
        BY <1>12 DEF Ready2, Goto, Throw, ForkTypeOK, Judged, Status
  <2>3. Copied'
        BY <1>12 DEF Ready2, Goto, Throw, ForkTypeOK, Judged, Copied, Quiet, Timely, Version, Bytes, Absent, Partial, Torn
  <2> QED BY <2>1, <2>2, <2>3
<1>13. CASE Kill
  <2>1. ForkTypeOK' /\ (pc \in PCs)' /\ (low <= version)'
        BY <1>13 DEF Kill, Goto, ForkTypeOK, Status, Version, Bytes, Absent, Partial, Torn
  <2>2. Judged'
        BY <1>13 DEF Kill, Goto, ForkTypeOK, Judged, Status
  <2>3. Copied'
        BY <1>13 DEF Kill, Goto, ForkTypeOK, Judged, Copied, Quiet, Timely, Version, Bytes, Absent, Partial, Torn
  <2> QED BY <2>1, <2>2, <2>3
<1>14. CASE Outside
  <2>1. ForkTypeOK' /\ (pc \in PCs)' /\ (low <= version)'
        BY <1>14 DEF Outside, ForkTypeOK, Status, Version, Bytes, Absent, Partial, Torn
  <2>2. Judged'
        BY <1>14 DEF Outside, ForkTypeOK, Judged, Status
  <2>3. Copied'
        BY <1>14 DEF Outside, ForkTypeOK, Judged, Copied, Quiet, Timely, Version, Bytes, Absent, Partial, Torn
  <2> QED BY <2>1, <2>2, <2>3
<1>15. CASE SourceWrites
  <2>1. ForkTypeOK' /\ (pc \in PCs)' /\ (low <= version)'
        BY <1>15 DEF SourceWrites, ForkTypeOK, Status, Version, Bytes, Absent, Partial, Torn
  <2>2. Judged'
        BY <1>15 DEF SourceWrites, ForkTypeOK, Judged, Status
  <2>3. Copied'
        BY <1>15 DEF SourceWrites, ForkTypeOK, Judged, Copied, Quiet, Timely, Version, Bytes, Absent, Partial, Torn
  <2> QED BY <2>1, <2>2, <2>3
<1>16. CASE UNCHANGED forkVars
      BY <1>16 DEF forkVars, ForkTypeOK, Judged, Copied, Quiet, Timely
<1> QED BY <1>1, <1>2, <1>3, <1>4, <1>5, <1>6, <1>7, <1>8, <1>9, <1>10, <1>11, <1>12, <1>13, <1>14, <1>15, <1>16 DEF ForkNext, Step

LEMMA ForkInvHolds == ForkSpec => []ForkInv
<1> QED BY ForkInitInv, ForkStepInv, PTL DEF ForkSpec

-------------------------------------------------------------------------------
\* Every variable keeps its type.
THEOREM ForkTyped == ForkSpec => []ForkTypeOK
<1>1. ForkInv => ForkTypeOK
      BY DEF ForkInv
<1> QED BY <1>1, ForkInvHolds, PTL

\* fork: a copy that spans a write of the source, or is not whole, is never started.
THEOREM WholeTheorem == ForkSpec => []StartsOnWhole
<1>1. ForkInv => StartsOnWhole
      BY DEF ForkInv, Copied, Made, Timely, StartsOnWhole
<1> QED BY <1>1, ForkInvHolds, PTL

\* A fork that answers has taken a snapshot at one moment of its call.
THEOREM ForkRefinement == ForkSpec => ImplementsSnapshot
<1>1. ForkInit => Promise!Init
      BY DEF ForkInit, Promise!Init
<1>2. ForkInv /\ [ForkNext]_forkVars => [Promise!Next]_(Promise!vars)
  <2> SUFFICES ASSUME ForkInv, [ForkNext]_forkVars PROVE [Promise!Next]_(Promise!vars)
      OBVIOUS
  <2> USE DEF source, locals, history
  <2>1. CASE SourceWrites
    <3>1. version + 1 \in Version /\ version' = version + 1 /\ UNCHANGED <<pc, dst, low>>
          BY <2>1, ForkAssumption DEF SourceWrites, ForkInv, ForkTypeOK, Version
    <3>2. Promise!Write
          BY <3>1 DEF Promise!Write
    <3> QED BY <3>2 DEF Promise!Next
  <2>2. CASE Call
        BY <2>2 DEF Call, Goto, Promise!Next, Promise!Call
  <2>3. CASE Ready
    <3>1. CASE pc' = "done"
      <4>1. Timely(dst) /\ dst' = dst /\ pc # "done"
            BY <2>3, <3>1 DEF Ready, Goto, Throw, Fallback, ForkInv, Copied, Made
      <4>2. Promise!Answer
            BY <2>3, <3>1, <4>1 DEF Ready, Promise!Answer, Timely
      <4> QED BY <4>2 DEF Promise!Next
    <3>2. CASE pc' # "done"
          BY <2>3, <3>2 DEF Ready, Promise!vars
    <3> QED BY <3>1, <3>2
  <2>4. CASE Ready2
    <3>1. CASE pc' = "done"
      <4>1. Timely(dst) /\ dst' = dst /\ pc # "done"
            BY <2>4, <3>1 DEF Ready2, Goto, Throw, ForkInv, Copied, Made
      <4>2. Promise!Answer
            BY <2>4, <3>1, <4>1 DEF Ready2, Promise!Answer, Timely
      <4> QED BY <4>2 DEF Promise!Next
    <3>2. CASE pc' # "done"
          BY <2>4, <3>2 DEF Ready2, Promise!vars
    <3> QED BY <3>1, <3>2
  <2>5. CASE ClearOrphan \/ Judge \/ WalkBegin \/ WalkEnd \/ Recheck \/ Run
             \/ WakeSource \/ SourceReady \/ Stream \/ Kill
    <3>1. pc # "done" /\ pc' # "done" /\ UNCHANGED <<version, low>>
          BY <2>5 DEF ClearOrphan, Judge, WalkBegin, WalkEnd, Recheck, Run, WakeSource,
                      SourceReady, Stream, Kill, Goto, Throw, Fallback
    <3> QED BY <3>1 DEF Promise!vars
  <2>6. CASE Outside \/ UNCHANGED forkVars
    <3>1. UNCHANGED <<pc, dst, version, low>>
          BY <2>6 DEF Outside, forkVars
    <3> QED BY <3>1 DEF Promise!vars
  <2> QED BY <2>1, <2>2, <2>3, <2>4, <2>5, <2>6 DEF ForkNext, Step
<1> QED BY <1>1, <1>2, ForkInvHolds, PTL DEF ForkSpec, ImplementsSnapshot, Promise!Spec

-------------------------------------------------------------------------------
\* The certificates.


\* A file has the number of the write that left it as its stamp.
DiskInv ==
    \A f \in Host : \A half \in {"crt", "key"} :
        /\ disk[f][half].at <= writes /\ disk[f][half].v <= writes
        /\ There(disk[f][half]) => disk[f][half].at >= 1

\* The half that has the stamp s now, if any, is of certificate v.
Fits(half, s, v) == FileStamp(half) = s => half.v = v

Past(stamp) == stamp.crt \in 1..writes /\ stamp.key \in 1..writes

\* A context tells the truth about the files for as long as they have its stamp.
Sound(f, ctx) ==
    /\ Past(ctx.stamp)
    /\ Fits(disk[f].crt, ctx.stamp.crt, ctx.v)
    /\ Fits(disk[f].key, ctx.stamp.key, ctx.v)

CacheInv == \A h \in Host : cache[h] # None => Sound(FileOf(h), cache[h])

\* What a look has in hand: stamps from before the bytes it has read.
TaskInv ==
    /\ task.pc # "none" => task.who \in Looks
    /\ task.pc \in {"findkey", "crt", "key"} => task.stamp.crt \in 1..writes
    /\ task.pc \in {"crt", "key"} => Past(task.stamp)
    /\ task.pc = "key" => Fits(Pair.crt, task.stamp.crt, task.crt)
    /\ task.pc \in {"key", "mkey"} => task.crt # 0
    /\ task.pc \in {"mfind", "mcrt", "mkey"} =>
          task.who \notin Host /\ task.ctx # None /\ Sound(Api, task.ctx)
    /\ task.pc = "mkey" =>
          (FileStamp(disk[Api].crt) = task.ctx.stamp.crt => task.crt = task.ctx.v)

\* The default context and the bytes of the lanes agree as long as the files keep the
\* stamp of the context, half by half; with both halves the lanes have them too.
DefaultsInv ==
    defaults # None =>
        /\ Past(defaults.stamp)
        /\ material # None
        /\ FileStamp(disk[Api].crt) = defaults.stamp.crt => material.crt = defaults.v
        /\ FileStamp(disk[Api].key) = defaults.stamp.key => material.key = defaults.v
        /\ stage = "up" /\ defaults.stamp = PairStamp(Api) =>
              \A l \in Lane : presented[l] = defaults.v

CertsInv == TypeOK /\ DiskInv /\ CacheInv /\ TaskInv /\ DefaultsInv
-------------------------------------------------------------------------------
Task == [who : Looks \cup {None}, pc : Steps, again : BOOLEAN, stamp : Stamps,
         crt : 0..MaxWrites, ctx : Contexts \cup {None}]

LEMMA NoTaskType == NoTask \in Task
<1>1. NoStamp \in Stamps
      BY CertsAssumption DEF NoStamp, Stamps
<1>2. 0 \in 0..MaxWrites
      BY CertsAssumption
<1> QED BY <1>1, <1>2 DEF NoTask, Task, Steps

LEMMA BeginType ==
    ASSUME NEW w \in Looks, NEW again \in BOOLEAN
    PROVE  /\ Begin(w, again) \in Task
           /\ Begin(w, again).pc = "find" /\ Begin(w, again).who = w
BY NoTaskType DEF Begin, NoTask, Task, Steps

LEMMA InitCertsInv == Init => CertsInv
<1> SUFFICES ASSUME Init PROVE CertsInv
    OBVIOUS
<1> USE CertsAssumption
<1>1. TypeOK
  <2>1. task \in Task
        BY BeginType DEF Init, Looks
  <2>2. disk \in [Host -> [crt : Half, key : Half]]
        BY DEF Init, Half
  <2>3. /\ cache \in [Host -> Contexts \cup {None}] /\ presented \in [Lane -> 0..MaxWrites]
        /\ watch \in [stamp : 0..MaxWrites, v : 0..MaxWrites]
        BY DEF Init
  <2> QED BY <2>1, <2>2, <2>3 DEF Init, TypeOK, Task
<1>2. DiskInv
      BY DEF Init, DiskInv, There
<1>3. CacheInv /\ DefaultsInv
      BY DEF Init, CacheInv, DefaultsInv
<1>4. TaskInv
      BY DEF Init, TaskInv, Begin, NoTask, Looks
<1> QED BY <1>1, <1>2, <1>3, <1>4 DEF CertsInv

\* A write gives a file a stamp that nobody has seen.
LEMMA WriteMoves ==
    ASSUME TypeOK, DiskInv,
           NEW g \in Host, NEW half \in {"crt", "key"}, NEW v \in Nat, Write(g, half, v),
           NEW f \in Host, NEW k \in {"crt", "key"}, NEW s \in 1..writes,
           FileStamp(disk'[f][k]) = s
    PROVE  disk'[f][k] = disk[f][k]
<1>1. writes \in Nat /\ disk[g] \in [crt : Half, key : Half]
      BY CertsAssumption DEF TypeOK
<1>2. CASE f = g /\ k = half
  <2>1. disk'[f][k] = [v |-> v, at |-> writes + 1]
        BY <1>1, <1>2 DEF Write, TypeOK
  <2>2. FileStamp(disk'[f][k]) \in {0, writes + 1}
        BY <2>1 DEF FileStamp
  <2> QED BY <1>1, <2>2
<1>3. CASE ~(f = g /\ k = half)
      BY <1>1, <1>3 DEF Write, TypeOK
<1> QED BY <1>2, <1>3

LEMMA WriteKeepsSound ==
    ASSUME TypeOK, DiskInv,
           NEW g \in Host, NEW half \in {"crt", "key"}, NEW v \in Nat, Write(g, half, v),
           NEW f \in Host, NEW ctx, Sound(f, ctx)
    PROVE  Sound(f, ctx)'
<1>1. writes \in Nat /\ writes' = writes + 1
      BY CertsAssumption DEF TypeOK, Write
<1>2. Past(ctx.stamp)'
      BY <1>1 DEF Sound, Past
<1>3. Fits(disk'[f].crt, ctx.stamp.crt, ctx.v)
      BY WriteMoves DEF Sound, Past, Fits
<1>4. Fits(disk'[f].key, ctx.stamp.key, ctx.v)
      BY WriteMoves DEF Sound, Past, Fits
<1> QED BY <1>2, <1>3, <1>4 DEF Sound

LEMMA WriteCertsInv ==
    ASSUME CertsInv, NEW g \in Host, NEW half \in {"crt", "key"}, NEW v \in 0..(writes + 1),
           Write(g, half, v)
    PROVE  CertsInv'
<1> USE CertsAssumption
<1>0. /\ TypeOK /\ DiskInv /\ CacheInv /\ TaskInv /\ DefaultsInv
      /\ writes \in Nat /\ writes' = writes + 1 /\ v \in Nat /\ writes < MaxWrites
      BY DEF CertsInv, TypeOK, Write
<1>a. UNCHANGED <<supplied, asked, cache, defaults, material, presented, stage, task, issuing, watch>>
      BY DEF Write, held
<1>b. disk'[g] = [disk[g] EXCEPT ![half] = [v |-> v, at |-> writes + 1]]
      /\ \A f \in Host : f # g => disk'[f] = disk[f]
      BY <1>0 DEF Write, TypeOK
<1>1. TypeOK'
  <2>1. disk' \in [Host -> [crt : Half, key : Half]]
        BY <1>0 DEF Write, TypeOK, Half
  <2> QED BY <1>0, <1>a, <2>1 DEF TypeOK
<1>2. DiskInv'
  <2> SUFFICES ASSUME NEW f \in Host, NEW k \in {"crt", "key"}
               PROVE  /\ disk'[f][k].at <= writes' /\ disk'[f][k].v <= writes'
                      /\ There(disk'[f][k]) => disk'[f][k].at >= 1
      BY DEF DiskInv
  <2>1. disk[f] \in [crt : Half, key : Half] /\ disk[f][k] \in Half
        BY <1>0 DEF TypeOK
  <2>2. CASE f = g /\ k = half
    <3>1. disk'[f][k] = [v |-> v, at |-> writes + 1]
          BY <1>b, <2>1, <2>2
    <3> QED BY <1>0, <3>1
  <2>3. CASE ~(f = g /\ k = half)
    <3>1. disk'[f][k] = disk[f][k]
          BY <1>b, <2>1, <2>3
    <3> QED BY <1>0, <2>1, <3>1 DEF DiskInv, Half
  <2> QED BY <2>2, <2>3
<1>3. CacheInv'
  <2> SUFFICES ASSUME NEW h \in Host, cache[h] # None PROVE Sound(FileOf(h), cache[h])'
      BY <1>a DEF CacheInv, FileOf
  <2>1. FileOf(h) \in Host /\ FileOf(h)' = FileOf(h) /\ cache'[h] = cache[h]
        BY <1>a DEF FileOf
  <2>2. Sound(FileOf(h), cache[h])
        BY <1>0 DEF CacheInv
  <2>3. \A f \in Host : \A ctx : Sound(f, ctx) => Sound(f, ctx)'
        BY <1>0, WriteKeepsSound
  <2> QED BY <2>1, <2>2, <2>3 DEF Sound
<1>4. TaskInv'
  <2>1. Pair = disk[FileOf(HostOf(task.who))] /\ Pair' = disk'[FileOf(HostOf(task.who))]
        BY <1>a DEF Pair, FileOf, HostOf
  <2>3. \A ctx : Sound(Api, ctx) => Sound(Api, ctx)'
        BY <1>0, WriteKeepsSound, CertsAssumption
  <2>2. task.pc \in {"mfind", "mcrt", "mkey"} => Sound(Api, task.ctx)'
        BY <1>0, <1>a, <2>3 DEF TaskInv, Sound
  <2>4. task.pc = "key" => Fits(Pair.crt, task.stamp.crt, task.crt)'
    <3> SUFFICES ASSUME task.pc = "key", FileStamp(Pair'.crt) = task.stamp.crt
                 PROVE  Pair'.crt.v = task.crt
        BY <1>a DEF Fits
    <3>1. FileOf(HostOf(task.who)) \in Host /\ task.stamp.crt \in 1..writes
          BY <1>0 DEF TaskInv, FileOf, HostOf, Looks, Past
    <3>2. Pair'.crt = Pair.crt
          BY <1>0, <2>1, <3>1, WriteMoves
    <3> QED BY <1>0, <3>2 DEF TaskInv, Fits
  <2>5. task.pc = "mkey" =>
            (FileStamp(disk'[Api].crt) = task.ctx.stamp.crt => task.crt = task.ctx.v)
    <3> SUFFICES ASSUME task.pc = "mkey", FileStamp(disk'[Api].crt) = task.ctx.stamp.crt
                 PROVE  task.crt = task.ctx.v
        OBVIOUS
    <3>1. task.ctx.stamp.crt \in 1..writes
          BY <1>0 DEF TaskInv, Sound, Past
    <3>2. disk'[Api].crt = disk[Api].crt
          BY <1>0, <3>1, WriteMoves
    <3> QED BY <1>0, <3>2 DEF TaskInv
  <2> QED BY <1>0, <1>a, <2>2, <2>4, <2>5 DEF TaskInv, Past
<1>5. DefaultsInv'
  <2> SUFFICES ASSUME defaults # None
               PROVE  DefaultsInv'
      BY <1>a DEF DefaultsInv
  <2>1. Past(defaults.stamp)
        BY <1>0 DEF DefaultsInv
  <2>2. FileStamp(disk'[Api].crt) = defaults.stamp.crt => disk'[Api].crt = disk[Api].crt
        BY <1>0, <2>1, WriteMoves DEF Past
  <2>3. FileStamp(disk'[Api].key) = defaults.stamp.key => disk'[Api].key = disk[Api].key
        BY <1>0, <2>1, WriteMoves DEF Past
  <2>4. defaults.stamp = PairStamp(Api)' => PairStamp(Api)' = PairStamp(Api)
        BY <2>2, <2>3 DEF PairStamp
  <2> QED BY <1>0, <1>a, <2>1, <2>2, <2>3, <2>4 DEF DefaultsInv, Past
<1> QED BY <1>1, <1>2, <1>3, <1>4, <1>5 DEF CertsInv
\* The files stand still in every other step.
LEMMA StillSound ==
    ASSUME UNCHANGED <<supplied, disk, writes>>
    PROVE  /\ DiskInv => DiskInv'
           /\ \A f, ctx : Sound(f, ctx) <=> Sound(f, ctx)'
           /\ \A h : FileOf(h)' = FileOf(h)
           /\ \A f : PairStamp(f)' = PairStamp(f)
           /\ \A half : FileStamp(half)' = FileStamp(half)
BY DEF DiskInv, There, Sound, Past, Fits, FileOf, PairStamp, FileStamp

LEMMA StillCaches ==
    ASSUME UNCHANGED <<supplied, disk, writes, cache>>, CacheInv
    PROVE  CacheInv'
BY StillSound DEF CacheInv, Sound, Past, Fits, FileOf, FileStamp, There

LEMMA StillDefaults ==
    ASSUME UNCHANGED <<supplied, disk, writes, defaults, material, presented, stage>>, DefaultsInv
    PROVE  DefaultsInv'
BY DEF DefaultsInv, Past, FileStamp, There, PairStamp

LEMMA StillTask ==
    ASSUME UNCHANGED <<supplied, disk, writes, task>>, TaskInv
    PROVE  TaskInv'
BY DEF TaskInv, Sound, Past, Fits, FileStamp, There, Pair, FileOf, HostOf

\* A look that has just begun, or is over, has nothing in hand.
LEMMA FreshTask ==
    ASSUME task' = NoTask \/ \E w \in Looks, again \in BOOLEAN : task' = Begin(w, again)
    PROVE  TaskInv' /\ task' \in Task
<1>1. CASE task' = NoTask
      BY <1>1, NoTaskType DEF TaskInv, NoTask
<1>2. CASE \E w \in Looks, again \in BOOLEAN : task' = Begin(w, again)
      BY <1>2, BeginType DEF TaskInv
<1> QED BY <1>1, <1>2
-------------------------------------------------------------------------------
LEMMA WritersCertsInv ==
    ASSUME CertsInv, NEW f \in Host, NEW half \in {"crt", "key"}, Replace(f, half) \/ Withdraw(f, half)
    PROVE  CertsInv'
<1>1. writes \in Nat /\ disk[f].crt.v \in 0..writes /\ disk[f].key.v \in 0..writes
      BY CertsAssumption DEF CertsInv, TypeOK, DiskInv, Half
<1>2. CASE Replace(f, half)
  <2>1. PICK v \in {Newest(f), Newest(f) + 1} : Write(f, half, v)
        BY <1>2 DEF Replace
  <2>2. v \in 0..(writes + 1)
        BY <1>1 DEF Newest
  <2> QED BY <2>1, <2>2, WriteCertsInv
<1>3. CASE Withdraw(f, half)
      BY <1>1, <1>3, WriteCertsInv DEF Withdraw
<1> QED BY <1>2, <1>3

\* A look that begins, or gives up, or has nothing to commit.
LEMMA QuietCertsInv ==
    ASSUME CertsInv, UNCHANGED <<supplied, disk, writes, held, stage, watch>>,
           task' = NoTask \/ \E w \in Looks, again \in BOOLEAN : task' = Begin(w, again),
           asked' \subseteq Host, issuing' \subseteq Looks
    PROVE  CertsInv'
<1>1. TaskInv' /\ task' \in Task
      BY FreshTask
<1>2. DiskInv' /\ CacheInv' /\ DefaultsInv'
      BY StillSound, StillCaches, StillDefaults DEF CertsInv, held
<1>3. TypeOK'
      BY <1>1 DEF CertsInv, TypeOK, held, Task
<1> QED BY <1>1, <1>2, <1>3 DEF CertsInv

\* A look that goes on.
LEMMA GoingOn ==
    ASSUME CertsInv, UNCHANGED <<files, held, stage, issuing, watch>>, TaskInv', task' \in Task
    PROVE  CertsInv'
<1>1. DiskInv' /\ CacheInv' /\ DefaultsInv'
      BY StillSound, StillCaches, StillDefaults DEF CertsInv, held, files
<1>2. TypeOK'
      BY DEF CertsInv, TypeOK, files, held, Task
<1> QED BY <1>1, <1>2 DEF CertsInv

LEMMA LookedAt ==
    ASSUME CertsInv, task.pc # "none"
    PROVE  /\ HostOf(task.who) \in Host /\ FileOf(HostOf(task.who)) \in Host
           /\ task.who \in Looks
           /\ Pair \in [crt : Half, key : Half] /\ writes \in Nat /\ writes <= MaxWrites
           /\ Pair.crt.at <= writes /\ Pair.key.at <= writes
           /\ Pair.crt.v <= writes /\ Pair.key.v <= writes
           /\ There(Pair.crt) => Pair.crt.at >= 1
           /\ There(Pair.key) => Pair.key.at >= 1
           /\ task.who \notin Host => FileOf(HostOf(task.who)) = Api
<1>1. task.who \in Looks
      BY DEF CertsInv, TaskInv
<1>2. HostOf(task.who) \in Host /\ FileOf(HostOf(task.who)) \in Host
      BY <1>1, CertsAssumption DEF HostOf, FileOf, Looks
<1>3. task.who \notin Host => FileOf(HostOf(task.who)) = Api
      BY <1>1 DEF HostOf, FileOf, Looks
<1>4. Pair \in [crt : Half, key : Half] /\ writes \in Nat /\ writes <= MaxWrites
      BY <1>2, CertsAssumption DEF Pair, CertsInv, TypeOK
<1> QED BY <1>1, <1>2, <1>3, <1>4 DEF CertsInv, DiskInv, Pair

LEMMA MissingCertsInv == ASSUME CertsInv, task.pc # "none", Missing PROVE CertsInv'
<1>1. task.who \in Looks /\ FileOf(HostOf(task.who)) \in Host
      BY LookedAt
<1>2. asked' \subseteq Host /\ issuing' \subseteq Looks
      BY <1>1 DEF Missing, CertsInv, TypeOK
<1> QED BY <1>2, QuietCertsInv DEF Missing

LEMMA GoneCertsInv == ASSUME CertsInv, Gone PROVE CertsInv'
BY QuietCertsInv DEF Gone, files, held, CertsInv, TypeOK

LEMMA FindCertsInv == ASSUME CertsInv, Find PROVE CertsInv'
<1>1. CASE There(Pair.crt) /\ There(Pair.key)
  <2>1. /\ task' = [task EXCEPT !.pc = "findkey", !.stamp.crt = FileStamp(Pair.crt)]
        /\ UNCHANGED <<files, held, stage, issuing, watch>>
        BY <1>1 DEF Find
  <2>2. task \in Task /\ FileStamp(Pair.crt) \in 1..writes /\ FileStamp(Pair.crt) \in 0..MaxWrites
        BY <1>1, LookedAt DEF CertsInv, TypeOK, Task, Find, FileStamp, Half
  <2>3. task' \in Task /\ task'.pc = "findkey" /\ task'.stamp.crt \in 1..writes
        BY <2>1, <2>2 DEF Task, Steps, Stamps
  <2>4. task'.who \in Looks
        BY <2>1, <2>2, LookedAt DEF Task, Find
  <2>5. TaskInv'
        BY <2>1, <2>3, <2>4 DEF TaskInv, files
  <2> QED BY <2>1, <2>3, <2>5, GoingOn
<1>2. CASE ~(There(Pair.crt) /\ There(Pair.key))
      BY <1>2, MissingCertsInv DEF Find
<1> QED BY <1>1, <1>2
LEMMA GoOnType ==
    ASSUME CertsInv, task.pc # "none", NEW ctx \in Contexts, ctx # None,
           Sound(FileOf(HostOf(task.who)), ctx), task' = GoOn(ctx),
           UNCHANGED <<supplied, disk, writes>>
    PROVE  TaskInv' /\ task' \in Task
<1>1. CASE task' = NoTask
      BY <1>1, FreshTask
<1>2. CASE task' # NoTask
  <2>1. task.who \notin Host /\ task' = [task EXCEPT !.pc = "mfind", !.ctx = ctx]
        BY <1>2 DEF GoOn
  <2>2. task \in Task /\ task.who \in Looks
        BY LookedAt DEF CertsInv, TypeOK, Task
  <2>3. /\ task' \in Task /\ task'.pc = "mfind" /\ task'.ctx = ctx
        /\ task'.who = task.who
        BY <2>1, <2>2 DEF Task, Steps
  <2>4. Sound(Api, ctx)
        BY <2>1, LookedAt
  <2>5. Sound(Api, task.ctx)'
        BY <2>3, <2>4 DEF Sound, Past, Fits, FileStamp, There
  <2> QED BY <2>1, <2>2, <2>3, <2>5 DEF TaskInv
<1> QED BY <1>1, <1>2

LEMMA FindKeyCertsInv == ASSUME CertsInv, FindKey PROVE CertsInv'
<1> DEFINE stamp == [task.stamp EXCEPT !.key = FileStamp(Pair.key)]
           hit == cache[HostOf(task.who)]
<1>0. task.pc = "findkey" /\ task \in Task
      BY DEF FindKey, CertsInv, TypeOK, Task
<1>1. CASE ~There(Pair.key)
      BY <1>0, <1>1, MissingCertsInv DEF FindKey
<1>2. CASE There(Pair.key)
  <2>0. UNCHANGED <<files, held, stage, issuing, watch>>
        BY <1>2 DEF FindKey
  <2>1. CASE hit # None /\ hit.stamp = stamp
    <3>1. task' = GoOn(hit)
          BY <1>2, <2>1 DEF FindKey
    <3>2. hit \in Contexts /\ Sound(FileOf(HostOf(task.who)), hit)
          BY <1>0, <2>1, LookedAt DEF CertsInv, TypeOK, CacheInv
    <3> QED BY <1>0, <2>0, <2>1, <3>1, <3>2, GoOnType, GoingOn DEF files
  <2>2. CASE ~(hit # None /\ hit.stamp = stamp)
    <3>1. task' = [task EXCEPT !.pc = "crt", !.stamp = stamp]
          BY <1>2, <2>2 DEF FindKey
    <3>2. FileStamp(Pair.key) \in 1..writes /\ FileStamp(Pair.key) \in 0..MaxWrites
          BY <1>0, <1>2, LookedAt DEF FileStamp, Half
    <3>3. stamp \in Stamps /\ Past(stamp)
          BY <1>0, <3>2 DEF CertsInv, TaskInv, Past, Task, Stamps
    <3>4. task' \in Task /\ task'.pc = "crt" /\ task'.stamp = stamp /\ task'.who = task.who
          BY <1>0, <3>1, <3>3 DEF Task, Steps
    <3>5. TaskInv'
          BY <1>0, <2>0, <3>3, <3>4, LookedAt DEF TaskInv, Past, files
    <3> QED BY <2>0, <3>4, <3>5, GoingOn
  <2> QED BY <2>1, <2>2
<1> QED BY <1>1, <1>2

LEMMA ReadCrtCertsInv == ASSUME CertsInv, ReadCrt PROVE CertsInv'
<1>0. task.pc \in {"crt", "mcrt"} /\ task \in Task /\ task.pc # "none"
      BY DEF ReadCrt, CertsInv, TypeOK, Task
<1>1. CASE ~There(Pair.crt)
      BY <1>1, GoneCertsInv DEF ReadCrt
<1>2. CASE There(Pair.crt)
  <2>1. /\ task' = [task EXCEPT !.pc = IF @ = "crt" THEN "key" ELSE "mkey", !.crt = Pair.crt.v]
        /\ UNCHANGED <<files, held, stage, issuing, watch>>
        BY <1>2 DEF ReadCrt
  <2>2. Pair.crt.v \in 0..MaxWrites /\ Pair.crt.v # 0
        BY <1>0, <1>2, LookedAt DEF Half, There
  <2>3. /\ task' \in Task /\ task'.crt = Pair.crt.v /\ task'.who = task.who
        /\ task'.stamp = task.stamp /\ task'.ctx = task.ctx
        /\ task'.pc = IF task.pc = "crt" THEN "key" ELSE "mkey"
        BY <1>0, <2>1, <2>2 DEF Task, Steps
  <2>4. Pair' = Pair
        BY <2>1, <2>3 DEF Pair, files, FileOf, HostOf
  <2>5. task.pc = "mcrt" => Sound(Api, task.ctx)'
        BY <2>1, <2>3 DEF CertsInv, TaskInv, files, Sound, Past, Fits, FileStamp, There
  <2>6. task.pc = "mcrt" =>
            (FileStamp(disk'[Api].crt) = task'.ctx.stamp.crt => task'.crt = task'.ctx.v)
        BY <1>0, <2>1, <2>3, LookedAt DEF CertsInv, TaskInv, files, Sound, Fits, Pair
  <2>7. TaskInv'
        BY <1>0, <2>1, <2>2, <2>3, <2>4, <2>5, <2>6, LookedAt DEF CertsInv, TaskInv, Fits, Past, files
  <2> QED BY <2>1, <2>3, <2>7, GoingOn
<1> QED BY <1>1, <1>2

LEMMA LoadCertsInv == ASSUME CertsInv, Load PROVE CertsInv'
<1> DEFINE ctx == [v |-> Pair.key.v, stamp |-> task.stamp]
           h == HostOf(task.who)
<1>0. task.pc = "key" /\ task \in Task /\ task.pc # "none"
      BY DEF Load, CertsInv, TypeOK, Task
<1>1. CASE ~(There(Pair.key) /\ Pair.key.v = task.crt)
      BY <1>1, GoneCertsInv DEF Load
<1>2. CASE There(Pair.key) /\ Pair.key.v = task.crt
  <2>1. /\ cache' = [cache EXCEPT ![h] = ctx] /\ task' = GoOn(ctx)
        /\ UNCHANGED <<files, defaults, material, presented, stage, issuing, watch>>
        BY <1>2 DEF Load
  <2>2. Sound(FileOf(h), ctx)
    <3>1. Past(task.stamp) /\ Fits(Pair.crt, task.stamp.crt, task.crt)
          BY <1>0 DEF CertsInv, TaskInv
    <3> QED BY <1>2, <3>1 DEF Sound, Fits, Pair
  <2>3. ctx \in Contexts
        BY <1>0, <1>2, LookedAt DEF Contexts, Task, There, Half
  <2>4. ctx # None
    <3>1. ctx \in [v : Nat, stamp : [crt : Nat, key : Nat]]
          BY <2>3, CertsAssumption DEF Contexts, Stamps
    <3> QED BY <3>1, CertsAssumption
  <2>5. h \in Host /\ cache \in [Host -> Contexts \cup {None}]
        BY <1>0, LookedAt DEF CertsInv, TypeOK
  <2>6. CacheInv'
    <3> SUFFICES ASSUME NEW g \in Host, cache'[g] # None
                 PROVE  Sound(FileOf(g), cache[g])'
        BY DEF CacheInv, Sound, Past, Fits
    <3>1. UNCHANGED <<supplied, disk, writes>>
          BY <2>1 DEF files
    <3>2. FileOf(g)' = FileOf(g)
          BY <3>1, StillSound
    <3>3. CASE g = h
      <4>1. cache'[g] = ctx
            BY <2>1, <2>5, <3>3
      <4> QED BY <2>2, <3>1, <3>2, <3>3, <4>1 DEF Sound, Past, Fits, FileStamp, There
    <3>4. CASE g # h
      <4>1. cache'[g] = cache[g]
            BY <2>1, <2>5, <3>4
      <4>2. Sound(FileOf(g), cache[g])
            BY <3>4, <4>1 DEF CertsInv, CacheInv
      <4> QED BY <3>1, <3>2, <4>1, <4>2 DEF Sound, Past, Fits, FileStamp, There
    <3> QED BY <3>3, <3>4
  <2>7. TaskInv' /\ task' \in Task
        BY <1>0, <2>1, <2>2, <2>3, <2>4, GoOnType DEF files
  <2>8. DiskInv' /\ DefaultsInv'
        BY <2>1, StillSound, StillDefaults DEF CertsInv, files
  <2>9. TypeOK'
    <3>1. cache' \in [Host -> Contexts \cup {None}]
          BY <2>1, <2>3, <2>5
    <3> QED BY <2>1, <2>7, <3>1 DEF CertsInv, TypeOK, Task, files
  <2> QED BY <2>6, <2>7, <2>8, <2>9 DEF CertsInv
<1> QED BY <1>1, <1>2

LEMMA MaterialForCertsInv == ASSUME CertsInv, MaterialFor PROVE CertsInv'
<1>1. task.pc = "mfind" /\ task \in Task /\ UNCHANGED <<files, held, stage, issuing, watch>>
      BY DEF MaterialFor, CertsInv, TypeOK, Task
<1>2. CASE task' = NoTask
      BY <1>1, <1>2, QuietCertsInv DEF files, CertsInv, TypeOK
<1>3. CASE task' = [task EXCEPT !.pc = "mcrt"]
  <2>1. /\ task' \in Task /\ task'.pc = "mcrt" /\ task'.ctx = task.ctx
        /\ task'.who = task.who
        BY <1>1, <1>3 DEF Task, Steps
  <2>2. Sound(Api, task.ctx)'
        BY <1>1, <2>1 DEF CertsInv, TaskInv, files, Sound, Past, Fits, FileStamp, There
  <2>3. TaskInv'
        BY <1>1, <2>1, <2>2 DEF CertsInv, TaskInv
  <2> QED BY <1>1, <2>1, <2>3, GoingOn
<1> QED BY <1>2, <1>3 DEF MaterialFor

LEMMA CommitCertsInv == ASSUME CertsInv, Commit PROVE CertsInv'
<1>0. task.pc = "mkey" /\ task \in Task /\ task.pc # "none"
      BY DEF Commit, CertsInv, TypeOK, Task
<1>1. CASE ~There(Pair.key)
      BY <1>1, GoneCertsInv DEF Commit
<1>2. CASE There(Pair.key)
  <2>1. /\ defaults' = task.ctx
        /\ material' = [crt |-> task.crt, key |-> Pair.key.v]
        /\ presented' = [l \in Lane |-> IF stage = "up" /\ task.crt = Pair.key.v
                                        THEN task.crt ELSE presented[l]]
        /\ task' = NoTask
        /\ UNCHANGED <<files, cache, stage, issuing, watch>>
        BY <1>2 DEF Commit
  <2>2. /\ task.who \notin Host /\ task.ctx # None /\ Sound(Api, task.ctx)
        /\ FileStamp(disk[Api].crt) = task.ctx.stamp.crt => task.crt = task.ctx.v
        /\ task.crt \in 1..MaxWrites /\ task.ctx \in Contexts
        BY <1>0 DEF CertsInv, TaskInv, Task
  <2>3. Pair = disk[Api] /\ Pair.key.v \in 1..MaxWrites
        BY <1>0, <1>2, <2>2, LookedAt DEF Pair, There, Half
  <2>4. material' \in [crt : 1..MaxWrites, key : 1..MaxWrites] /\ material' # None
        BY <2>1, <2>2, <2>3, CertsAssumption
  <2>5. DefaultsInv'
    <3>1. Past(defaults.stamp)'
          BY <2>1, <2>2 DEF Sound, Past, files
    <3>2. /\ FileStamp(disk'[Api].crt) = defaults'.stamp.crt => material'.crt = defaults'.v
          /\ FileStamp(disk'[Api].key) = defaults'.stamp.key => material'.key = defaults'.v
          BY <2>1, <2>2, <2>3 DEF Sound, Fits, files
    <3>3. ASSUME stage' = "up", defaults'.stamp = PairStamp(Api)', NEW l \in Lane
          PROVE  presented'[l] = defaults'.v
      <4>1. /\ FileStamp(disk[Api].crt) = task.ctx.stamp.crt
            /\ FileStamp(disk[Api].key) = task.ctx.stamp.key
            BY <2>1, <3>3 DEF PairStamp, files, FileStamp, There
      <4>2. task.crt = task.ctx.v /\ Pair.key.v = task.ctx.v
            BY <2>2, <2>3, <4>1 DEF Sound, Fits
      <4> QED BY <2>1, <3>3, <4>2
    <3> QED BY <2>4, <3>1, <3>2, <3>3 DEF DefaultsInv
  <2>6. DiskInv' /\ CacheInv' /\ TaskInv'
        BY <2>1, StillSound, StillCaches, FreshTask DEF CertsInv, files
  <2>7. TypeOK'
    <3>1. presented' \in [Lane -> 0..MaxWrites]
          BY <2>1, <2>2 DEF CertsInv, TypeOK
    <3> QED BY <2>1, <2>2, <2>4, <3>1, NoTaskType DEF CertsInv, TypeOK, Task, files
  <2> QED BY <2>5, <2>6, <2>7 DEF CertsInv
<1> QED BY <1>1, <1>2

LEMMA OpenLanesCertsInv == ASSUME CertsInv, OpenLanes PROVE CertsInv'
<1>0. stage = "boot" /\ task = NoTask /\ UNCHANGED files /\ task \in Task
      BY DEF OpenLanes, CertsInv, TypeOK, Task
<1>1. CASE material = None \/ material.crt = material.key
  <2>1. /\ stage' = "up"
        /\ presented' = [l \in Lane |-> IF material = None THEN 0 ELSE material.crt]
        /\ UNCHANGED <<cache, defaults, material, task, issuing, watch>>
        BY <1>1 DEF OpenLanes
  <2>2. presented' \in [Lane -> 0..MaxWrites]
        BY <2>1, CertsAssumption DEF CertsInv, TypeOK
  <2>3. DefaultsInv'
    <3> SUFFICES ASSUME defaults # None PROVE DefaultsInv'
        BY <2>1 DEF DefaultsInv
    <3>1. ASSUME defaults.stamp = PairStamp(Api)', NEW l \in Lane
          PROVE  presented'[l] = defaults.v
      <4>1. FileStamp(disk[Api].crt) = defaults.stamp.crt
            BY <1>0, <3>1 DEF PairStamp, files, FileStamp, There
      <4> QED BY <2>1, <4>1 DEF CertsInv, DefaultsInv
    <3> QED BY <1>0, <2>1, <3>1 DEF CertsInv, DefaultsInv, files, Past, FileStamp, There
  <2>4. DiskInv' /\ CacheInv' /\ TaskInv'
        BY <1>0, <2>1, StillSound, StillCaches, StillTask DEF CertsInv, files
  <2>5. TypeOK'
        BY <1>0, <2>1, <2>2 DEF CertsInv, TypeOK, files
  <2> QED BY <2>3, <2>4, <2>5 DEF CertsInv
<1>2. CASE ~(material = None \/ material.crt = material.key)
  <2>1. /\ cache' = [h \in Host |-> None] /\ defaults' = None /\ material' = None
        /\ task' = Begin("boot", FALSE) /\ issuing' = {}
        /\ watch' = [stamp |-> 0, v |-> 0] /\ UNCHANGED <<stage, presented>>
        BY <1>2 DEF OpenLanes
  <2>2. TaskInv' /\ task' \in Task
        BY <2>1, FreshTask DEF Looks
  <2>3. CacheInv' /\ DefaultsInv' /\ DiskInv'
        BY <1>0, <2>1, StillSound DEF CertsInv, CacheInv, DefaultsInv, files
  <2>4. TypeOK'
    <3>1. cache' \in [Host -> Contexts \cup {None}]
          BY <2>1
    <3>2. watch' \in [stamp : 0..MaxWrites, v : 0..MaxWrites]
          BY <2>1, CertsAssumption
    <3> QED BY <1>0, <2>1, <2>2, <3>1, <3>2 DEF CertsInv, TypeOK, files, Task
  <2> QED BY <2>2, <2>3, <2>4 DEF CertsInv
<1> QED BY <1>1, <1>2

LEMMA SyncCertsInv == ASSUME CertsInv, Sync PROVE CertsInv'
<1>1. UNCHANGED <<files, held, stage, task, issuing>>
      BY DEF Sync
<1>2. DiskInv' /\ CacheInv' /\ TaskInv' /\ DefaultsInv'
      BY <1>1, StillSound, StillCaches, StillTask, StillDefaults DEF CertsInv, files, held
<1>3. watch' \in [stamp : 0..MaxWrites, v : 0..MaxWrites]
      BY CertsAssumption DEF Sync, Watched, FileStamp, CertsInv, TypeOK, Half
<1>4. TypeOK'
      BY <1>1, <1>3 DEF CertsInv, TypeOK, files, held
<1> QED BY <1>2, <1>4 DEF CertsInv

LEMMA StepCertsInv == CertsInv /\ [Next]_vars => CertsInv'
<1> SUFFICES ASSUME CertsInv, [Next]_vars PROVE CertsInv'
    OBVIOUS
<1>1. ASSUME NEW f \in Host, NEW half \in {"crt", "key"}, Replace(f, half) \/ Withdraw(f, half)
      PROVE  CertsInv'
      BY <1>1, WritersCertsInv
<1>2. ASSUME NEW h \in Host, Hello(h) PROVE CertsInv'
      BY <1>2, QuietCertsInv DEF Hello, files, Looks, CertsInv, TypeOK
<1>3. CASE Beat
      BY <1>3, QuietCertsInv DEF Beat, files, Looks, CertsInv, TypeOK
<1>4. CASE Looking
      BY <1>4, FindCertsInv, FindKeyCertsInv, ReadCrtCertsInv, LoadCertsInv, MaterialForCertsInv, CommitCertsInv DEF Looking
<1>5. CASE OpenLanes
      BY <1>5, OpenLanesCertsInv
<1>6. CASE Sync
      BY <1>6, SyncCertsInv
<1>7. ASSUME NEW w \in Looks, Issued(w) PROVE CertsInv'
      BY <1>7, QuietCertsInv DEF Issued, files, CertsInv, TypeOK
<1>8. CASE UNCHANGED vars
  <2>1. DiskInv' /\ CacheInv' /\ TaskInv' /\ DefaultsInv'
        BY <1>8, StillSound, StillCaches, StillTask, StillDefaults DEF CertsInv, vars, files, held
  <2> QED BY <1>8, <2>1 DEF CertsInv, TypeOK, vars, files, held
<1> QED BY <1>1, <1>2, <1>3, <1>4, <1>5, <1>6, <1>7, <1>8 DEF Next

LEMMA CertsInvHolds == Spec => []CertsInv
<1> QED BY InitCertsInv, StepCertsInv, PTL DEF Spec

-------------------------------------------------------------------------------
\* Every variable keeps its type: no look presents half a pair, or a certificate that was
\* never written.
THEOREM CertsTyped == Spec => []TypeOK
<1>1. CertsInv => TypeOK
      BY DEF CertsInv
<1> QED BY <1>1, CertsInvHolds, PTL

\* contextFor: the cache never answers a replaced pair with the certificate it had.
THEOREM CacheTheorem == Spec => []CacheIsCurrent
<1>1. ASSUME CertsInv PROVE CacheIsCurrent
  <2> SUFFICES ASSUME NEW h \in Host, cache[h] # None, cache[h].stamp = PairStamp(FileOf(h))
               PROVE  Whole(FileOf(h)) /\ cache[h].v = disk[FileOf(h)].crt.v
      BY DEF CacheIsCurrent
  <2>1. Sound(FileOf(h), cache[h]) /\ cache[h].stamp.crt # 0
        BY <1>1 DEF CertsInv, CacheInv, Sound, Past, TypeOK
  <2> QED BY <2>1 DEF Sound, Fits, PairStamp, FileStamp, Whole, There
<1> QED BY <1>1, CertsInvHolds, PTL

\* refreshDefaultContext: pg never moves on without redis and mongo.
THEOREM LanesTheorem == Spec => []NoLaneLeftBehind
<1>1. ASSUME CertsInv PROVE NoLaneLeftBehind
  <2> SUFFICES ASSUME stage = "up", defaults # None, defaults.stamp = PairStamp(Api)
               PROVE  /\ material = [crt |-> defaults.v, key |-> defaults.v]
                      /\ \A l \in Lane : presented[l] = defaults.v
      BY DEF NoLaneLeftBehind
  <2>1. material \in [crt : 1..MaxWrites, key : 1..MaxWrites]
        BY <1>1 DEF CertsInv, TypeOK, DefaultsInv
  <2>2. material.crt = defaults.v /\ material.key = defaults.v
        BY <1>1 DEF CertsInv, DefaultsInv, PairStamp
  <2> QED BY <1>1, <2>1, <2>2 DEF CertsInv, DefaultsInv
<1> QED BY <1>1, CertsInvHolds, PTL

\* What the run checks, for any hosts, lanes and writers: neither the cache nor a lane is
\* left with the certificate of a pair of files that was replaced.
THEOREM PairTheorem == Spec => []OnePairEverywhere
<1>1. CacheIsCurrent /\ NoLaneLeftBehind => OnePairEverywhere
      BY DEF OnePairEverywhere
<1> QED BY <1>1, CacheTheorem, LanesTheorem, PTL
===============================================================================
