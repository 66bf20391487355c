--------------------------------- MODULE Fork ---------------------------------
(***************************************************************************)
(* LocalPostgres.fork of src/src/adapters/postgres.ts: the file-level      *)
(* clone of a source at rest, the pg_basebackup of a live one, and the     *)
(* fallback from the first to the second.  The fork holds the source's     *)
(* key, so nothing in the daemon moves the source; a `docker start`, stop  *)
(* or pause from outside can come at any step, docker can fail any call,   *)
(* and the daemon can be killed and the fork called again.                 *)
(***************************************************************************)
EXTENDS Integers

CONSTANTS
    Strict,       \* INSTA_OSS_FORK=reflink: fail rather than stream
    Reflink,      \* what the boot probe found
    MaxVersion,   \* bound: writes of the source
    MaxRuns,      \* bound: starts and stops of the source
    MaxCalls      \* bound: calls of fork for this destination

ASSUME ForkAssumption ==
    /\ Strict \in BOOLEAN /\ Reflink \in BOOLEAN
    /\ {MaxVersion, MaxRuns, MaxCalls} \subseteq Nat /\ MaxVersion >= 1

VARIABLES
    status,    \* State.Status of the source's container: running, paused, exited, gone
    runs,      \* stands for StartedAt and FinishedAt: how often it was started or stopped
    version,   \* the version of the source's data
    damaged,   \* the source was damaged before: no copy of it recovers for certain
    pc, retry, before,
    from,      \* the version the walk began with
    dst,       \* the bytes at the destination
    dstUp,     \* the destination's container: none, down or up
    low, calls \* history: the version at the call, and the number of calls

source == <<status, runs, version, damaged>>
locals == <<retry, before, from>>
history == <<low, calls>>
forkVars == <<source, pc, locals, dst, dstUp, history>>

Absent == 0
Partial == -1
Torn == -2
Version == 1..MaxVersion
Bytes == {Absent, Partial, Torn} \cup Version
Status == {"running", "paused", "exited", "gone"}

ForkInit ==
    /\ status \in {"running", "paused", "exited"} /\ runs = 0 /\ version = 1
    /\ damaged \in (IF status = "exited" THEN BOOLEAN ELSE {FALSE})
    /\ pc = "idle" /\ retry = FALSE /\ before = <<"gone", 0>> /\ from = 1
    /\ dst \in {Absent, Partial, 1} /\ dstUp \in {"none", "up"}
    /\ low = 1 /\ calls = 0

-------------------------------------------------------------------------------
Goto(p) == pc' = p

Throw == Goto("failed")

\* RunningSourceError, NoReflinkError and TornCopyError fall through to the stream,
\* unless the operator asked for a clone or a failure.
Fallback == Goto(IF Strict THEN "failed" ELSE "clear2")

\* fork, also of a destination an earlier attempt left behind.
Call ==
    /\ pc \in {"idle", "failed"} /\ calls < MaxCalls
    /\ calls' = calls + 1 /\ low' = version
    /\ Goto(IF Reflink THEN "clear" ELSE "clear2")
    /\ retry' = FALSE
    /\ UNCHANGED <<source, before, from, dst, dstUp>>

\* What clearOrphan does once docker has answered; the error of `rm -f -v` is swallowed.
Cleared == dstUp' \in {"none", dstUp} /\ dst' = Absent

\* clearOrphan: nothing is removed on a probe that did not answer.
ClearOrphan ==
    /\ pc \in {"clear", "clear2"}
    /\ \/ Cleared /\ Goto(IF pc = "clear" THEN "judge" ELSE "wake")
       \/ Throw /\ UNCHANGED <<dst, dstUp>>
    /\ UNCHANGED <<source, locals, history>>

-------------------------------------------------------------------------------
\* runFingerprint; a removed container has none.
Fingerprint == IF status = "gone" THEN <<"gone", 0>> ELSE <<status, runs>>

\* A mutant of AtRest: a paused container is taken to be still.
AtRestOrPaused == status \in {"exited", "gone", "paused"}

\* The states without a process inside; a removed container has no writer either.
AtRest == status \in {"exited", "gone"}

\* A source that is not at rest, or that docker cannot report on, is streamed.
Judge ==
    /\ pc = "judge"
    /\ \/ AtRest /\ before' = Fingerprint /\ Goto("walk")
       \/ Fallback /\ UNCHANGED before
    /\ UNCHANGED <<source, retry, from, dst, dstUp, history>>

\* clonePostgres walks the directory file by file: what is written meanwhile tears it.
WalkBegin ==
    /\ pc = "walk"
    /\ \/ /\ dst' = IF dst = Absent THEN Partial ELSE Torn
          /\ from' = version
          /\ Goto("walking")
       \/ Fallback /\ UNCHANGED <<dst, from>>
    /\ UNCHANGED <<source, retry, before, dstUp, history>>

WalkEnd ==
    /\ pc = "walking"
    /\ \/ dst' = (IF dst = Partial /\ version = from THEN version ELSE Torn) /\ Goto("recheck")
       \/ UNCHANGED dst /\ (Throw \/ Fallback)
    /\ UNCHANGED <<source, locals, dstUp, history>>

\* A mutant of StayedAtRest: the status alone is read again.
SameStatus == status = before[1]

\* The two fingerprints agree: the source did not run during the walk.
StayedAtRest == Fingerprint = before

\* Any difference of the two fingerprints throws the copy away.
Recheck ==
    /\ pc = "recheck"
    /\ \/ StayedAtRest /\ Goto("run") /\ UNCHANGED dst
       \/ Fallback /\ dst' \in {Absent, dst}
    /\ UNCHANGED <<source, locals, dstUp, history>>

\* pgRun of the destination on its bytes.
Run ==
    /\ pc \in {"run", "run2"}
    /\ \/ dstUp = "none" /\ dstUp' = "up" /\ Goto(IF pc = "run" THEN "ready" ELSE "ready2")
       \/ dstUp' \in (IF dstUp = "none" THEN {"none", "down"} ELSE {dstUp}) /\ Throw
    /\ UNCHANGED <<source, locals, dst, history>>

\* A mutant of MayRetry: every torn copy is tried again.
AlwaysRetry == TRUE

\* One retry of a clone.
MayRetry == ~retry

\* waitReady of a clone: a copy that does not recover is made once more, and then the
\* source is streamed; any other failure is the fork's.
Ready ==
    /\ pc = "ready"
    /\ \/ Goto("done") /\ UNCHANGED <<retry, dst, dstUp>>
       \/ /\ dst' \in {Absent, dst} /\ dstUp' \in {"none", dstUp}
          /\ \/ Throw /\ UNCHANGED retry
             \/ (damaged \/ dst = Torn) /\ MayRetry /\ retry' = TRUE /\ Goto("clear")
             \/ (damaged \/ dst = Torn) /\ ~MayRetry /\ Fallback /\ UNCHANGED retry
    /\ UNCHANGED <<source, before, from, history>>

-------------------------------------------------------------------------------
\* ensureSourceRunning: the engine's wake door starts a source that sleeps.
WakeSource ==
    /\ pc = "wake"
    /\ \/ /\ status = "exited" /\ ~damaged /\ runs < MaxRuns
          /\ status' = "running" /\ runs' = runs + 1 /\ Goto("live")
       \/ status = "running" /\ UNCHANGED <<status, runs>> /\ Goto("live")
       \/ UNCHANGED <<status, runs>> /\ Throw
    /\ UNCHANGED <<version, damaged, locals, dst, dstUp, history>>

\* Only a live source that answers is streamed from; its replication line is appended.
SourceReady ==
    /\ pc = "live"
    /\ (status = "running" /\ Goto("stream")) \/ Throw
    /\ UNCHANGED <<source, locals, dst, dstUp, history>>

\* pg_basebackup streams into an empty directory and ends with the WAL of its last
\* moment; one that fails has its bytes removed.
Stream ==
    /\ pc = "stream"
    /\ \/ status = "running" /\ dst = Absent /\ dst' = version /\ Goto("run2")
       \/ dst' \in {Absent, Partial} /\ Throw
    /\ UNCHANGED <<source, locals, dstUp, history>>

Ready2 ==
    /\ pc = "ready2"
    /\ Goto("done") \/ Throw
    /\ UNCHANGED <<source, locals, dst, dstUp, history>>

-------------------------------------------------------------------------------
\* The daemon dies; what it was doing to the destination stays half done.
Kill ==
    /\ pc \notin {"idle", "failed", "done"}
    /\ Goto("failed")
    /\ dst' \in (IF pc = "stream" THEN {dst, Partial} ELSE {dst})
    /\ UNCHANGED <<source, locals, dstUp, history>>

\* docker start, stop, pause, unpause and rm of the source by somebody else.
Outside ==
    /\ \/ /\ runs < MaxRuns /\ runs' = runs + 1
          /\ \/ status = "exited" /\ ~damaged /\ status' = "running"
             \/ status = "running" /\ status' = "exited"
       \/ status = "running" /\ status' = "paused" /\ UNCHANGED runs
       \/ status = "paused" /\ status' = "running" /\ UNCHANGED runs
       \/ status = "exited" /\ status' = "gone" /\ UNCHANGED runs
    /\ UNCHANGED <<version, damaged, pc, locals, dst, dstUp, history>>

\* A running source goes on writing.
SourceWrites ==
    /\ status = "running" /\ version < MaxVersion
    /\ version' = version + 1
    /\ UNCHANGED <<status, runs, damaged, pc, locals, dst, dstUp, history>>

Step ==
    \/ ClearOrphan \/ Judge \/ WalkBegin \/ WalkEnd \/ Recheck \/ Run \/ Ready
    \/ WakeSource \/ SourceReady \/ Stream \/ Ready2

ForkNext == Call \/ Step \/ Kill \/ Outside \/ SourceWrites

ForkSpec == ForkInit /\ [][ForkNext]_forkVars
FairForkSpec == ForkSpec /\ WF_forkVars(Step)

-------------------------------------------------------------------------------
ForkTypeOK ==
    /\ status \in Status /\ runs \in 0..MaxRuns /\ version \in Version
    /\ <<damaged, retry>> \in BOOLEAN \X BOOLEAN
    /\ before \in Status \X (0..MaxRuns) /\ {from, low} \subseteq Version
    /\ dst \in Bytes /\ dstUp \in {"none", "down", "up"} /\ calls \in 0..MaxCalls

\* A copy that spans a write of the source, or that is not whole, is never started by
\* the fork: a torn copy that boots anyway is the outcome the fingerprints are for.
StartsOnWhole == pc \in {"ready", "ready2", "done"} => dst \in Version

\* A fork that answers has the source as it stood at one moment after the call, never
\* what an earlier attempt left behind.
Promise == INSTANCE Snapshot WITH
    Version <- Version, value <- version, low <- low,
    copy <- IF pc = "done" THEN dst ELSE 0
ImplementsSnapshot == Promise!Spec

\* Every fork ends: a torn clone is retried once and streamed after that.
EveryForkEnds == (pc \notin {"idle", "failed", "done"}) ~> (pc \in {"failed", "done"})
===============================================================================
