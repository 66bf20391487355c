------------------------------- MODULE Migration -------------------------------
(***************************************************************************)
(* The boot migration of one branch, src/src/datadir-migrate.ts: its       *)
(* Postgres database, one compute /data volume and one managed database    *)
(* leave docker volumes and container layers for the data directory.  The  *)
(* daemon can be killed between any two steps, docker can fail any call    *)
(* and any probe, and a branch that failed is served from where it is      *)
(* until the next boot tries again.                                        *)
(*                                                                         *)
(* A copy of bytes is the version of what it holds: Absent, Partial (an    *)
(* interrupted copy), Torn (whole, but of several moments) or a number.    *)
(***************************************************************************)
EXTENDS Integers

CONSTANTS
    Present,      \* the sets of stores a branch may have
    MaxVersion,   \* bound: how many versions of its bytes a store goes through
    Woken,        \* the stores whose old container may be started between two boots
    LiveApps      \* may an app write to its docker volume while that is copied?

Arm == {"pg", "vol", "md"}

ASSUME MigrationAssumption ==
    /\ Present \subseteq SUBSET Arm
    /\ MaxVersion \in Nat /\ MaxVersion >= 2
    /\ Woken \subseteq Arm
    /\ LiveApps \in BOOLEAN

VARIABLES
    arm,          \* the store the pass is at
    pc,           \* where the pass is; serving between two boots, dead when killed
    wasRunning,   \* its local of that name
    mustRemove,   \* freshExists: a replacement was there when the pass began
    ambiguous,    \* its local of that name
    row,          \* the container databases['pg-db'] names
    stamped,      \* dataVersion = 1
    legacy,       \* the bytes in the docker volume or container layer
    target,       \* the bytes in the data directory
    staging,      \* the bytes in the .incoming- sibling of the target
    old,          \* the container on the legacy bytes: none, up or down
    new,          \* the container on the data directory
    newest,       \* history: the last version written, Absent for a store without data
    wanted,       \* history: was the container up when the first boot found it
    calm          \* docker answers and nothing is killed from here on

locals == <<wasRunning, mustRemove, ambiguous>>
records == <<row, stamped>>
bytes == <<legacy, target, staging>>
containers == <<old, new>>
history == <<newest, wanted>>
vars == <<arm, pc, locals, records, bytes, containers, history, calm>>

Absent == 0
Partial == -1
Torn == -2
EmptyTree == 1                      \* a directory that is legitimately empty
Version == 1..MaxVersion
Whole(v) == v \in Version \/ v = Torn

Container == {"none", "up", "down"}
PC == {"probe", "stop", "copy", "walk", "clear", "promote", "drop", "run", "ready",
       "settle", "stamp", "serving", "dead"}

Init ==
    /\ arm = "pg" /\ pc = "probe"
    /\ wasRunning = TRUE /\ mustRemove = FALSE /\ ambiguous = FALSE
    /\ row = "legacy" /\ stamped = FALSE
    /\ \E has \in Present : \E up \in SUBSET has : \E bare \in SUBSET (has \cap {"vol"}) :
         \E half \in {{}, has} :
          /\ legacy = [a \in Arm |-> IF a \in bare THEN EmptyTree ELSE IF a \in has THEN 2 ELSE Absent]
          /\ target = [a \in Arm |-> IF a \in half THEN Partial ELSE Absent]
          /\ old = [a \in Arm |-> IF a \in up THEN "up" ELSE IF a \in has THEN "down" ELSE "none"]
          /\ wanted = [a \in Arm |-> a \in up]
    /\ staging = [a \in Arm |-> Absent]
    /\ new = [a \in Arm |-> "none"]
    /\ newest = legacy
    /\ calm = FALSE

-------------------------------------------------------------------------------
At(a, p) == arm = a /\ pc = p

Goto(p) == pc' = p /\ UNCHANGED arm

\* migrateBranch: the next store, then the stamp.
NextArm == IF arm = "pg" THEN "vol" ELSE "md"
NextStore ==
    IF arm = "md" THEN Goto("stamp") ELSE arm' = NextArm /\ pc' = "probe"

\* An exception leaves the branch unstamped; the daemon comes up and serves it as it is.
Fail == ~calm /\ Goto("serving")

\* The two reads of the data directory: pgDataComplete and isEmptyOrMissing.
Complete(d) == Whole(d)
EmptyOrMissing(d) == d \in {Absent, EmptyTree}

-------------------------------------------------------------------------------
\* Nothing is left to do when the row, the last thing written, names the replacement.
Settled == new["pg"] # "none" /\ row = "fresh"

LegacyThere == row = "legacy" /\ old["pg"] # "none"

\* migratePostgres up to the stop: what is there, and what is left to do.
ProbePg ==
    /\ At("pg", "probe")
    /\ mustRemove' = (new["pg"] # "none")
    /\ ambiguous' = FALSE
    /\ \/ Fail /\ UNCHANGED wasRunning
       \/ Settled /\ NextStore /\ UNCHANGED wasRunning
       \/ /\ ~Settled /\ LegacyThere
          /\ wasRunning' = (old["pg"] = "up")
          /\ Goto("stop")
       \/ /\ ~Settled /\ ~LegacyThere /\ ~Complete(target["pg"])
          /\ NextStore /\ UNCHANGED wasRunning
       \/ /\ ~Settled /\ ~LegacyThere /\ Complete(target["pg"])
          /\ wasRunning' = (new["pg"] # "down")
          /\ Goto("run")
    /\ UNCHANGED <<records, bytes, containers, history, calm>>

\* A mutant of OnBindMount: a directory that is not empty has been copied.
OnBindMountByBytes == ~EmptyOrMissing(target["vol"])

\* mountsInclude: the app reads the data directory already.
OnBindMount == new["vol"] # "none"

\* migrateVolumes for one app: the mounts of its container say which copy is the live
\* one.  Its bytes are copied without stopping it.
ProbeVol ==
    LET none == old["vol"] = "none" /\ new["vol"] = "none"
        unsure == none /\ ~EmptyOrMissing(target["vol"]) IN
    /\ At("vol", "probe")
    /\ wasRunning' = wanted["vol"]          \* deploy reads the recorded desiredState
    /\ mustRemove' = FALSE
    /\ \/ Fail /\ UNCHANGED ambiguous
       \/ legacy["vol"] = Absent /\ NextStore /\ UNCHANGED ambiguous
       \/ /\ legacy["vol"] # Absent /\ OnBindMount
          /\ Goto("settle") /\ ambiguous' = FALSE
       \/ /\ legacy["vol"] # Absent /\ ~OnBindMount
          /\ ambiguous' = unsure
          /\ Goto(IF unsure THEN "drop" ELSE "copy")
    /\ UNCHANGED <<records, bytes, containers, history, calm>>

\* migrateManaged: the staging copy lies inside the directory whose emptiness is read.
ProbeMd ==
    LET begun == target["md"] # Absent \/ staging["md"] # Absent IN
    /\ At("md", "probe")
    /\ mustRemove' = FALSE /\ ambiguous' = FALSE
    /\ \/ Fail /\ UNCHANGED wasRunning
       \/ /\ new["md"] # "none" \/ (old["md"] = "none" /\ ~begun)
          /\ NextStore /\ UNCHANGED wasRunning
       \/ /\ new["md"] = "none" /\ old["md"] # "none"
          /\ wasRunning' = (old["md"] = "up")
          /\ Goto("stop")
       \/ /\ new["md"] = "none" /\ old["md"] = "none" /\ begun
          /\ wasRunning' = TRUE
          /\ Goto("run")
    /\ UNCHANGED <<records, bytes, containers, history, calm>>

\* A mutant of StopForCopy: the error of docker stop is swallowed and nothing is proved.
StopUnproved ==
    /\ pc = "stop"
    /\ \/ old' = [old EXCEPT ![arm] = "down"]
       \/ ~calm /\ UNCHANGED old
    /\ Goto(IF arm = "pg" /\ Complete(target["pg"]) THEN "drop" ELSE "copy")
    /\ UNCHANGED <<locals, records, bytes, new, history, calm>>

\* stopForCopy: only a container the probe reports stopped is copied.  The database's
\* copy is skipped when a whole one is in place already.
StopForCopy ==
    /\ pc = "stop"
    /\ \/ /\ old' = [old EXCEPT ![arm] = "down"]
          /\ Goto(IF arm = "pg" /\ Complete(target["pg"]) THEN "drop" ELSE "copy")
       \/ old' = [old EXCEPT ![arm] = "down"] /\ Fail
       \/ UNCHANGED old /\ Fail
    /\ UNCHANGED <<locals, records, bytes, new, history, calm>>

-------------------------------------------------------------------------------
\* copyIntoPlace.
Copy ==
    /\ pc = "copy"
    /\ staging' = [staging EXCEPT ![arm] = Partial]
    /\ Goto("walk")
    /\ UNCHANGED <<locals, records, legacy, target, containers, history, calm>>

\* Can the bytes change while they are walked?
Writer(a) == old[a] = "up" /\ (a # "vol" \/ LiveApps)

Walk ==
    /\ pc = "walk"
    /\ \/ Goto("clear") /\ staging' = [staging EXCEPT ![arm] = legacy[arm]]
       \/ Writer(arm) /\ Goto("clear") /\ staging' = [staging EXCEPT ![arm] = Torn]
       \/ Fail /\ UNCHANGED staging
    /\ UNCHANGED <<locals, records, legacy, target, containers, history, calm>>

\* The leftover at the destination goes, and then the staged copy is renamed onto it.
Clear ==
    /\ pc = "clear"
    /\ \/ target' = [target EXCEPT ![arm] = Absent] /\ Goto("promote")
       \/ UNCHANGED target /\ Fail
    /\ UNCHANGED <<locals, records, legacy, staging, containers, history, calm>>

Promote ==
    /\ pc = "promote"
    /\ \/ /\ target' = [target EXCEPT ![arm] = staging[arm]]
          /\ staging' = [staging EXCEPT ![arm] = Absent]
          /\ Goto("drop")
       \/ UNCHANGED <<target, staging>> /\ Fail
    /\ UNCHANGED <<locals, records, legacy, containers, history, calm>>

-------------------------------------------------------------------------------
\* docker rm -f -v of the old container, which takes its bytes along; for an app, the
\* rm -f of DockerCompute.deploy, which leaves its volume.  Errors are swallowed.
Drop ==
    /\ pc = "drop"
    /\ \/ /\ old' = [old EXCEPT ![arm] = "none"]
          /\ legacy' = IF arm = "vol" THEN legacy ELSE [legacy EXCEPT ![arm] = Absent]
       \/ ~calm /\ UNCHANGED <<old, legacy>>
    /\ Goto("run")
    /\ UNCHANGED <<locals, records, target, staging, new, history, calm>>

\* The replacement on the bind mount: `docker run`, or create and start.  It fails when
\* the name is taken; the database's own leftover is removed first.
NameFree == IF arm = "pg" THEN TRUE ELSE old[arm] = "none"
Started == IF arm = "vol" /\ ~wasRunning THEN "down" ELSE "up"

RemoveFresh ==
    /\ At("pg", "run") /\ mustRemove
    /\ mustRemove' = FALSE
    /\ \/ new' = [new EXCEPT !["pg"] = "none"] /\ UNCHANGED <<arm, pc>>
       \/ Fail /\ UNCHANGED new         \* still there, and `docker run` finds the name taken
    /\ UNCHANGED <<wasRunning, ambiguous, records, bytes, old, history, calm>>

Run ==
    /\ pc = "run" /\ ~mustRemove
    /\ \/ /\ NameFree
          /\ new' = [new EXCEPT ![arm] = Started]
          /\ Goto(IF arm = "pg" THEN "ready" ELSE "settle")
       \/ NameFree /\ new' = [new EXCEPT ![arm] = "down"] /\ Fail      \* created, not started
       \/ UNCHANGED new /\ (Fail \/ (~NameFree /\ Goto("serving")))
    /\ UNCHANGED <<locals, records, bytes, old, history, calm>>

\* pgWaitReady and pgAppendHba.
Ready ==
    /\ pc = "ready"
    /\ Goto("settle") \/ Fail
    /\ UNCHANGED <<locals, records, bytes, containers, history, calm>>

\* What ends each arm: the stop of a database that was not running and, for pg-db, the
\* row; for an app, `docker volume rm`, unless neither copy can be shown to be newer.
Settle ==
    /\ pc = "settle"
    /\ NextStore
    /\ \/ arm # "vol" /\ ~wasRunning /\ new' = [new EXCEPT ![arm] = "down"]
       \/ (arm = "vol" \/ wasRunning \/ ~calm) /\ UNCHANGED new
    /\ \/ arm = "vol" /\ ~ambiguous /\ legacy' = [legacy EXCEPT !["vol"] = Absent]
       \/ (arm # "vol" \/ ambiguous \/ ~calm) /\ UNCHANGED legacy
    /\ row' = IF arm = "pg" THEN "fresh" ELSE row
    /\ UNCHANGED <<locals, stamped, target, staging, old, history, calm>>

Stamp ==
    /\ pc = "stamp"
    /\ stamped' = TRUE
    /\ Goto("serving")
    /\ UNCHANGED <<locals, row, bytes, containers, history, calm>>

-------------------------------------------------------------------------------
\* The environment.
Kill ==
    /\ ~calm /\ pc \notin {"serving", "dead"}
    /\ Goto("dead")
    /\ UNCHANGED <<locals, records, bytes, containers, history, calm>>

\* A mutant of Boot: a branch that failed is not tried again.
BootOnce ==
    /\ pc = "dead"
    /\ arm' = "pg" /\ pc' = "probe"
    /\ UNCHANGED <<locals, records, bytes, containers, history, calm>>

\* main.ts runs the migration before the router and the scheduler start; a stamped
\* branch is skipped.
Boot ==
    /\ pc = "dead" \/ (pc = "serving" /\ ~stamped)
    /\ arm' = "pg" /\ pc' = "probe"
    /\ UNCHANGED <<locals, records, bytes, containers, history, calm>>

\* A connection wakes the container the row names, between two boots.
WakeOld(a) ==
    /\ pc = "serving" /\ a \in Woken /\ old[a] = "down" /\ new[a] = "none"
    /\ a = "pg" => row = "legacy"
    /\ old' = [old EXCEPT ![a] = "up"]
    /\ UNCHANGED <<arm, pc, locals, records, bytes, new, history, calm>>

\* Whoever is up writes; an app on its old volume does so during the pass only if
\* LiveApps.
Write(a) ==
    /\ newest[a] \in Version /\ newest[a] < MaxVersion
    /\ newest' = [newest EXCEPT ![a] = @ + 1]
    /\ \/ /\ new[a] = "up"
          /\ target' = [target EXCEPT ![a] = newest[a] + 1]
          /\ UNCHANGED <<legacy, staging>>
       \/ /\ new[a] # "up" /\ old[a] = "up" /\ (pc = "serving" \/ Writer(a))
          /\ legacy' = [legacy EXCEPT ![a] = newest[a] + 1]
          /\ UNCHANGED <<target, staging>>
    /\ UNCHANGED <<arm, pc, locals, records, containers, wanted, calm>>

Calm ==
    /\ ~calm
    /\ calm' = TRUE
    /\ UNCHANGED <<arm, pc, locals, records, bytes, containers, history>>

Pass ==
    \/ ProbePg \/ ProbeVol \/ ProbeMd \/ StopForCopy \/ Copy \/ Walk \/ Clear \/ Promote
    \/ Drop \/ RemoveFresh \/ Run \/ Ready \/ Settle \/ Stamp

Next == Pass \/ Kill \/ Boot \/ Calm \/ \E a \in Arm : WakeOld(a) \/ Write(a)

Spec == Init /\ [][Next]_vars

\* The pass runs on while the daemon lives, the operator restarts it, and docker
\* recovers one day.
FairSpec == Spec /\ WF_vars(Pass) /\ WF_vars(Boot) /\ WF_vars(Calm)

-------------------------------------------------------------------------------
TypeOK ==
    /\ arm \in Arm /\ pc \in PC
    /\ <<wasRunning, mustRemove, ambiguous, stamped, calm>> \in BOOLEAN \X BOOLEAN \X BOOLEAN \X BOOLEAN \X BOOLEAN
    /\ row \in {"legacy", "fresh"}
    /\ {legacy, target, staging} \subseteq [Arm -> {Absent, Partial, Torn} \cup Version]
    /\ {old, new} \subseteq [Arm -> Container]
    /\ newest \in [Arm -> {Absent} \cup Version] /\ wanted \in [Arm -> BOOLEAN]

\* Whatever was killed or failed so far, the last version a store wrote is still whole
\* in one of its two places: a source is removed only when its destination is good.
NothingLost == \A a \in Arm : newest[a] \in {legacy[a], target[a]}

\* A stamped branch is never looked at again: every store with data is served from the
\* data directory by its own container, and the row names the database's.
StampedIsMoved ==
    stamped => \A a \in Arm : newest[a] # Absent =>
        /\ target[a] = newest[a] /\ new[a] # "none"
        /\ a = "pg" => row = "fresh"

\* A container that is up is on whole bytes: neither a partial nor a torn copy runs.
RunsOnWhole == \A a \in Arm :
    /\ new[a] = "up" => target[a] \in Version
    /\ old[a] = "up" => legacy[a] \in Version

\* The last written bytes are always there, and only whole ones are run on.
BytesAreSafe == NothingLost /\ RunsOnWhole

\* "stopping one that was up is a silent outage on the boot path": a database that was up
\* before the migration is up when the branch is stamped.
IntentKept == stamped /\ wanted["pg"] => new["pg"] = "up"

\* Which copy of a store is the one that counts.
Home(a) ==
    LET moved == CASE a = "pg"  -> Whole(target["pg"])
                   [] a = "vol" -> new["vol"] # "none" \/ legacy["vol"] = Absent
                   [] a = "md"  -> legacy["md"] = Absent
    IN IF newest[a] # Absent /\ moved THEN "target" ELSE "legacy"
Bytes(a) == IF Home(a) = "target" THEN target[a] ELSE legacy[a]

Promise == INSTANCE DataMove WITH
    Store <- Arm, Version <- Version, sealed <- stamped,
    home <- [a \in Arm |-> Home(a)], value <- [a \in Arm |-> Bytes(a)]

\* The bytes that count change only by a write, and move without changing.
ImplementsDataMove == Promise!Spec

\* Once docker answers and nobody kills the daemon any more, the branch is migrated.
Finishes == <>stamped
===============================================================================
