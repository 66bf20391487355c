------------------------------ MODULE Runtime ------------------------------
(***************************************************************************)
(* What the daemon tells of its services, and from what.  The rows of the  *)
(* document hold the intent and the sleep mark; engine.ts projects them    *)
(* for the scheduler (serviceTargets) and keeps the projection until the   *)
(* routing revision moves, which a sleep mark does not make it do; docker  *)
(* knows what runs, and a snapshot of it is what stateOf answers from.     *)
(* runtimeHealth reads the rows first and docker after an await.           *)
(*                                                                         *)
(* One operation of a service at a time (module OpLock); here each has its *)
(* docker call (Land) and what it writes when that answered (Note).  What  *)
(* starts them, and who waits for them, is module Scheduler.               *)
(***************************************************************************)
EXTENDS FiniteSets, Integers

CONSTANTS
    RunSite,           \* branches
    DefaultSite,       \* the default one among them
    Compute, Database, \* services a branch may carry
    AlwaysOnDefault,   \* INSTA_OSS_ALWAYS_ON_DEFAULT
    Pins,              \* bound: what people set always-on to; Unset clears the setting
    MaxUnits,          \* bound: services built at once
    Unset

Intent == {"running", "stopped", "suspended"}

ASSUME RuntimeAssumption ==
    /\ DefaultSite \in RunSite /\ Compute \cap Database = {} /\ MaxUnits \in Nat \ {0}
    /\ AlwaysOnDefault \in BOOLEAN /\ Pins \subseteq {Unset, TRUE, FALSE}
    /\ Unset \notin [desired : Intent, slept : BOOLEAN, scale : BOOLEAN]
               \cup [alwaysOn : BOOLEAN, desired : Intent, slept : BOOLEAN]

Unit == RunSite \X (Compute \cup Database)
IsCompute(u) == u[2] \in Compute

VARIABLES
    row,     \* apps and databases: intent, sleep mark, scale to zero; or Unset
    pinned,  \* serviceSettings.alwaysOn, by compute service
    memo,    \* targetsCache: a projection, or Unset once the revision moved past it
    docker,  \* what each container does, "none" when there is none
    cause,   \* (ghost) why it does that
    seen,    \* the snapshot
    op,      \* the operation that holds the service's key, and where it is
    health   \* the runtime-health request in flight

rowVars == <<row, pinned, memo>>
runtimeVars == <<rowVars, docker, cause, seen, op, health>>

Idle == [verb |-> "none", at |-> "none"]
Unasked == [at |-> "idle", unit |-> Unset, row |-> Unset, calm |-> FALSE, cause |-> Unset, said |-> Unset]
RowOf(desired, slept) == [desired |-> desired, slept |-> slept, scale |-> TRUE]
-----------------------------------------------------------------------------
\* The rows projected for the scheduler.

EffectiveAlwaysOn(r, pins, u) ==
    CASE ~IsCompute(u) -> ~r[u].scale
      [] IsCompute(u) /\ pins[u[2]] # Unset -> pins[u[2]]
      [] OTHER -> u[1] = DefaultSite /\ AlwaysOnDefault

Projected(r, pins) ==
    [u \in Unit |-> IF r[u] = Unset THEN Unset ELSE
        [alwaysOn |-> EffectiveAlwaysOn(r, pins, u), desired |-> r[u].desired, slept |-> r[u].slept]]

\* serviceTargets: the kept list while the revision is its own, or a new one.
TargetsNow == IF memo # Unset THEN memo ELSE Projected(row, pinned)

\* A write of the routing class, after which nobody has looked yet.
Rewritten(r, pins) ==
    /\ row' = r /\ pinned' = pins
    /\ memo' = Unset

\* Mutant: the mark is only written to the row.
PatchedNot(list, u, mark) == list

\* markSlept, the second half: the kept list, whatever it is, is told.
Patched(list, u, mark) ==
    [list EXCEPT ![u] = IF @ = Unset THEN Unset ELSE [@ EXCEPT !.slept = mark]]

\* markSlept on the rows as r has them, and the look at the target that every hook takes
\* behind it (setCached).
Marked(r, u, mark, kept) ==
    /\ row' = [r EXCEPT ![u].slept = mark]
    /\ pinned' = pinned
    /\ memo' = IF kept THEN Patched(memo, u, mark) ELSE Projected(row', pinned)

Mark(u, mark) == Marked(row, u, mark, memo # Unset)
MarkWith(r, u, mark) == Marked(r, u, mark, FALSE)
-----------------------------------------------------------------------------
\* stateOf, and what people are told.

StateOf(u) ==
    CASE op[u].verb = "sleep" -> "asleep"
      [] op[u].verb \in {"wake", "start"} -> "starting"
      [] op[u].verb \notin {"sleep", "wake", "start"} ->
         IF TargetsNow[u] = Unset \/ seen[u] = "none" THEN "none"
         ELSE IF seen[u] \in {"running", "paused"} THEN seen[u]
         ELSE IF TargetsNow[u].slept /\ TargetsNow[u].desired = "running" THEN "asleep" ELSE "stopped"

\* rowRuntime, and liveState with other words
RowRuntime(u) ==
    CASE StateOf(u) = "running" -> "online"
      [] StateOf(u) \in {"asleep", "starting"} -> "asleep"
      [] StateOf(u) = "paused" -> "suspended"
      [] StateOf(u) \in {"stopped", "none"} -> StateOf(u)

\* Mutant: the mark is not asked.
OverlayWithoutMark(state, r, live) ==
    CASE state = "none" -> "none"
      [] state # "none" /\ live = "starting" -> "starting"
      [] state = "running" -> "healthy"
      [] state = "paused" -> "standby"
      [] state = "created" -> "starting"
      [] state = "exited" -> IF r.desired = "running" THEN "crashed" ELSE "standby"

\* healthOverlay
Overlay(state, r, live) ==
    CASE state = "none" -> "none"
      [] state # "none" /\ live = "starting" -> "starting"
      [] state = "running" /\ live # "starting" -> "healthy"
      [] state = "paused" /\ live # "starting" -> "standby"
      [] state = "created" /\ live # "starting" -> IF r.slept THEN "standby" ELSE "starting"
      [] state = "exited" /\ live # "starting" ->
            IF r.slept \/ r.desired # "running" THEN "standby" ELSE "crashed"

\* runtimeHealth of one service: its row now, docker's list when it answers.
AskHealth(u) ==
    /\ health.at = "idle" /\ row[u] # Unset
    /\ health' = [Unasked EXCEPT !.at = "listing", !.unit = u, !.row = row[u], !.calm = op[u] = Idle]
    /\ UNCHANGED <<rowVars, docker, cause, seen, op>>

ListHealth ==
    /\ health.at = "listing"
    /\ LET u == health.unit IN
       health' = [Unasked EXCEPT !.at = "said", !.calm = health.calm, !.cause = cause[u],
                                 !.said = Overlay(docker[u], health.row, StateOf(u))]
    /\ UNCHANGED <<rowVars, docker, cause, seen, op>>

HealthTold ==
    /\ health.at = "said" /\ health' = Unasked
    /\ UNCHANGED <<rowVars, docker, cause, seen, op>>

\* (ghost) an operation of u moves under a request about it
Disturb(u) == health' = [health EXCEPT !.calm = @ /\ ~(health.at = "listing" /\ health.unit = u)]
-----------------------------------------------------------------------------
\* Settings, and operations.

SetAlwaysOn(s, pin) ==
    /\ Rewritten(row, [pinned EXCEPT ![s] = pin])
    /\ UNCHANGED <<docker, cause, seen, op, health>>

\* patchDbScheduling: only a real change writes.
SetScaleToZero(u, scale) ==
    /\ ~IsCompute(u) /\ row[u] # Unset /\ row[u].scale # scale
    /\ Rewritten([row EXCEPT ![u].scale = scale], pinned)
    /\ UNCHANGED <<docker, cause, seen, op, health>>

\* Any request that reads the targets.
ReadTargets ==
    /\ memo' = TargetsNow
    /\ UNCHANGED <<row, pinned, docker, cause, seen, op, health>>

\* A listing: the sweep's, a wake's, a sleep's.
RefreshStates ==
    /\ seen' = docker
    /\ UNCHANGED <<rowVars, docker, cause, op, health>>

Begin(u, verb) ==
    /\ op[u] = Idle
    /\ op' = [op EXCEPT ![u] = [verb |-> verb, at |-> "docker"]]
    /\ Disturb(u)
    /\ UNCHANGED <<docker, seen>>

\* A standing intent takes a service out of the sweep, and refuses a wake; a start writes its
\* intent first.
BeginSleepOrWake(u) ==
    /\ row[u] # Unset /\ row[u].desired = "running"
    /\ \E verb \in {"sleep", "wake"} : Begin(u, verb)
    /\ UNCHANGED <<rowVars, cause>>

BeginLifecycle(u) ==
    /\ IsCompute(u) /\ row[u] # Unset
    /\ \/ \E verb \in {"stop", "suspend"} : Begin(u, verb) /\ UNCHANGED <<rowVars, cause>>
       \/ /\ Begin(u, "start")
          /\ Rewritten([row EXCEPT ![u].desired = "running"], pinned)
          /\ cause' = [cause EXCEPT ![u] = IF @ \in {"stopped", "rebuilt"} THEN "unnoted" ELSE @]

\* A deploy, a clone's deploy that is not started, a provision, a removal.
\* (MaxUnits)
Built == {u \in Unit : row[u] # Unset \/ op[u] # Idle \/ docker[u] # "none" \/ seen[u] # "none"}

BeginBuild(u) ==
    /\ Cardinality(Built \cup {u}) <= MaxUnits
    /\ \/ IsCompute(u) /\ Begin(u, "deploy")
       \/ IsCompute(u) /\ row[u] = Unset /\ u[1] # DefaultSite /\ Begin(u, "clone")
       \/ ~IsCompute(u) /\ row[u] = Unset /\ Begin(u, "provision")
       \/ row[u] # Unset /\ Begin(u, "remove")
    /\ UNCHANGED <<rowVars, cause>>

Doing(u, verbs) == op[u].at = "docker" /\ op[u].verb \in verbs

Docker(u, state, why) ==
    /\ docker' = [docker EXCEPT ![u] = state]
    /\ cause' = [cause EXCEPT ![u] = why]
    /\ op' = [op EXCEPT ![u].at = "landed"]
    /\ Disturb(u)
    /\ UNCHANGED <<rowVars, seen>>

\* The standing intent decides what a deploy leaves behind: a stopped one is created and not
\* started, a suspended one is started and paused again.
Rebuilt(u) ==
    CASE row[u] # Unset /\ row[u].desired = "stopped" -> <<"created", "rebuilt">>
      [] row[u] # Unset /\ row[u].desired = "suspended" -> <<"paused", "stopped">>
      [] OTHER -> <<"running", "up">>

Land(u) ==
    \/ Doing(u, {"sleep"}) /\ docker[u] = "running" /\ Docker(u, "exited", "slept")
    \/ Doing(u, {"sleep"}) /\ docker[u] = "created" /\ Docker(u, "created", "slept")
    \/ Doing(u, {"wake", "start"}) /\ docker[u] # "none" /\ Docker(u, "running", "up")
    \/ Doing(u, {"stop"}) /\ docker[u] # "none"
          /\ IF docker[u] = "created" THEN Docker(u, "created", "rebuilt") ELSE Docker(u, "exited", "stopped")
    \/ Doing(u, {"suspend"}) /\ docker[u] = "running" /\ Docker(u, "paused", "stopped")
    \/ Doing(u, {"deploy"}) /\ Docker(u, Rebuilt(u)[1], Rebuilt(u)[2])
    \/ Doing(u, {"clone"}) /\ Docker(u, "created", "slept")
    \/ Doing(u, {"provision"}) /\ Docker(u, "running", "provisioned")
    \/ Doing(u, {"remove"}) /\ Docker(u, "none", "gone")

\* A docker call that fails, or has nothing to do: nothing is written.  The deploy's old
\* container may be gone by then; a stop the scheduler gave up on may still land, and the
\* snapshot forgets its container; a wake may have started what never becomes ready.
Fail(u) ==
    /\ \/ Doing(u, {"sleep", "wake", "start", "stop", "suspend", "deploy", "remove"})
          /\ UNCHANGED <<docker, cause, seen>>
       \/ Doing(u, {"sleep"}) /\ docker[u] = "running"
          /\ \/ UNCHANGED <<docker, cause>>
             \/ docker' = [docker EXCEPT ![u] = "exited"] /\ cause' = [cause EXCEPT ![u] = "unnoted"]
          /\ seen' = [seen EXCEPT ![u] = "none"]
       \/ Doing(u, {"deploy"})
          /\ docker' = [docker EXCEPT ![u] = "none"] /\ cause' = [cause EXCEPT ![u] = "gone"]
          /\ UNCHANGED seen
       \/ op[u] = [verb |-> "wake", at |-> "landed"]
          /\ cause' = [cause EXCEPT ![u] = "unnoted"] /\ UNCHANGED <<docker, seen>>
    /\ op' = [op EXCEPT ![u] = Idle]
    /\ Disturb(u)
    /\ UNCHANGED rowVars

\* A suspended group's replacement is started, and the suspend behind it fails: the deploy
\* does, and what is true is recorded.
ReassertFails(u) ==
    /\ Doing(u, {"deploy"}) /\ row[u] # Unset /\ row[u].desired = "suspended"
    /\ docker' = [docker EXCEPT ![u] = "running"] /\ cause' = [cause EXCEPT ![u] = "up"]
    /\ seen' = [seen EXCEPT ![u] = "running"]
    /\ op' = [op EXCEPT ![u] = Idle]
    /\ MarkWith(row, u, FALSE) /\ Disturb(u)

\* afterDeploy, lifecycleLocked, onAsleep, onUp, onStopped, onPaused.
Note(u) ==
    /\ op[u].at = "landed"
    /\ op' = [op EXCEPT ![u] = Idle]
    /\ Disturb(u)
    /\ LET intent(desired) == [row EXCEPT ![u].desired = desired]
           built == IF row[u] = Unset THEN RowOf("running", FALSE) ELSE row[u]
       IN CASE op[u].verb = "sleep" -> Mark(u, TRUE)
            [] op[u].verb \in {"wake", "start"} -> Mark(u, FALSE)
            [] op[u].verb = "stop" -> MarkWith(intent("stopped"), u, FALSE)
            [] op[u].verb = "suspend" -> Rewritten(intent("suspended"), pinned)
            [] op[u].verb = "deploy" ->
                 IF built.desired = "suspended" THEN Rewritten([row EXCEPT ![u] = built], pinned)
                 ELSE MarkWith([row EXCEPT ![u] = built], u, FALSE)
            [] op[u].verb = "clone" -> MarkWith([row EXCEPT ![u] = built], u, TRUE)
            [] op[u].verb = "provision" -> Rewritten([row EXCEPT ![u] = built], pinned)
            [] op[u].verb = "remove" -> Rewritten([row EXCEPT ![u] = Unset], pinned)
    /\ seen' = [seen EXCEPT ![u] =
          CASE op[u].verb = "provision" -> @
            [] op[u].verb # "provision" /\ docker[u] = "created" -> "exited"
            [] OTHER -> docker[u]]
    /\ UNCHANGED <<docker, cause>>

\* A container exits by itself.
Die(u) ==
    /\ docker[u] = "running"
    /\ docker' = [docker EXCEPT ![u] = "exited"]
    /\ cause' = [cause EXCEPT ![u] = IF @ = "unnoted" THEN @ ELSE "died"]
    /\ UNCHANGED <<rowVars, seen, op, health>>

\* The daemon is killed and comes back: docker goes on; marks on running containers go.
Restart ==
    /\ op' = [u \in Unit |-> Idle] /\ health' = Unasked
    /\ cause' = [u \in Unit |-> IF op[u].at = "landed" THEN "unnoted" ELSE cause[u]]
    /\ seen' = docker
    /\ row' = [u \in Unit |-> IF row[u] # Unset /\ docker[u] = "running"
                              THEN [row[u] EXCEPT !.slept = FALSE] ELSE row[u]]
    /\ memo' = Unset
    /\ UNCHANGED <<pinned, docker>>

RuntimeInit ==
    /\ row = [u \in Unit |-> Unset] /\ pinned = [s \in Compute |-> Unset]
    /\ memo = Unset
    /\ docker = [u \in Unit |-> "none"] /\ seen = docker
    /\ cause = [u \in Unit |-> "gone"]
    /\ op = [u \in Unit |-> Idle]
    /\ health = Unasked

RuntimeNext ==
    \/ \E s \in Compute, pin \in Pins : SetAlwaysOn(s, pin)
    \/ ReadTargets \/ RefreshStates \/ ListHealth \/ HealthTold \/ Restart
    \/ \E u \in Unit :
          \/ AskHealth(u) \/ \E scale \in BOOLEAN : SetScaleToZero(u, scale)
          \/ BeginSleepOrWake(u) \/ BeginLifecycle(u) \/ BeginBuild(u)
          \/ Land(u) \/ Fail(u) \/ ReassertFails(u) \/ Note(u) \/ Die(u)

RuntimeSpec == RuntimeInit /\ [][RuntimeNext]_runtimeVars
-----------------------------------------------------------------------------
\* The kept projection is what a new one would be, though a mark is written, by whatever
\* operation, without moving the revision it is kept by.
TargetsAreCurrent == memo # Unset => memo = Projected(row, pinned)

\* With no operation on the service while the request ran, its health is the truth: crashed
\* is said only of a container that exited by itself, standby of one somebody put down, and
\* healthy of one that runs.  (A deploy of a stopped group is not in this: see below.)
HealthIsTrue ==
    health.at = "said" /\ health.calm =>
        /\ health.said = "crashed" => health.cause \in {"died", "unnoted"}
        /\ health.cause \in {"slept", "stopped"} => health.said = "standby"
        /\ health.cause \in {"up", "provisioned"} => health.said = "healthy"

\* Between operations the runtime column says asleep of exactly what the scheduler put down
\* and stopped of what a developer did, through failures, clones and restarts of the daemon.
ColumnIsTrue ==
    \A u \in Unit :
        op[u] = Idle /\ row[u] # Unset /\ seen[u] # "none" =>
            /\ cause[u] = "slept" => RowRuntime(u) = "asleep"
            /\ cause[u] = "stopped" => RowRuntime(u) \in {"stopped", "suspended"}
            /\ cause[u] = "up" => RowRuntime(u) = "online"
            /\ cause[u] = "died" => RowRuntime(u) \in {"online", "stopped"}

RuntimeHolds == TargetsAreCurrent /\ HealthIsTrue /\ ColumnIsTrue

\* What does not hold.  The rows are read before docker answers, and the mark is written after
\* docker stop returned: a service being put to sleep reads as crashed.
CrashedIsTrue == health.at = "said" /\ health.said = "crashed" => health.cause = "died"

\* And a group deployed while stopped reads as starting for as long as it stays stopped.
StoppedIsStandby == health.at = "said" /\ health.calm /\ health.cause = "rebuilt" => health.said = "standby"
=============================================================================
