------------------------------ MODULE Scheduler ------------------------------
(***************************************************************************)
(* The scale-to-zero scheduler of src/src/scheduler.ts together with what  *)
(* drives it: the lanes that hold and wake (src/src/router), the engine's  *)
(* compute lifecycle and always-on setting (src/src/engine.ts), the        *)
(* sweep, and docker.  One key per service; the key's lock is the queue    *)
(* that KeyLock promises and OpLock implements, for one key.               *)
(*                                                                         *)
(* The daemon is one event loop: an action is everything between two       *)
(* awaits of one task, so that tasks interleave exactly where they await.  *)
(* Time is abstracted to what the rules compare: a service is hot while    *)
(* its last activity is inside two touch debounces, idle once its idle     *)
(* window and create grace have passed, and warm in between.               *)
(***************************************************************************)
EXTENDS Integers, Sequences, FiniteSets

CONSTANTS
    Svc,              \* services: compute groups and databases with a container
    Compute,          \* those of them that are compute
    Req,              \* client requests and connections
    Target,           \* the service each of them is for
    Sweep,            \* the sweep, as the initiator of a sleep
    Verbs,            \* the engine operations of the instance
    Toggled,          \* services whose always-on setting changes
    Faults,           \* the docker calls that may fail, and "crash"
    Total,            \* memory, in containers
    Floor,            \* the memory floor, in containers; 0 turns eviction off
    SleepConcurrency, \* how many idle services the sweep stops at once
    MaxQueue          \* bound: operations waiting for one key

ASSUME SchedulerAssumption ==
    /\ Compute \subseteq Svc
    /\ IsFiniteSet(Svc)
    /\ Target \in [Req -> Svc]
    /\ Sweep \notin Svc
    /\ Verbs \subseteq {"start", "stop", "suspend", "manage"}
    /\ Toggled \subseteq Svc
    /\ Faults \subseteq {"read", "stop", "start", "pause", "ready", "crash"}
    /\ Total \in Nat /\ Floor \in Nat
    /\ SleepConcurrency \in Nat \ {0}
    /\ MaxQueue \in Nat

VARIABLES
    docker,    \* what each container does
    cache,     \* the last snapshot's entry for it, "none" when there is no entry
    slept,     \* sleptAt is set on the row
    desired,   \* desiredState of the row
    alwaysOn,  \* the effective always-on setting
    activity,  \* how long ago lastActiveAt is
    protect,   \* wokeAt lies within the wake protection
    queue,     \* the operations waiting for the key
    kind,      \* the operation that holds the key, "none" when it is free
    pc,        \* where that operation is
    by,        \* who put a sleep there: the sweep or a waking service
    flight,    \* the wakes map: no entry, a queued wake, or an inline one
    pass,      \* an eviction pass: the victims tried, its baseline plus what it freed
    rpc,       \* where a request is
    sweep,     \* where the sweep is
    captured,  \* services the sweep captured as running by intent and not always-on
    todo       \* idle candidates the sweep has not come to yet

rows == <<slept, desired, alwaysOn>>
clockVars == <<activity, protect>>
locks == <<queue, kind, pc, by, flight>>
sweepVars == <<sweep, captured, todo>>
vars == <<docker, cache, rows, clockVars, locks, pass, rpc, sweepVars>>

Container == {"running", "restarting", "paused", "exited"}
SleepKinds == {"idle", "memory"}
InlineKinds == {"start", "always", "manage"}
Ops == {"traffic", "always", "start", "stop", "suspend", "manage"}

NoPass == [tried |-> {}, credit |-> 0, failed |-> FALSE]

\* Boot, after reconcile: the rows agree with docker, every clock starts afresh.
BootStates ==
    {[docker |-> "running", slept |-> FALSE, desired |-> "running"],
     [docker |-> "exited", slept |-> TRUE, desired |-> "running"],
     [docker |-> "exited", slept |-> FALSE, desired |-> "stopped"]}

Init ==
    \E boot \in [Svc -> BootStates] :
        /\ \A s \in Svc \ Compute : boot[s].desired = "running"
        /\ docker = [s \in Svc |-> boot[s].docker]
        /\ cache = [s \in Svc |-> boot[s].docker]
        /\ slept = [s \in Svc |-> boot[s].slept]
        /\ desired = [s \in Svc |-> boot[s].desired]
        /\ alwaysOn = [s \in Svc |-> FALSE]
        /\ activity = [s \in Svc |-> "hot"]
        /\ protect = [s \in Svc |-> FALSE]
        /\ queue = [s \in Svc |-> <<>>]
        /\ kind = [s \in Svc |-> "none"]
        /\ pc = [s \in Svc |-> "none"]
        /\ by = [s \in Svc |-> Sweep]
        /\ flight = [s \in Svc |-> "no"]
        /\ pass = [p \in Svc \cup {Sweep} |-> NoPass]
        /\ rpc = [r \in Req |-> "none"]
        /\ sweep = "off"
        /\ captured = {}
        /\ todo = {}

-------------------------------------------------------------------------------
\* Questions the scheduler asks itself.

\* The sleeping set: marked first, for all of the stop.  (Mutant: marked after the read.)
SleepingLate(s) == kind[s] \in SleepKinds /\ pc[s] = "stop"
Sleeping(s) == kind[s] \in SleepKinds

Busy(s) == kind[s] # "none" \/ queue[s] # <<>> \/ flight[s] # "no"

Holders(s) == {r \in Req : rpc[r] # "none" /\ Target[r] = s}

StateOf(s) ==
    IF Sleeping(s) THEN "asleep"
    ELSE IF flight[s] # "no" \/ cache[s] = "restarting" THEN "starting"
    ELSE IF cache[s] = "exited"
         THEN IF slept[s] /\ desired[s] = "running" THEN "asleep" ELSE "stopped"
    ELSE cache[s]

Refuses(s, op) == op = "traffic" /\ s \in Compute /\ desired[s] # "running"

\* runtime.memory(): a container holds its memory from its start to its exit.
Available == Total - Cardinality({s \in Svc : docker[s] # "exited"})

\* isIdleCandidate, of a target that was captured as sleepable or not.
IsIdleCandidate(s, sleepable) ==
    cache[s] = "running" /\ sleepable /\ ~Busy(s) /\ activity[s] = "idle"

IsVictim(s, p) ==
    /\ s # p /\ s \notin pass[p].tried
    /\ cache[s] = "running"
    /\ ~alwaysOn[s] /\ desired[s] = "running"
    /\ ~Busy(s)
    /\ Holders(s) = {}
    /\ activity[s] # "hot"
    /\ ~protect[s]

Pool(p) == {s \in Svc : IsVictim(s, p)}

Age(s) == CASE activity[s] = "hot" -> 0 [] activity[s] = "warm" -> 1 [] OTHER -> 2

\* The first of a set of services in least-recently-active order.
Coldest(S) == {s \in S : \A t \in S : Age(t) <= Age(s)}

\* The room rule of one turn of an eviction pass: what the runtime reports, or the
\* pass's own baseline plus what it freed, whichever is larger.
HasRoom(p, need) ==
    \/ Floor = 0
    \/ Available - need >= Floor
    \/ pass[p].credit - need >= Floor

-------------------------------------------------------------------------------
\* The key's lock.

Wait(s, op) == queue' = [queue EXCEPT ![s] = Append(@, op)]

Begin(s, op, at) ==
    /\ kind' = [kind EXCEPT ![s] = op]
    /\ pc' = [pc EXCEPT ![s] = at]

End(s) ==
    /\ kind' = [kind EXCEPT ![s] = "none"]
    /\ pc' = [pc EXCEPT ![s] = "none"]

Goto(s, at) == pc' = [pc EXCEPT ![s] = at] /\ UNCHANGED <<queue, kind, by, flight>>

\* tryWithOp, taken by a sleep of every service of S in one synchronous step.
BeginSleeps(S, reason, p) ==
    /\ kind' = [s \in Svc |-> IF s \in S THEN reason ELSE kind[s]]
    /\ pc' = [s \in Svc |-> IF s \in S THEN "read" ELSE pc[s]]
    /\ by' = [s \in Svc |-> IF s \in S THEN p ELSE by[s]]
    /\ UNCHANGED <<queue, flight>>

\* Whoever waits for a wake of s is answered: to go on, or with an error.
Settle(s, ok) ==
    rpc' = [r \in Req |-> IF Target[r] = s /\ rpc[r] = "wait"
                          THEN IF ok THEN "woken" ELSE "none" ELSE rpc[r]]

\* (Mutant: an inline wake clears an entry that is not its own.)
EndWakeClearing(s, ok) ==
    /\ IF kind[s] = "manage" /\ ok
       THEN pc' = [pc EXCEPT ![s] = "query"] /\ UNCHANGED kind
       ELSE End(s)
    /\ flight' = [flight EXCEPT ![s] = "no"]
    /\ IF kind[s] = "traffic" THEN Settle(s, ok) ELSE UNCHANGED rpc
    /\ UNCHANGED <<queue, by>>

\* The end of wakeLocked: a queued wake clears the map's entry for its key, an inline one
\* only its own, and an operation with something left to do goes on holding the key.
EndWake(s, ok) ==
    /\ IF kind[s] = "manage" /\ ok
       THEN pc' = [pc EXCEPT ![s] = "query"] /\ UNCHANGED kind
       ELSE End(s)
    /\ IF kind[s] = "traffic" \/ flight[s] = "inline"
       THEN flight' = [flight EXCEPT ![s] = "no"] /\ Settle(s, ok)
       ELSE UNCHANGED <<flight, rpc>>
    /\ UNCHANGED <<queue, by>>

\* An inline wake is reported as starting unless a queued wake is in the map already.
InlineFlight(s) == flight' = [flight EXCEPT ![s] = IF @ = "no" THEN "inline" ELSE @]

\* absorb: a full listing replaces the snapshot.
Read == cache' = docker

\* onUp; onAsleep and onStopped.
OnUp(s) ==
    /\ activity' = [activity EXCEPT ![s] = "hot"]
    /\ protect' = [protect EXCEPT ![s] = TRUE]
    /\ cache' = [cache EXCEPT ![s] = "running"]
    /\ slept' = [slept EXCEPT ![s] = FALSE]

OnAsleep(s) ==
    slept' = [slept EXCEPT ![s] = TRUE] /\ cache' = [cache EXCEPT ![s] = "exited"]

OnStopped(s) ==
    slept' = [slept EXCEPT ![s] = FALSE] /\ cache' = [cache EXCEPT ![s] = "exited"]

Touch(s) == activity' = [activity EXCEPT ![s] = "hot"]
FirstTurn(p) == pass' = [pass EXCEPT ![p] = [NoPass EXCEPT !.credit = Available]]
LastTurn(p) == pass' = [pass EXCEPT ![p] = NoPass]

\* The victim or the batch that p has put to sleep is still stopping.
InProgress(p) == \E s \in Svc : kind[s] \in SleepKinds /\ by[s] = p

\* One turn of evictForRoom that finds no room: the least recently active victim.
Evict(p) ==
    \E v \in Coldest(Pool(p)) :
        /\ BeginSleeps({v}, "memory", p)
        /\ pass' = [pass EXCEPT ![p].tried = @ \cup {v}]

-------------------------------------------------------------------------------
\* The operation that holds a key.

\* The head of the queue gets the key.  A start writes the intent first; the sweep's
\* always-on wake checks the setting once more, now that it holds the key.
Grant(s) ==
    LET op == Head(queue[s]) IN
    /\ kind[s] = "none" /\ queue[s] # <<>>
    /\ queue' = [queue EXCEPT ![s] = Tail(@)]
    /\ \/ op = "traffic" /\ Begin(s, op, "look") /\ UNCHANGED <<flight, desired>>
       \/ op = "manage" /\ Begin(s, op, "look") /\ InlineFlight(s) /\ UNCHANGED desired
       \/ /\ op = "always"
          /\ IF alwaysOn[s] /\ desired[s] = "running" /\ StateOf(s) = "asleep"
             THEN Begin(s, op, "look") /\ InlineFlight(s)
             ELSE UNCHANGED <<kind, pc, flight>>
          /\ UNCHANGED desired
       \/ /\ op = "start" /\ Begin(s, op, "hint") /\ UNCHANGED flight
          /\ desired' = [desired EXCEPT ![s] = "running"]
       \/ op \in {"stop", "suspend"} /\ Begin(s, op, "act") /\ UNCHANGED <<flight, desired>>
    /\ UNCHANGED <<docker, cache, slept, alwaysOn, clockVars, by, pass, rpc, sweepVars>>

\* wakeLocked: the intent again, then one docker read.
ReadUnlessRefused(s, refused) ==
    /\ \/ /\ ~refused
          /\ Read
          /\ CASE docker[s] = "running" -> Goto(s, "probe") /\ UNCHANGED <<pass, rpc>>
               [] docker[s] = "restarting" -> Goto(s, "ready") /\ UNCHANGED <<pass, rpc>>
               [] docker[s] = "exited" -> Goto(s, "evict") /\ FirstTurn(s) /\ UNCHANGED rpc
               [] OTHER -> /\ IF kind[s] = "traffic" THEN EndWake(s, FALSE)
                              ELSE Goto(s, "unpause") /\ UNCHANGED rpc
                           /\ UNCHANGED pass
       \/ /\ refused \/ "read" \in Faults
          /\ EndWake(s, FALSE)
          /\ UNCHANGED <<cache, pass>>
    /\ UNCHANGED <<docker, rows, clockVars, sweepVars>>

\* (Mutants: the intent seen before the lock is trusted; an inline wake joins the queued one.)
LookTrusting(s) == pc[s] = "look" /\ ReadUnlessRefused(s, FALSE)
LookJoining(s) ==
    /\ pc[s] = "look" /\ (kind[s] \in InlineKinds => flight[s] # "wake")
    /\ ReadUnlessRefused(s, Refuses(s, kind[s]))
Look(s) == pc[s] = "look" /\ ReadUnlessRefused(s, Refuses(s, kind[s]))

\* A container that was already running: ready is enough, no start.
Probe(s) ==
    /\ pc[s] = "probe"
    /\ \/ /\ docker[s] = "running"
          /\ Touch(s)
          /\ slept' = [slept EXCEPT ![s] = FALSE]
          /\ EndWake(s, TRUE)
       \/ /\ docker[s] # "running" \/ "ready" \in Faults
          /\ Goto(s, "ready")
          /\ UNCHANGED <<slept, activity, rpc>>
    /\ UNCHANGED <<docker, cache, desired, alwaysOn, protect, pass, sweepVars>>

Unpause(s) ==
    /\ pc[s] = "unpause"
    /\ \/ /\ docker' = [docker EXCEPT ![s] = "running"]
          /\ Goto(s, "ready")
          /\ UNCHANGED rpc
       \/ "start" \in Faults /\ EndWake(s, FALSE) /\ UNCHANGED docker
    /\ UNCHANGED <<cache, rows, clockVars, pass, sweepVars>>

\* Room first: evictForRoom on behalf of the wake of s, one turn at a time.
MakeRoom(s) ==
    /\ pc[s] = "evict" /\ ~InProgress(s)
    /\ \/ /\ pass[s].failed
          /\ EndWake(s, FALSE)
          /\ LastTurn(s)
       \/ /\ ~pass[s].failed
          /\ HasRoom(s, 1) \/ Pool(s) = {}
          /\ Goto(s, "start")
          /\ LastTurn(s)
          /\ UNCHANGED rpc
       \/ /\ ~pass[s].failed /\ ~HasRoom(s, 1)
          /\ Evict(s)
          /\ UNCHANGED rpc
    /\ UNCHANGED <<docker, cache, rows, clockVars, sweepVars>>

\* runtime.start: a call that fails or times out may have started the container.
StartContainer(s) ==
    /\ pc[s] = "start"
    /\ \/ /\ docker' = [docker EXCEPT ![s] = "running"]
          /\ Goto(s, "ready")
          /\ UNCHANGED rpc
       \/ /\ "start" \in Faults
          /\ docker' \in {docker, [docker EXCEPT ![s] = "running"]}
          /\ EndWake(s, FALSE)
    /\ UNCHANGED <<cache, rows, clockVars, pass, sweepVars>>

\* awaitReady, then onUp; or the deadline.
AwaitReady(s) ==
    /\ pc[s] = "ready"
    /\ \/ /\ docker[s] = "running"
          /\ OnUp(s)
          /\ EndWake(s, TRUE)
       \/ /\ docker[s] # "running" \/ "ready" \in Faults
          /\ EndWake(s, FALSE)
          /\ UNCHANGED <<cache, slept, clockVars>>
    /\ UNCHANGED <<docker, desired, alwaysOn, pass, sweepVars>>

\* lifecycleLocked, start: the adapter's start is a hint, the inline wake is the authority.
Hint(s) ==
    /\ pc[s] = "hint"
    /\ \/ docker' = [docker EXCEPT ![s] = IF @ = "restarting" THEN @ ELSE "running"]
       \/ "start" \in Faults /\ UNCHANGED docker
    /\ pc' = [pc EXCEPT ![s] = "look"]
    /\ InlineFlight(s)
    /\ UNCHANGED <<cache, rows, clockVars, queue, kind, by, pass, rpc, sweepVars>>

\* lifecycleLocked, stop and suspend: the row and the snapshot are written from the outcome.
Stop(s) ==
    /\ pc[s] = "act" /\ kind[s] = "stop"
    /\ \/ /\ docker' = [docker EXCEPT ![s] = "exited"]
          /\ desired' = [desired EXCEPT ![s] = "stopped"]
          /\ OnStopped(s)
       \/ /\ "stop" \in Faults
          /\ \E d \in {docker[s], "exited", IF docker[s] = "paused" THEN "running" ELSE docker[s]} :
                docker' = [docker EXCEPT ![s] = d]
          /\ UNCHANGED <<cache, slept, desired>>
    /\ End(s)
    /\ UNCHANGED <<alwaysOn, clockVars, queue, by, flight, pass, rpc, sweepVars>>

Suspend(s) ==
    /\ pc[s] = "act" /\ kind[s] = "suspend"
    /\ \/ /\ docker[s] = "running"
          /\ docker' = [docker EXCEPT ![s] = "paused"]
          /\ desired' = [desired EXCEPT ![s] = "suspended"]
          /\ cache' = [cache EXCEPT ![s] = "paused"]
       \/ /\ docker[s] # "running" \/ "pause" \in Faults
          /\ UNCHANGED <<docker, desired, cache>>
    /\ End(s)
    /\ UNCHANGED <<slept, alwaysOn, clockVars, queue, by, flight, pass, rpc, sweepVars>>

\* pgManage: the query that the inline wake was for.
Query(s) ==
    /\ pc[s] = "query"
    /\ End(s)
    /\ UNCHANGED <<docker, cache, rows, clockVars, queue, by, flight, pass, rpc, sweepVars>>

\* The end of a sleep: an eviction pass counts what it freed, or fails with it.
EndSleep(s, freed, failed) ==
    /\ End(s)
    /\ by' = [by EXCEPT ![s] = Sweep]
    /\ IF kind[s] = "memory"
       THEN pass' = [pass EXCEPT ![by[s]].credit = @ + freed, ![by[s]].failed = failed]
       ELSE UNCHANGED pass
    /\ UNCHANGED <<queue, flight>>

\* sleep: only what docker says is running is stopped.
SleepRead(s) ==
    /\ kind[s] \in SleepKinds /\ pc[s] = "read"
    /\ \/ /\ Read
          /\ IF docker[s] = "running" THEN Goto(s, "stop") /\ UNCHANGED pass
             ELSE EndSleep(s, 0, FALSE)
       \/ "read" \in Faults /\ EndSleep(s, 0, TRUE) /\ UNCHANGED cache
    /\ UNCHANGED <<docker, rows, clockVars, rpc, sweepVars>>

\* A stop that fails may still have landed: the snapshot's entry is dropped.
SleepStop(s) ==
    /\ kind[s] \in SleepKinds /\ pc[s] = "stop"
    /\ \/ /\ docker' = [docker EXCEPT ![s] = "exited"]
          /\ OnAsleep(s)
          /\ EndSleep(s, 1, FALSE)
       \/ /\ "stop" \in Faults
          /\ docker' \in {docker, [docker EXCEPT ![s] = "exited"]}
          /\ cache' = [cache EXCEPT ![s] = "none"]
          /\ EndSleep(s, 0, TRUE)
          /\ UNCHANGED slept
    /\ UNCHANGED <<desired, alwaysOn, clockVars, rpc, sweepVars>>

-------------------------------------------------------------------------------
\* The engine's callers.

Call(s, op) ==
    /\ op \in Verbs
    /\ op = "manage" <=> s \notin Compute
    /\ Len(queue[s]) < MaxQueue
    /\ Wait(s, op)
    /\ UNCHANGED <<docker, cache, rows, clockVars, kind, pc, by, flight, pass, rpc, sweepVars>>

\* setAlwaysOn takes no lock: it moves no container.
SetAlwaysOn(s) ==
    /\ s \in Toggled
    /\ alwaysOn' = [alwaysOn EXCEPT ![s] = ~@]
    /\ UNCHANGED <<docker, cache, slept, desired, clockVars, locks, pass, rpc, sweepVars>>

-------------------------------------------------------------------------------
\* The lanes: touch and hold first, then resolve, and wake what is not running.

Arrive(r) ==
    LET s == Target[r] IN
    /\ rpc[r] = "none"
    /\ s \in Compute => desired[s] = "running"
    /\ Touch(s)
    /\ rpc' = [rpc EXCEPT ![r] = "resolving"]
    /\ UNCHANGED <<docker, cache, rows, protect, locks, pass, sweepVars>>

\* resolveOrWake.  A refused address takes the wake path as well (forceWake).
Resolve(r) ==
    LET s == Target[r] IN
    /\ rpc[r] = "resolving"
    /\ \/ /\ StateOf(s) = "running" /\ docker[s] = "running"
          /\ rpc' = [rpc EXCEPT ![r] = "serving"]
          /\ UNCHANGED <<queue, flight>>
       \/ /\ ~(StateOf(s) = "running" /\ docker[s] = "running")
          /\ Refuses(s, "traffic")
          /\ rpc' = [rpc EXCEPT ![r] = "none"]
          /\ UNCHANGED <<queue, flight>>
       \/ /\ ~(StateOf(s) = "running" /\ docker[s] = "running")
          /\ ~Refuses(s, "traffic")
          /\ rpc' = [rpc EXCEPT ![r] = "wait"]
          /\ IF flight[s] = "no"
             THEN flight' = [flight EXCEPT ![s] = "wake"] /\ Wait(s, "traffic")
             ELSE UNCHANGED <<queue, flight>>
    /\ UNCHANGED <<docker, cache, rows, clockVars, kind, pc, by, pass, sweepVars>>

\* Resolved again after the wake; no address is an error.
Woken(r) ==
    /\ rpc[r] = "woken"
    /\ rpc' = [rpc EXCEPT ![r] = IF docker[Target[r]] = "running" THEN "serving" ELSE "none"]
    /\ UNCHANGED <<docker, cache, rows, clockVars, locks, pass, sweepVars>>

\* The response or splice closes; a caller's own bound ends its wait, never the work.
Leave(r) ==
    /\ rpc[r] \in {"serving", "wait"}
    /\ rpc' = [rpc EXCEPT ![r] = "none"]
    /\ UNCHANGED <<docker, cache, rows, clockVars, locks, pass, sweepVars>>

-------------------------------------------------------------------------------
\* The sweep.

SweepBegin ==
    /\ sweep = "off"
    /\ Read \/ ("read" \in Faults /\ UNCHANGED cache)
    /\ captured' = {s \in Svc : ~alwaysOn[s] /\ desired[s] = "running"}
    /\ sweep' = "stats"
    /\ UNCHANGED <<docker, rows, clockVars, locks, pass, rpc, todo>>

SweepCollect ==
    /\ sweep = "stats"
    /\ todo' = {s \in Svc : IsIdleCandidate(s, s \in captured)}
    /\ sweep' = "idle"
    /\ UNCHANGED <<docker, cache, rows, clockVars, locks, pass, rpc, captured>>

\* One batch, least recently active first; the rule is read again for each candidate,
\* with the target as it was captured, in the step that reserves its key.
SweepBatch ==
    /\ sweep = "idle" /\ todo # {} /\ ~InProgress(Sweep)
    /\ \E batch \in SUBSET todo :
          /\ Cardinality(batch) = IF Cardinality(todo) < SleepConcurrency
                                  THEN Cardinality(todo) ELSE SleepConcurrency
          /\ \A s \in batch, t \in todo \ batch : Age(t) <= Age(s)
          /\ BeginSleeps({s \in batch : IsIdleCandidate(s, s \in captured)}, "idle", Sweep)
          /\ todo' = todo \ batch
    /\ UNCHANGED <<docker, cache, rows, clockVars, pass, rpc, sweep, captured>>

\* The always-on pass reads its targets afresh and does not wait for its wakes.
SweepWakes ==
    /\ sweep = "idle" /\ todo = {} /\ ~InProgress(Sweep)
    /\ queue' = [s \in Svc |->
                   IF alwaysOn[s] /\ desired[s] = "running" /\ ~Busy(s) /\ StateOf(s) = "asleep"
                   THEN Append(queue[s], "always") ELSE queue[s]]
    /\ captured' = {}
    /\ sweep' = "refresh"
    /\ UNCHANGED <<docker, cache, rows, clockVars, kind, pc, by, flight, pass, rpc, todo>>

SweepRefresh ==
    /\ sweep = "refresh"
    /\ Read \/ ("read" \in Faults /\ UNCHANGED cache)
    /\ FirstTurn(Sweep)
    /\ sweep' = "evict"
    /\ UNCHANGED <<docker, rows, clockVars, locks, rpc, captured, todo>>

\* The memory-pressure pass.
SweepEvict ==
    /\ sweep = "evict" /\ ~InProgress(Sweep)
    /\ \/ /\ pass[Sweep].failed \/ HasRoom(Sweep, 0) \/ Pool(Sweep) = {}
          /\ sweep' = "off"
          /\ LastTurn(Sweep)
          /\ UNCHANGED locks
       \/ /\ ~pass[Sweep].failed /\ ~HasRoom(Sweep, 0)
          /\ Evict(Sweep)
          /\ UNCHANGED sweep
    /\ UNCHANGED <<docker, cache, rows, clockVars, rpc, captured, todo>>

-------------------------------------------------------------------------------
\* Time and docker.

\* The lanes' ticker stamps every held key again before it cools down.
Cool(s) ==
    /\ activity[s] # "idle" /\ Holders(s) = {}
    /\ activity' = [activity EXCEPT ![s] = IF @ = "hot" THEN "warm" ELSE "idle"]
    /\ UNCHANGED <<docker, cache, rows, protect, locks, pass, rpc, sweepVars>>

ProtectionEnds(s) ==
    /\ protect[s]
    /\ protect' = [protect EXCEPT ![s] = FALSE]
    /\ UNCHANGED <<docker, cache, rows, activity, locks, pass, rpc, sweepVars>>

\* --restart unless-stopped: a container that dies on its own is started again.
Crash(s) ==
    /\ "crash" \in Faults /\ docker[s] = "running"
    /\ docker' = [docker EXCEPT ![s] = "restarting"]
    /\ UNCHANGED <<cache, rows, clockVars, locks, pass, rpc, sweepVars>>

Recover(s) ==
    /\ docker[s] = "restarting"
    /\ docker' = [docker EXCEPT ![s] = "running"]
    /\ UNCHANGED <<cache, rows, clockVars, locks, pass, rpc, sweepVars>>

-------------------------------------------------------------------------------
Operate(s) ==
    \/ Grant(s) \/ Look(s) \/ Probe(s) \/ Unpause(s) \/ MakeRoom(s) \/ StartContainer(s)
    \/ AwaitReady(s) \/ Hint(s) \/ Stop(s) \/ Suspend(s) \/ Query(s)
    \/ SleepRead(s) \/ SleepStop(s)

Sweeping == SweepBegin \/ SweepCollect \/ SweepBatch \/ SweepWakes \/ SweepRefresh \/ SweepEvict

Next ==
    \/ \E s \in Svc : \/ Operate(s) \/ SetAlwaysOn(s) \/ Cool(s) \/ ProtectionEnds(s)
                      \/ Crash(s) \/ Recover(s)
                      \/ \E op \in Verbs : Call(s, op)
    \/ \E r \in Req : Arrive(r) \/ Resolve(r) \/ Woken(r) \/ Leave(r)
    \/ Sweeping

Spec == Init /\ [][Next]_vars

\* Every await inside an operation ends (docker calls and the readiness wait have their
\* own deadlines), the interval keeps ticking, and the clock runs.
FairSpec ==
    /\ Spec
    /\ \A s \in Svc : WF_vars(Operate(s)) /\ WF_vars(Recover(s))
    /\ \A r \in Req : WF_vars(Resolve(r)) /\ WF_vars(Woken(r))
    /\ WF_vars(Sweeping)
-------------------------------------------------------------------------------
\* The types of the scheduler's state.
TypeOK ==
    /\ docker \in [Svc -> Container]
    /\ cache \in [Svc -> Container \cup {"none"}]
    /\ slept \in [Svc -> BOOLEAN]
    /\ desired \in [Svc -> {"running", "stopped", "suspended"}]
    /\ alwaysOn \in [Svc -> BOOLEAN]
    /\ activity \in [Svc -> {"hot", "warm", "idle"}]
    /\ protect \in [Svc -> BOOLEAN]
    /\ queue \in [Svc -> Seq(Ops)]
    /\ kind \in [Svc -> Ops \cup SleepKinds \cup {"none"}]
    /\ pc \in [Svc -> {"none", "read", "stop", "look", "probe", "unpause", "evict", "start",
                       "ready", "hint", "act", "query"}]
    /\ by \in [Svc -> Svc \cup {Sweep}]
    /\ flight \in [Svc -> {"no", "wake", "inline"}]
    /\ pass \in [Svc \cup {Sweep} -> [tried : SUBSET Svc, credit : Int, failed : BOOLEAN]]
    /\ rpc \in [Req -> {"none", "resolving", "wait", "woken", "serving"}]
    /\ sweep \in {"off", "stats", "idle", "refresh", "evict"}
    /\ captured \in SUBSET Svc
    /\ todo \in SUBSET Svc

\* A sleep stops the container of s.
SleptNow(s) == kind[s] \in SleepKinds /\ docker[s] = "running" /\ docker'[s] = "exited"

\* The scheduler never stops a container that is answering a request or carrying a
\* splice: touch and hold on arrival, the ticker, the victim rules, and stateOf reporting
\* asleep for the whole stop keep every request off a container that is going down.
NoSleepUnderTraffic ==
    [][\A s \in Svc : SleptNow(s) => \A r \in Req : Target[r] = s => rpc[r] # "serving"]_vars

\* A service the developer stopped or suspended stays down while no operation holds it,
\* whatever wakes, sleeps, sweeps and other verbs were queued around the stop.
IntentHonoured ==
    \A s \in Compute : kind[s] = "none" /\ desired[s] # "running"
                          => docker[s] = IF desired[s] = "stopped" THEN "exited" ELSE "paused"

\* A request that waits is waiting for a wake in the map, and a wake in the map is an
\* operation that has the key or waits for it, so that somebody answers.
NoLostWaiter ==
    /\ \A r \in Req : rpc[r] = "wait" => flight[Target[r]] # "no"
    /\ \A s \in Svc :
          /\ flight[s] = "wake" =>
                kind[s] = "traffic" \/ \E i \in 1 .. Len(queue[s]) : queue[s][i] = "traffic"
          /\ flight[s] = "inline" => kind[s] \in InlineKinds

\* Neither what the developer asked for nor what a request waits for gets lost.
NothingForgotten == IntentHonoured /\ NoLostWaiter

\* Each wake in the map is over at some point, and so is each sweep: neither queues, nor
\* evictions that sleep other services, nor a busy box hold them up for ever.
WakesEnd == \A s \in Svc : flight[s] # "no" ~> flight[s] = "no"
SweepsEnd == sweep # "off" ~> sweep = "off"
NothingHangs == WakesEnd /\ SweepsEnd
===============================================================================
