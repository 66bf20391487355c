-------------------------------- MODULE Group --------------------------------
(***************************************************************************)
(* One compute group of a project, in src/src/engine.ts: the /data volume  *)
(* that is recorded once and mounted by a container on every branch, the   *)
(* ceiling that is stored once and applied to each, the image and the      *)
(* developer's intent of each branch.  Deploys, restarts, lifecycle verbs, *)
(* resizes, the clone and the merge of a branch, and the removal of the    *)
(* volume, which redeploys the group everywhere.                           *)
(*                                                                         *)
(* Operations stand in line as in Services; an action is what happens      *)
(* between two awaits.  The sleeps and wakes of the group are in Scheduler *)
(* and move nothing that is kept here.                                     *)
(***************************************************************************)
EXTENDS Naturals, SequencesExt

CONSTANTS
    Branch, Main, \* branch ids, and the one that is there from the start
    Volume,       \* volume ids
    Image, Ceiling,
    Asked,        \* which <<verb, branch>> the instance calls
    Rounds,       \* CREATE_LOCK_ROUNDS
    Ports,        \* the host ports deployAllocatingPort tries
    MaxOps,       \* bound: operations in flight
    MaxMade,     \* bound: calls
    Dies,         \* whether the daemon may be killed
    None

Verb == {"attach", "detach", "deploy", "restart", "start", "stop", "suspend",
         "resize", "clone", "merge", "delete"}

\* What a branch records of the group, and the container that docker has of it there.
Apps == [image : Image, intent : {"running", "stopped", "suspended"}]
Boxes == [mount : Volume \cup {None}, ceiling : Ceiling \cup {None}, state : {"up", "down", "paused"}]

ASSUME GroupAssumption ==
    /\ Main \in Branch /\ None \notin Branch \cup Volume \cup Image \cup Ceiling
    /\ None \notin Apps \cup Boxes
    /\ Asked \subseteq Verb \X Branch
    /\ {Rounds, Ports} \subseteq Nat \ {0} /\ {MaxOps, MaxMade} \subseteq Nat
    /\ Dies \in BOOLEAN

VARIABLES
    live,    \* the committed branches
    record,  \* project.computeVolumes[group]: the id of the volume
    stored,  \* project.serviceSettings[group].limits
    apps,    \* branch.apps[group]: the image and the desired state
    boxes,   \* docker: the container of the group on each branch
    bytes,   \* vol/<ref>/<id> under the data dir, where a container wrote
    line,    \* the operations in flight, in the order of their calls
    told,    \* history: where a failed call left a container running against its intent
    made     \* the calls so far

groupVars == <<live, record, stored, apps, boxes, bytes, line, told, made>>

Idle == [verb |-> "deploy", on |-> Main, arg |-> None, keys |-> {}, pc |-> "queued",
         round |-> 1, tries |-> 1, image |-> None, mount |-> None, ceiling |-> None,
         todo |-> {}, volume |-> None, failed |-> FALSE, changed |-> FALSE]

\* Main has the group, registered only or deployed, with a volume or without.
GroupInit ==
    /\ live = {Main} /\ stored = None
    /\ record \in Volume \cup {None}
    /\ \/ /\ \E image \in Image : apps = [b \in Branch |-> IF b = Main THEN [image |-> image, intent |-> "running"] ELSE None]
          /\ boxes = [b \in Branch |-> IF b = Main THEN [mount |-> record, ceiling |-> None, state |-> "up"] ELSE None]
          /\ bytes = {<<Main, v>> : v \in {record} \ {None}}
       \/ /\ apps = [b \in Branch |-> None] /\ boxes = [b \in Branch |-> None]
          /\ bytes = {}
    /\ line = <<>> /\ told = {} /\ made = 0

-------------------------------------------------------------------------------
\* The line of operations and their keys.

KeysOf(b) == {<<b, "branch">>, <<b, "group">>}
GroupKeys(bs) == {<<b, "group">> : b \in bs}
AllKeys == UNION {KeysOf(b) : b \in live}

\* createBranchKeys: the group's only if the source has it.
CloneKeys(b) ==
    IF apps[Main] = None THEN {<<Main, "branch">>, <<b, "branch">>}
    ELSE KeysOf(Main) \cup KeysOf(b)

Granted(i) == \A j \in 1 .. i - 1 : line[j].keys \cap line[i].keys = {}
Turn(i, verb) == line[i].verb = verb /\ line[i].pc = "queued" /\ Granted(i)
At(i, pc) == line[i].pc = pc

Enter(op) ==
    /\ Len(line) < MaxOps /\ made < MaxMade
    /\ made' = made + 1
    /\ line' = Append(line, op)
Become(i, op) == line' = [line EXCEPT ![i] = op]
Return(i) == line' = RemoveAt(line, i)

\* An operation whose keys no longer cover what it needs goes to the end of the line with
\* both sets, a bounded number of times.
Redrive(i, needed) ==
    IF line[i].round < Rounds
    THEN line' = Append(RemoveAt(line, i),
                        [line[i] EXCEPT !.keys = @ \cup needed, !.round = @ + 1])
    ELSE Return(i)

Intent(b) == IF apps[b] = None THEN "running" ELSE apps[b].intent

\* What deployLocked reads before it calls docker.
Deploying(op, b, image) ==
    [op EXCEPT !.pc = "deploying", !.on = b, !.image = image,
               !.mount = record, !.ceiling = stored]

-------------------------------------------------------------------------------
\* Calls: what is read before the operation stands in line.

Ask(verb, b) ==
    /\ <<verb, b>> \in Asked
    /\ \/ /\ verb = "clone" /\ b \notin live
          /\ \A i \in DOMAIN line : ~(line[i].verb = "clone" /\ line[i].on = b)
          /\ Enter([Idle EXCEPT !.verb = verb, !.on = b, !.keys = CloneKeys(b)])
       \/ /\ verb \in {"attach", "detach"} /\ b = Main
          /\ Enter([Idle EXCEPT !.verb = verb, !.keys = AllKeys])
       \/ /\ verb = "deploy" /\ b \in live
          /\ \E image \in Image :
                Enter([Idle EXCEPT !.verb = verb, !.on = b, !.arg = image, !.keys = KeysOf(b)])
       \/ /\ verb \in {"restart", "start", "stop", "suspend"} /\ b \in live /\ apps[b] # None
          /\ Enter([Idle EXCEPT !.verb = verb, !.on = b, !.arg = apps[b].image, !.keys = KeysOf(b)])
       \/ /\ verb = "delete" /\ b \in live /\ b # Main
          /\ Enter([Idle EXCEPT !.verb = verb, !.on = b, !.keys = KeysOf(b)])
    /\ UNCHANGED <<live, record, stored, apps, boxes, bytes, told>>

\* setServiceLimits: whether anything changes, and on which branches, is read at the call.
AskResize(c) ==
    /\ <<"resize", Main>> \in Asked
    /\ Enter([Idle EXCEPT !.verb = "resize", !.arg = c, !.keys = GroupKeys(live),
                          !.todo = live, !.changed = stored # c])
    /\ UNCHANGED <<live, record, stored, apps, boxes, bytes, told>>

\* mergeBranch into b: which groups the target has is read once, and the databases that are
\* added in between are awaited under no key.
AskMerge(b) ==
    /\ <<"merge", b>> \in Asked /\ b \in live /\ b # Main
    /\ apps[Main] # None /\ apps[b] = None
    /\ Enter([Idle EXCEPT !.verb = "merge", !.on = b, !.arg = apps[Main].image, !.pc = "adding"])
    /\ UNCHANGED <<live, record, stored, apps, boxes, bytes, told>>

MergeDeploys(i) ==
    /\ line[i].verb = "merge" /\ At(i, "adding")
    /\ line' = Append(RemoveAt(line, i),
                      [line[i] EXCEPT !.pc = "queued", !.keys = KeysOf(line[i].on)])
    /\ UNCHANGED <<live, record, stored, apps, boxes, bytes, told, made>>

-------------------------------------------------------------------------------
\* A deploy, of its own or inside a restart, a merge, a clone or a removal.

\* (Mutant: a restart of the image it had when it was called.)
RestartAsCalled(i) ==
    /\ Turn(i, "restart")
    /\ IF line[i].on \in live /\ apps[line[i].on] # None /\ Intent(line[i].on) = "running"
       THEN Become(i, Deploying(line[i], line[i].on, line[i].arg))
       ELSE Return(i)
    /\ UNCHANGED <<live, record, stored, apps, boxes, bytes, told, made>>

\* restartLocked: what the group runs now, unless it is to be down.
Restart(i) ==
    /\ Turn(i, "restart")
    /\ LET b == line[i].on IN
         IF b \in live /\ apps[b] # None /\ Intent(b) = "running"
         THEN Become(i, Deploying(line[i], b, apps[b].image))
         ELSE Return(i)
    /\ UNCHANGED <<live, record, stored, apps, boxes, bytes, told, made>>

StartDeploy(i) ==
    /\ Turn(i, "deploy") \/ Turn(i, "merge")
    /\ IF line[i].on \in live
       THEN Become(i, Deploying(line[i], line[i].on, line[i].arg))
       ELSE Return(i)
    /\ UNCHANGED <<live, record, stored, apps, boxes, bytes, told, made>>

\* removeServiceVolume goes on to the next branch that runs the group, or ends: if anything
\* failed the record comes back under its id.
Proceed(i, op) ==
    \/ \E b \in op.todo :
          /\ Become(i, Deploying([op EXCEPT !.todo = @ \ {b}], b, apps[b].image))
          /\ UNCHANGED record
    \/ /\ op.todo = {}
       /\ Return(i)
       /\ record' = IF op.failed THEN op.volume ELSE record

\* What follows a deploy that went well: a removal has the bytes to take.
Done(i) ==
    /\ IF line[i].verb = "detach" THEN Become(i, [line[i] EXCEPT !.pc = "bytes"]) ELSE Return(i)
    /\ UNCHANGED record

\* (Mutant: the bytes go although the redeploy of their branch failed.)
FailedAnyway(i) ==
    CASE line[i].verb = "detach" -> Become(i, [line[i] EXCEPT !.failed = TRUE, !.pc = "bytes"]) /\ UNCHANGED record
      [] line[i].verb = "clone" -> Become(i, [line[i] EXCEPT !.pc = "unwind"]) /\ UNCHANGED record
      [] OTHER -> Return(i) /\ UNCHANGED record

\* What follows one that did not: the container may still have the mount.
Failed(i) ==
    CASE line[i].verb = "detach" -> Proceed(i, [line[i] EXCEPT !.failed = TRUE])
      [] line[i].verb = "clone" -> Become(i, [line[i] EXCEPT !.pc = "unwind"]) /\ UNCHANGED record
      [] OTHER -> Return(i) /\ UNCHANGED record

\* The replacement is up, unless it was to be stopped or a clone is to sleep.
Deployed(i) ==
    /\ At(i, "deploying")
    /\ LET op == line[i]
           b  == op.on
       IN \E asleep \in (IF op.verb = "clone" THEN BOOLEAN ELSE {FALSE}) :
            /\ boxes' = [boxes EXCEPT ![b] =
                  [mount |-> op.mount, ceiling |-> op.ceiling,
                   state |-> IF Intent(b) = "stopped" \/ asleep THEN "down" ELSE "up"]]
            /\ apps' = [apps EXCEPT ![b] = [image |-> op.image, intent |-> Intent(b)]]
            /\ bytes' = bytes \cup {<<b, v>> : v \in {op.mount} \ {None}}
            /\ told' = told \ {b}
            /\ IF Intent(b) = "running" THEN Done(i)
               ELSE Become(i, [op EXCEPT !.pc = "reassert"]) /\ UNCHANGED record
    /\ UNCHANGED <<live, stored, made>>

\* (Mutant: a replacement that is not put back to what it was to be.)
ReassertNever(i) ==
    /\ At(i, "reassert") /\ Done(i)
    /\ UNCHANGED <<live, stored, apps, boxes, bytes, told, made>>

\* The standing intent is put to the replacement, and the call fails if that fails.
Reassert(i) ==
    /\ At(i, "reassert")
    /\ LET b == line[i].on IN
         \/ /\ boxes' = [boxes EXCEPT ![b].state = IF Intent(b) = "stopped" THEN "down" ELSE "paused"]
            /\ Done(i) /\ UNCHANGED told
         \/ /\ told' = told \cup {b}
            /\ Failed(i) /\ UNCHANGED boxes
    /\ UNCHANGED <<live, stored, apps, bytes, made>>

\* docker fails before, at or behind the removal of the old container; a clone or a merge
\* whose port is taken tries the next one, a merge as a deploy of its own.
DeployBreaks(i) ==
    /\ At(i, "deploying")
    /\ LET op == line[i] IN
         /\ \/ UNCHANGED boxes
            \/ boxes' = [boxes EXCEPT ![op.on] = None]
            \/ boxes' = [boxes EXCEPT ![op.on] =
                   [mount |-> op.mount, ceiling |-> op.ceiling, state |-> "down"]]
         /\ \/ Failed(i)
            \/ /\ op.verb = "merge" /\ op.tries < Ports
               /\ line' = Append(RemoveAt(line, i), [op EXCEPT !.pc = "queued", !.tries = @ + 1])
               /\ UNCHANGED record
            \/ /\ op.verb = "clone" /\ op.tries < Ports
               /\ Become(i, [op EXCEPT !.tries = @ + 1])
               /\ UNCHANGED record
    /\ UNCHANGED <<live, stored, apps, bytes, told, made>>

-------------------------------------------------------------------------------
\* The volume.

Unused(v) ==
    /\ record # v
    /\ \A y \in bytes : y[2] # v
    /\ \A b \in Branch : boxes[b] # None => boxes[b].mount # v
    /\ \A i \in DOMAIN line : line[i].volume # v /\ line[i].mount # v

\* setServiceVolumeLocked: a record only; the next deploy mounts it.
Attach(i) ==
    /\ Turn(i, "attach")
    /\ IF record = None THEN \E v \in Volume : Unused(v) /\ record' = v ELSE UNCHANGED record
    /\ Return(i)
    /\ UNCHANGED <<live, stored, apps, boxes, bytes, told, made>>

\* (Mutant: no second look at the branches.)
DetachAsCalled(i) ==
    /\ Turn(i, "detach")
    /\ IF record = None THEN Return(i) /\ UNCHANGED record
       ELSE \E b \in {c \in live : apps[c] # None /\ KeysOf(c) \subseteq line[i].keys} :
               /\ Become(i, [Deploying(line[i], b, apps[b].image) EXCEPT
                     !.mount = None, !.volume = record,
                     !.todo = {c \in live : apps[c] # None /\ KeysOf(c) \subseteq line[i].keys} \ {b}])
               /\ record' = None
    /\ UNCHANGED <<live, stored, apps, boxes, bytes, told, made>>

\* removeServiceVolumeLocked: the record goes first, since every deploy reads it.
Detach(i) ==
    /\ Turn(i, "detach")
    /\ LET on == {c \in live : apps[c] # None}
           op == [line[i] EXCEPT !.volume = record]
       IN CASE ~(AllKeys \subseteq line[i].keys) -> Redrive(i, AllKeys) /\ UNCHANGED record
            [] AllKeys \subseteq line[i].keys /\ (record = None \/ on = {}) -> Return(i) /\ record' = None
            [] OTHER -> /\ record' = None
                        /\ \E b \in on :
                              Become(i, [Deploying([op EXCEPT !.todo = on \ {b}], b, apps[b].image)
                                         EXCEPT !.mount = None])
    /\ UNCHANGED <<live, stored, apps, boxes, bytes, told, made>>

\* The bytes of a branch whose container was replaced; the probe behind the removal decides.
RemoveVolume(i) ==
    /\ At(i, "bytes")
    /\ \/ bytes' = bytes \ {<<line[i].on, line[i].volume>>} /\ Proceed(i, line[i])
       \/ UNCHANGED bytes /\ Proceed(i, [line[i] EXCEPT !.failed = TRUE])
    /\ UNCHANGED <<live, stored, apps, boxes, told, made>>

-------------------------------------------------------------------------------
\* The ceiling.

StartResize(i) ==
    /\ Turn(i, "resize")
    /\ Become(i, [line[i] EXCEPT !.pc = "updating"])
    /\ UNCHANGED <<live, record, stored, apps, boxes, bytes, told, made>>

\* docker update, one container after the other, a failure not ending the round.
Update(i) ==
    /\ At(i, "updating")
    /\ \E b \in line[i].todo :
         LET rest == [line[i] EXCEPT !.todo = @ \ {b}] IN
         \/ /\ apps[b] # None /\ boxes[b] # None
            /\ boxes' = [boxes EXCEPT ![b].ceiling = line[i].arg]
            /\ Become(i, rest)
         \/ /\ apps[b] # None /\ Become(i, [rest EXCEPT !.failed = TRUE]) /\ UNCHANGED boxes
         \/ /\ apps[b] = None /\ Become(i, rest) /\ UNCHANGED boxes
    /\ UNCHANGED <<live, record, stored, apps, bytes, told, made>>

\* A partial apply leaves the stored ceiling alone.
Resized(i) ==
    /\ At(i, "updating") /\ line[i].todo = {}
    /\ stored' = IF line[i].changed /\ ~line[i].failed THEN line[i].arg ELSE stored
    /\ Return(i)
    /\ UNCHANGED <<live, record, apps, boxes, bytes, told, made>>

-------------------------------------------------------------------------------
\* The lifecycle verbs.

\* A start writes the intent first, so that the wake behind it is not refused.
Start(i) ==
    /\ Turn(i, "start")
    /\ LET b == line[i].on IN
         IF b \in live /\ apps[b] # None
         THEN /\ apps' = [apps EXCEPT ![b].intent = "running"]
              /\ Become(i, [line[i] EXCEPT !.pc = "starting"])
         ELSE Return(i) /\ UNCHANGED apps
    /\ UNCHANGED <<live, record, stored, boxes, bytes, told, made>>

Started(i) ==
    /\ At(i, "starting")
    /\ LET b == line[i].on IN
         \/ /\ boxes[b] # None
            /\ boxes' = [boxes EXCEPT ![b].state = "up"]
            /\ bytes' = bytes \cup {<<b, v>> : v \in {boxes[b].mount} \ {None}}
         \/ UNCHANGED <<boxes, bytes>>
    /\ Return(i)
    /\ UNCHANGED <<live, record, stored, apps, told, made>>

\* A stop or a suspend writes the intent from the outcome.  A stop that fails may have
\* landed, or have unpaused what was paused.
Halt(i) ==
    /\ Turn(i, "stop") \/ Turn(i, "suspend")
    /\ LET b    == line[i].on
           stop == line[i].verb = "stop"
           Set(s) == boxes' = [boxes EXCEPT ![b].state = s]
       IN IF b \in live /\ apps[b] # None /\ boxes[b] # None
          THEN \/ /\ stop \/ boxes[b].state = "up"
                  /\ Set(IF stop THEN "down" ELSE "paused")
                  /\ apps' = [apps EXCEPT ![b].intent = IF stop THEN "stopped" ELSE "suspended"]
                  /\ told' = told \ {b}
               \/ UNCHANGED <<boxes, apps, told>>
               \/ /\ stop /\ UNCHANGED apps
                  /\ \/ boxes[b].state = "paused" /\ Set("up") /\ told' = told \cup {b}
                     \/ Set("down") /\ UNCHANGED told
          ELSE UNCHANGED <<boxes, apps, told>>
    /\ Return(i)
    /\ UNCHANGED <<live, record, stored, bytes, made>>

-------------------------------------------------------------------------------
\* The clone and the end of a branch.

\* createBranch from Main: the row, once the keys cover what the source has by now.
Clone(i) ==
    /\ Turn(i, "clone")
    /\ LET needed == CloneKeys(line[i].on) IN
         IF needed \subseteq line[i].keys
         THEN live' = live \cup {line[i].on} /\ Become(i, [line[i] EXCEPT !.pc = "fork"])
         ELSE Redrive(i, needed) /\ UNCHANGED live
    /\ UNCHANGED <<record, stored, apps, boxes, bytes, told, made>>

\* forkVolumes, then the redeploy of the group on the clone's own copy.
ForkVolumes(i) ==
    /\ At(i, "fork")
    /\ \/ /\ bytes' = bytes \cup {<<line[i].on, y[2]>> : y \in {z \in bytes : z = <<Main, record>>}}
          /\ IF apps[Main] = None THEN Return(i)
             ELSE Become(i, Deploying(line[i], line[i].on, apps[Main].image))
       \/ UNCHANGED bytes /\ Become(i, [line[i] EXCEPT !.pc = "unwind"])
    /\ UNCHANGED <<live, record, stored, apps, boxes, told, made>>

\* The container, the trees under the branch's roots, then the row.
Gone(b) ==
    /\ boxes' = [boxes EXCEPT ![b] = None]
    /\ bytes' = {y \in bytes : y[1] # b}
    /\ apps' = [apps EXCEPT ![b] = None]
    /\ live' = live \ {b}
    /\ told' = told \ {b}

Unwind(i) ==
    /\ At(i, "unwind") /\ Gone(line[i].on) /\ Return(i)
    /\ UNCHANGED <<record, stored, made>>

Delete(i) ==
    /\ Turn(i, "delete")
    /\ IF line[i].on \in live THEN Gone(line[i].on)
       ELSE UNCHANGED <<live, apps, boxes, bytes, told>>
    /\ Return(i)
    /\ UNCHANGED <<record, stored, made>>

\* The daemon is killed: what was in flight is nowhere written down.
Killed ==
    /\ Dies /\ line # <<>>
    /\ line' = <<>>
    /\ UNCHANGED <<live, record, stored, apps, boxes, bytes, told, made>>

GroupNext ==
    \/ \E verb \in Verb, b \in Branch : Ask(verb, b)
    \/ \E c \in Ceiling : AskResize(c)
    \/ \E b \in Branch : AskMerge(b)
    \/ \E i \in DOMAIN line :
         \/ MergeDeploys(i) \/ Restart(i) \/ StartDeploy(i) \/ Deployed(i) \/ Reassert(i)
         \/ DeployBreaks(i) \/ Attach(i) \/ Detach(i) \/ RemoveVolume(i)
         \/ StartResize(i) \/ Update(i) \/ Resized(i) \/ Start(i) \/ Started(i) \/ Halt(i)
         \/ Clone(i) \/ ForkVolumes(i) \/ Unwind(i) \/ Delete(i)
    \/ Killed

GroupSpec == GroupInit /\ [][GroupNext]_groupVars

-------------------------------------------------------------------------------
GroupTypeOK ==
    /\ live \subseteq Branch /\ Main \in live
    /\ record \in Volume \cup {None} /\ stored \in Ceiling \cup {None}
    /\ \A b \in Branch :
          /\ apps[b] \in Apps \cup {None} /\ boxes[b] \in Boxes \cup {None}
    /\ bytes \subseteq Branch \X Volume /\ told \subseteq live

Working(b) == \E i \in DOMAIN line : line[i].pc # "queued" /\ line[i].on = b

\* What is on disk has "a registration naming" it (engine.ts, removeServiceVolumeLocked): the
\* record, or the removal that took the record and puts it back if it fails.
BytesAreNamed ==
    \A y \in bytes :
        /\ y[1] \in live
        /\ record = y[2] \/ \E i \in DOMAIN line : line[i].pc # "queued" /\ line[i].volume = y[2]

\* No container runs against the intent that was set for it, whatever redeployed it, unless
\* the call that left it so said so.
IntentHolds ==
    \A b \in live :
        boxes[b] # None /\ boxes[b].state = "up" /\ Intent(b) # "running" => b \in told \/ Working(b)

VolumeAndIntentHold == BytesAreNamed /\ IntentHolds

\* A rebuild nobody asked for by an image keeps what the group runs "NOW, which is the whole
\* contract" (engine.ts, restartLocked), and bytes go only once no container has them.
RebuildsKeep ==
    [][/\ \A b \in live \cap live' :
             apps[b] # None /\ apps'[b] # None /\ apps'[b].image # apps[b].image =>
                \E i \in DOMAIN line : At(i, "deploying") /\ line[i].on = b
                                         /\ line[i].verb \in {"deploy", "merge"}
       /\ \A y \in bytes \ bytes' : boxes'[y[1]] = None \/ boxes'[y[1]].mount # y[2]]_groupVars

\* Every container has the ceiling that is stored, unless one is being changed.
OneCeiling ==
    \A b \in live :
        boxes[b] # None /\ boxes[b].ceiling # stored =>
            \E i \in DOMAIN line : line[i].verb \in {"resize", "clone"}

\* "Anything the target already has is skipped rather than rebuilt" (engine.ts, mergeBranch).
MergeAddsOnly ==
    [][\A i \in DOMAIN line, b \in live :
          line[i].verb = "merge" /\ At(i, "deploying") /\ line[i].on = b /\ apps'[b] # apps[b] =>
             apps[b] = None]_groupVars
===============================================================================
