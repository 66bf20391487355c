------------------------------- MODULE Services -------------------------------
(***************************************************************************)
(* The services of one project, in src/src/engine.ts: registered once for  *)
(* the project, carried by a branch as a row, a container (or a bucket)    *)
(* and its bytes.  Adds, deploys, removals, renames and the branch create  *)
(* that copies what its source carries, with the keys each one holds.      *)
(*                                                                         *)
(* Operations stand in line as in Branches: one runs once nobody before it *)
(* shares a key with it.  Behind their keys some also pass one at a time   *)
(* through the daemon's provision chain.  An action is what happens        *)
(* between two awaits.                                                     *)
(***************************************************************************)
EXTENDS Naturals, SequencesExt

CONSTANTS
    Branch,   \* branch ids
    Main,     \* the branch the project starts with
    Kind,     \* of "compute", "managed", "postgres", "storage", those in play
    Name,     \* service names
    Data,     \* identities of a service's bytes: data ids, volume ids, bucket contents
    Label,    \* Label[k][n]: what <label>-<ref> starts with; not injective over kinds
    Calls,    \* which <<verb, kind, name>> the instance calls
    Faults,   \* <<what may fail, kind>>: "provision", "remove", "bytes", "rename", "undo"
    Rounds,   \* CREATE_LOCK_ROUNDS
    MaxOps,   \* bound: operations in flight
    Together, \* bound: the sets of kinds that are in play at once
    None

Verbs == {"add", "bind", "deploy", "remove", "rename"}

ASSUME ServicesAssumption ==
    /\ Main \in Branch
    /\ Kind \subseteq {"compute", "managed", "postgres", "storage"}
    /\ Calls \subseteq Verbs \X Kind \X Name
    /\ Faults \subseteq {"provision", "remove", "bytes", "rename", "undo"} \X (Kind \cup {"branch"})
    /\ Together \subseteq SUBSET Kind
    /\ Rounds \in Nat \ {0} /\ MaxOps \in Nat
    /\ None \notin Branch \cup Name \cup Data
    /\ \A v \in Verbs, k \in Kind, n, m \in Name \cup {None} : <<v, k, n, m>> # None

VARIABLES
    branches,  \* the committed branches
    reg,       \* project.computeGroups, managedServices, dbServices, storageServices
    rows,      \* what the branches' rows carry; handle: the name of the container or bucket
    wired,     \* bindings by their source, custom domains by their group
    reserved,  \* state.hostReservations
    box,       \* docker and the object store: containers and buckets, by name
    bytes,     \* directories under the data dir
    line       \* the operations in flight, in the order of their calls

store == <<branches, reg, rows, wired, reserved>>
vars == <<store, box, bytes, line>>

NewOp == [verb |-> "add", kind |-> "compute", name |-> None, to |-> None, branch |-> Main,
          source |-> None, keys |-> {}, pc |-> "queued", data |-> None, first |-> FALSE,
          todo |-> {}, done |-> {}, round |-> 1]

Init ==
    /\ branches = {Main}
    /\ reg = {} /\ rows = {} /\ wired = {} /\ reserved = {}
    /\ box = {} /\ bytes = {} /\ line = <<>>

-------------------------------------------------------------------------------
\* Reading the state.

Row(b, k, n, h, d) == [branch |-> b, kind |-> k, name |-> n, handle |-> h, data |-> d]
Thing(b, k, h, d) == [branch |-> b, kind |-> k, handle |-> h, data |-> d]

RegOf(k, n) == {e \in reg : e.kind = k /\ e.name = n}
RowsOf(b, k, n) == {r \in rows : r.branch = b /\ r.kind = k /\ r.name = n}
Carries(b, k, n) == RowsOf(b, k, n) # {}
Carriers(k, n) == {b \in branches : Carries(b, k, n)}
InBox(b, k, h) == {x \in box : x.branch = b /\ x.kind = k /\ x.handle = h}

\* computeGroupNames: a group is registered, or was deployed without being.
Known(k, n) == RegOf(k, n) # {} \/ (k = "compute" /\ Carriers(k, n) # {})

\* The data key a row gets: the registration's, which for a group is its volume's.
DataOf(k, n) == IF RegOf(k, n) = {} THEN None ELSE (CHOOSE e \in RegOf(k, n) : TRUE).data

Unused(d) ==
    /\ \A e \in reg : e.data # d
    /\ \A r \in rows : r.data # d
    /\ \A x \in box : x.data # d
    /\ \A y \in bytes : y[2] # d
    /\ \A i \in DOMAIN line : line[i].data # d

\* buildTable's hosts: a managed row without a registration is passed over, and a bucket
\* answers in a space of its own.
Answering(b) ==
    {r \in rows : /\ r.branch = b /\ r.kind # "storage"
                  /\ r.kind = "managed" => RegOf("managed", r.name) # {}}

\* (Mutant: a label space of its own for each kind.)
HostFreeOfKind(b, k, n, owner) ==
    k # "storage" =>
        /\ \A h \in reserved : h.branch = b /\ h.label = Label[k][n] => h.owner = owner
        /\ \A r \in Answering(b) : r.kind = k => Label[k][r.name] # Label[k][n]

\* assertHostFree.
HostFree(b, k, n, owner) ==
    k # "storage" =>
        /\ \A h \in reserved : h.branch = b /\ h.label = Label[k][n] => h.owner = owner
        /\ \A r \in Answering(b) : Label[r.kind][r.name] # Label[k][n]

-------------------------------------------------------------------------------
\* The line of operations, their keys and the provision chain.

Star(b) == <<b, "*branch", "*branch">>
Key(b, k, n) == <<b, k, n>>

InPlay == {e.kind : e \in reg} \cup {r.kind : r \in rows} \cup {line[i].kind : i \in DOMAIN line}
Room(k) == \E kinds \in Together : InPlay \cup {k} \subseteq kinds \cup {"branch"}

Enter(op) == Len(line) < MaxOps /\ Room(op.kind) /\ line' = Append(line, op)
Leave(i) == line' = RemoveAt(line, i)
Become(i, op) == line' = [line EXCEPT ![i] = op]
Goto(i, pc) == Become(i, [line[i] EXCEPT !.pc = pc])

Granted(i) == \A j \in 1 .. i - 1 : line[j].keys \cap line[i].keys = {}
Starts(i, verb) == line[i].verb = verb /\ line[i].pc = "queued" /\ Granted(i)
At(i, verb, pc) == line[i].verb = verb /\ line[i].pc = pc

\* serialize('provision').
Chained(op) ==
    \/ op.verb \in {"add", "clone"}
    \/ op.verb = "rename" /\ op.kind \in {"compute", "postgres"}
ChainFree ==
    \A j \in DOMAIN line :
        Chained(line[j]) => line[j].pc \notin {"provision", "fork", "renaming", "undo"}

Fails(what, op) == <<what, op.kind>> \in Faults

Owner(op) == <<op.verb, op.kind, op.name, op.to>>

\* releaseHosts.
Released(op) == {h \in reserved : h.owner # Owner(op)}

Reserve(op, bs, n) ==
    reserved' = reserved \cup
        {[branch |-> b, label |-> Label[op.kind][n], owner |-> Owner(op)] : b \in bs}

-------------------------------------------------------------------------------
\* Adding.

\* addComputeService: no lock, no await.
AddGroup(n) ==
    /\ <<"add", "compute", n>> \in Calls
    /\ ~Known("compute", n) /\ Room("compute")
    /\ \A b \in branches : HostFree(b, "compute", n, None)
    /\ \E d \in {None} \cup {d \in Data : Unused(d)} :
          reg' = reg \cup {[kind |-> "compute", name |-> n, data |-> d]}
    /\ UNCHANGED <<branches, rows, wired, reserved, box, bytes, line>>

AskAdd(b, k, n) ==
    /\ <<"add", k, n>> \in Calls /\ k # "compute" /\ b \in branches
    /\ Enter([NewOp EXCEPT !.kind = k, !.name = n, !.branch = b, !.keys = {Star(b)}])
    /\ UNCHANGED <<store, box, bytes>>

\* A managed service reserves its host and registers at the end; the others register now.
Entered(i, d) ==
    LET op == [line[i] EXCEPT !.pc = "provision", !.data = d,
                              !.first = RegOf(line[i].kind, line[i].name) = {}]
        entry == [kind |-> op.kind, name |-> op.name, data |-> d]
    IN
    /\ IF op.kind = "managed"
       THEN Reserve(op, {op.branch}, op.name) /\ UNCHANGED reg
       ELSE reg' = reg \cup {entry} /\ UNCHANGED reserved
    /\ Become(i, op)

StartAdd(i) ==
    LET op == line[i]
        d == DataOf(op.kind, op.name)
    IN
    /\ Starts(i, "add") /\ ChainFree
    /\ IF /\ op.branch \in branches
          /\ ~Carries(op.branch, op.kind, op.name)
          /\ HostFree(op.branch, op.kind, op.name, Owner(op))
       THEN \E x \in IF d # None THEN {d} ELSE {y \in Data : Unused(y)} : Entered(i, x)
       ELSE Leave(i) /\ UNCHANGED <<reg, reserved>>
    /\ UNCHANGED <<branches, rows, wired, box, bytes>>

\* What the adapter makes of a name that is there already: docker refuses the second
\* container, postgres clears the orphan, the object store goes on with the bucket it has.
Taken(op) == InBox(op.branch, op.kind, op.name)
Provisioned(op) ==
    IF op.kind = "storage" /\ Taken(op) # {} THEN CHOOSE x \in Taken(op) : TRUE
    ELSE Thing(op.branch, op.kind, op.name, op.data)

\* The container is up: the row, and with it the registration of a managed service.
Provision(i) ==
    LET op == line[i]
        made == Provisioned(op)
    IN
    /\ At(i, "add", "provision") /\ (op.kind = "managed" => Taken(op) = {})
    /\ box' = (box \ Taken(op)) \cup {made}
    /\ bytes' = IF op.kind = "storage" THEN bytes ELSE bytes \cup {<<op.branch, op.data>>}
    /\ rows' = rows \cup {Row(op.branch, op.kind, op.name, op.name, made.data)}
    /\ reg' = IF op.kind = "managed" /\ op.first
              THEN reg \cup {[kind |-> op.kind, name |-> op.name, data |-> op.data]} ELSE reg
    /\ reserved' = Released(op)
    /\ Leave(i)
    /\ UNCHANGED <<branches, wired>>

\* The compensation takes the registration back if this call made it.  It destroys what a
\* failed postgres or storage add left, as best it can; a managed add remembers only a
\* container whose provision returned, so it destroys nothing: one that never ran may stay.
ProvisionFails(i) ==
    LET op == line[i]
        left == Thing(op.branch, op.kind, op.name, IF op.kind = "managed" THEN None ELSE op.data)
    IN
    /\ Fails("provision", line[i]) /\ At(i, "add", "provision")
    /\ box' \in {box, box \cup {left}} \cup
                (IF op.kind = "postgres" THEN {box \ Taken(op)} ELSE {})
    /\ bytes' \in CASE op.kind = "storage" -> {bytes}
                    [] op.kind = "managed" -> {bytes, bytes \cup {<<op.branch, op.data>>}}
                    [] OTHER -> {bytes \ {<<op.branch, op.data>>}, bytes \cup {<<op.branch, op.data>>}}
    /\ Taken(op) # {} => box' \subseteq box
    /\ reg' = IF op.first /\ op.kind # "managed" THEN reg \ RegOf(op.kind, op.name) ELSE reg
    /\ reserved' = Released(op)
    /\ Leave(i)
    /\ UNCHANGED <<branches, rows, wired>>

-------------------------------------------------------------------------------
\* Deploying a group.

AskDeploy(b, n) ==
    /\ <<"deploy", "compute", n>> \in Calls /\ b \in branches
    /\ Enter([NewOp EXCEPT !.verb = "deploy", !.name = n, !.branch = b,
                           !.keys = {Star(b), Key(b, "compute", n)}])
    /\ UNCHANGED <<store, box, bytes>>

\* The volume is the one on record now; a first deploy reserves its host.
StartDeploy(i) ==
    LET op == [line[i] EXCEPT !.pc = "docker", !.data = DataOf("compute", line[i].name),
                              !.first = ~Carries(line[i].branch, "compute", line[i].name)]
    IN
    /\ Starts(i, "deploy")
    /\ IF /\ op.branch \in branches
          /\ op.first => HostFree(op.branch, "compute", op.name, Owner(op))
       THEN /\ IF op.first THEN Reserve(op, {op.branch}, op.name) ELSE UNCHANGED reserved
            /\ Become(i, op)
       ELSE Leave(i) /\ UNCHANGED reserved
    /\ UNCHANGED <<branches, reg, rows, wired, box, bytes>>

\* compute.deploy replaces the container; then the row.
Deploy(i) ==
    LET op == line[i] IN
    /\ At(i, "deploy", "docker")
    /\ box' = (box \ Taken(op)) \cup {Thing(op.branch, "compute", op.name, op.data)}
    /\ bytes' = IF op.data = None THEN bytes ELSE bytes \cup {<<op.branch, op.data>>}
    /\ rows' = (rows \ RowsOf(op.branch, "compute", op.name))
                 \cup {Row(op.branch, "compute", op.name, op.name, op.data)}
    /\ reserved' = Released(op)
    /\ Leave(i)
    /\ UNCHANGED <<branches, reg, wired>>

\* The old container is gone; the new one may have been created, though it never ran.
DeployFails(i) ==
    LET op == line[i] IN
    /\ Fails("provision", line[i]) /\ At(i, "deploy", "docker")
    /\ \E made \in {{}, {Thing(op.branch, "compute", op.name, None)}} :
          box' = (box \ Taken(op)) \cup made
    /\ bytes' = IF op.data = None THEN bytes ELSE bytes \cup {<<op.branch, op.data>>}
    /\ reserved' = Released(op)
    /\ Leave(i)
    /\ UNCHANGED <<branches, reg, rows, wired>>

-------------------------------------------------------------------------------
\* Removing from one branch.

\* What a removal asks before its lock and again behind it.
Removable(op) ==
    /\ op.branch \in branches
    /\ Known(op.kind, op.name)
    /\ op.kind # "compute" =>
          RegOf(op.kind, op.name) # {} /\ Carries(op.branch, op.kind, op.name)

AskRemove(b, k, n) ==
    LET op == [NewOp EXCEPT !.verb = "remove", !.kind = k, !.name = n, !.branch = b,
                            !.keys = {Key(b, k, n)}, !.data = DataOf(k, n)]
    IN
    /\ <<"remove", k, n>> \in Calls /\ Removable(op)
    /\ Enter(op)
    /\ UNCHANGED <<store, box, bytes>>

\* (Mutant: what was read before the lock is acted on.)
StartRemoveAsAsked(i) ==
    /\ Starts(i, "remove")
    /\ Goto(i, "container")
    /\ UNCHANGED <<store, box, bytes>>

\* freshRemoval.
StartRemove(i) ==
    LET op == line[i] IN
    /\ Starts(i, "remove")
    /\ IF Removable(op)
       THEN Become(i, [op EXCEPT !.pc = "container", !.data = DataOf(op.kind, op.name)])
       ELSE Leave(i)
    /\ UNCHANGED <<store, box, bytes>>

Handles(op) ==
    IF Carries(op.branch, op.kind, op.name)
    THEN {r.handle : r \in RowsOf(op.branch, op.kind, op.name)} ELSE {op.name}
Targets(op) == UNION {InBox(op.branch, op.kind, h) : h \in Handles(op)}

\* The row and what is wired to it go, and with the last row the registration.
TakenAway(i) ==
    LET op == line[i]
        mine == RowsOf(op.branch, op.kind, op.name)
    IN
    /\ rows' = rows \ mine
    /\ wired' = wired \ {[branch |-> op.branch, kind |-> op.kind, name |-> op.name]}
    /\ reg' = IF Carriers(op.kind, op.name) \subseteq {op.branch}
              THEN reg \ RegOf(op.kind, op.name) ELSE reg
    /\ Leave(i)
    /\ UNCHANGED <<branches, reserved>>

\* (Mutant: the call having returned is taken for the container being gone.)
RemoveContainerTrusting(i) ==
    /\ At(i, "remove", "container") /\ line[i].kind # "storage"
    /\ box' \in {box, box \ Targets(line[i])}
    /\ Goto(i, "bytes")
    /\ UNCHANGED <<store, bytes>>

\* removeContainer: gone on docker's word, or nothing else happens.
RemoveContainer(i) ==
    LET op == line[i]
        carried == op.kind # "compute" \/ Carries(op.branch, op.kind, op.name)
    IN
    /\ At(i, "remove", "container")
    /\ \/ /\ carried
          /\ box' = box \ Targets(op)
          /\ IF op.kind = "storage" THEN TakenAway(i) ELSE Goto(i, "bytes") /\ UNCHANGED store
       \/ Fails("remove", line[i]) /\ carried /\ Leave(i) /\ UNCHANGED <<store, box>>
       \/ ~carried /\ TakenAway(i) /\ UNCHANGED box
    /\ UNCHANGED bytes

\* The bytes gate the row as the container did.
RemoveBytes(i) ==
    /\ At(i, "remove", "bytes")
    /\ \/ TakenAway(i) /\ bytes' = bytes \ {<<line[i].branch, line[i].data>>}
       \/ Fails("bytes", line[i]) /\ Leave(i) /\ UNCHANGED <<store, bytes>>
    /\ UNCHANGED box

-------------------------------------------------------------------------------
\* Renaming everywhere.

\* A key set that has grown is taken again from the end of the line, so often.
Redrive(i, needed) ==
    LET op == line[i] IN
    IF op.round < Rounds
    THEN line' = Append(RemoveAt(line, i),
                        [op EXCEPT !.keys = @ \cup needed, !.round = @ + 1])
    ELSE Leave(i)

\* (Mutant: a rename takes no key.)
NoKeys(k, n) == {}

RenameKeys(k, n) == {Star(b) : b \in branches} \cup {Key(b, k, n) : b \in branches}

AskRename(k, n, m) ==
    /\ <<"rename", k, n>> \in Calls /\ n # m /\ Known(k, n)
    /\ Enter([NewOp EXCEPT !.verb = "rename", !.kind = k, !.name = n, !.to = m,
                           !.branch = None, !.keys = RenameKeys(k, n)])
    /\ UNCHANGED <<store, box, bytes>>

\* A bucket keeps its name.
Moved(r, k, n, m) ==
    IF r.kind = k /\ r.name = n
    THEN [r EXCEPT !.name = m, !.handle = IF k = "storage" THEN @ ELSE m] ELSE r
MovedWire(w, op, bs) ==
    IF w.kind = op.kind /\ w.name = op.name /\ w.branch \in bs THEN [w EXCEPT !.name = op.to] ELSE w

\* (Mutant: the bindings stay behind.)
WiresStaying(op, bs) == wired

\* Bindings follow the rename of a database or a bucket.
Wires(op, bs) ==
    IF op.kind \in {"postgres", "storage"} THEN {MovedWire(w, op, bs) : w \in wired} ELSE wired

\* The one mutate at the end.
Renamed(i) ==
    LET op == line[i]
        bs == Carriers(op.kind, op.name)
    IN
    /\ reg' = {IF e.kind = op.kind /\ e.name = op.name THEN [e EXCEPT !.name = op.to] ELSE e : e \in reg}
    /\ rows' = {Moved(r, op.kind, op.name, op.to) : r \in rows}
    /\ wired' = Wires(op, bs)
    /\ reserved' = Released(op)
    /\ Leave(i)
    /\ UNCHANGED branches

\* The hosts the new name would answer on.  The compute rename asks on every branch.
Renamable(op, bs) ==
    /\ Known(op.kind, op.name)
    /\ ~Known(op.kind, op.to)
    /\ \A b \in IF op.kind = "compute" THEN branches ELSE bs : HostFree(b, op.kind, op.to, Owner(op))

StartRename(i) ==
    LET op == line[i]
        bs == Carriers(op.kind, op.name)
        needed == RenameKeys(op.kind, op.name)
    IN
    /\ Starts(i, "rename") /\ (Chained(op) => ChainFree)
    /\ IF ~(needed \subseteq op.keys) THEN Redrive(i, needed) /\ UNCHANGED store
       ELSE IF ~Renamable(op, bs) THEN Leave(i) /\ UNCHANGED store
       ELSE IF op.kind = "storage" \/ bs = {} THEN Renamed(i)
       ELSE /\ Become(i, [op EXCEPT !.pc = "renaming", !.todo = bs])
            /\ IF op.kind = "postgres" THEN UNCHANGED reserved ELSE Reserve(op, bs, op.to)
            /\ UNCHANGED <<branches, reg, rows, wired>>
    /\ UNCHANGED <<box, bytes>>

Handed(x, op, from, to) ==
    IF x.branch \in op.done \cup op.todo /\ x.kind = op.kind /\ x.handle = from
    THEN [x EXCEPT !.handle = to] ELSE x
HandedOn(op, b, from, to) == {IF x.branch = b THEN Handed(x, op, from, to) ELSE x : x \in box}

Possible(op, b) ==
    InBox(b, op.kind, op.name) # {} /\ InBox(b, op.kind, op.to) = {}

\* One branch's container; of a postgres service its row and its bindings with it.
RenameOne(i, b) ==
    LET op == line[i] IN
    /\ At(i, "rename", "renaming") /\ b \in op.todo /\ Possible(op, b)
    /\ box' = HandedOn(op, b, op.name, op.to)
    /\ Become(i, [op EXCEPT !.todo = @ \ {b}, !.done = @ \cup {b}])
    /\ IF op.kind = "postgres"
       THEN /\ rows' = {IF r.branch = b THEN Moved(r, op.kind, op.name, op.to) ELSE r : r \in rows}
            /\ wired' = Wires(op, {b})
       ELSE UNCHANGED <<rows, wired>>
    /\ UNCHANGED <<branches, reg, reserved, bytes>>

\* renameNeeded: a container that is not there under the old name was moved before.
RenameNotNeeded(i, b) ==
    LET op == line[i] IN
    /\ At(i, "rename", "renaming") /\ b \in op.todo
    /\ op.kind # "postgres" /\ InBox(b, op.kind, op.name) = {}
    /\ Become(i, [op EXCEPT !.todo = @ \ {b}])
    /\ UNCHANGED <<store, box, bytes>>

\* Docker refuses or cannot say.  A postgres rename stops where it stands.
RenameBreaks(i) ==
    LET op == line[i] IN
    /\ At(i, "rename", "renaming")
    /\ \E b \in op.todo :
          \/ Fails("rename", line[i])
          \/ InBox(b, op.kind, op.name) # {} /\ InBox(b, op.kind, op.to) # {}
          \/ (op.kind = "postgres" /\ ~Possible(op, b))
    /\ IF op.kind = "postgres" THEN Leave(i) ELSE Goto(i, "undo")
    /\ UNCHANGED <<store, box, bytes>>

\* undoRenames.
Undo(i) ==
    LET op == line[i] IN
    /\ At(i, "rename", "undo")
    /\ \E back \in IF Fails("undo", line[i]) THEN SUBSET op.done ELSE {op.done} :
          box' = {IF x.branch \in back THEN Handed(x, op, op.to, op.name) ELSE x : x \in box}
    /\ reserved' = Released(op)
    /\ Leave(i)
    /\ UNCHANGED <<branches, reg, rows, wired, bytes>>

FinishRename(i) ==
    /\ At(i, "rename", "renaming") /\ line[i].todo = {}
    /\ Renamed(i)
    /\ UNCHANGED <<box, bytes>>

-------------------------------------------------------------------------------
\* A new branch copies what its source carries.

\* carriedServiceIds and the groups; not the buckets.
CloneKeys(s, c) ==
    {Star(s), Star(c)} \cup
    {Key(b, r.kind, r.name) :
        b \in {s, c}, r \in {r \in rows : r.branch = s /\ r.kind # "storage"
                                          /\ (r.kind # "compute" => RegOf(r.kind, r.name) # {})}}

AskClone(s, c) ==
    /\ s \in branches /\ c \notin branches
    /\ \A i \in DOMAIN line : line[i].branch # c
    /\ \A x \in box : x.branch # c
    /\ Enter([NewOp EXCEPT !.verb = "clone", !.kind = "branch", !.branch = c, !.source = s, !.keys = CloneKeys(s, c)])
    /\ UNCHANGED <<store, box, bytes>>

\* provisionBranch lists the registrations its source carries.
StartClone(i) ==
    LET op == line[i]
        needed == CloneKeys(op.source, op.branch)
        carried == {r \in rows : r.branch = op.source
                                 /\ (r.kind # "compute" => RegOf(r.kind, r.name) # {})}
    IN
    /\ Starts(i, "clone") /\ ChainFree
    /\ IF op.source \notin branches THEN Leave(i)
       ELSE IF needed \subseteq op.keys
       THEN Become(i, [op EXCEPT !.pc = "fork", !.todo = carried])
       ELSE Redrive(i, needed)
    /\ UNCHANGED <<store, box, bytes>>

Copies(op, kinds) ==
    {[r EXCEPT !.branch = op.branch, !.handle = r.name] : r \in {r \in op.todo : r.kind \in kinds}}
Things(copies) == {Thing(r.branch, r.kind, r.handle, r.data) : r \in copies}
Directories(copies) ==
    {<<r.branch, r.data>> : r \in {r \in copies : r.data # None /\ r.kind # "storage"}}

\* The row is committed with the databases and the buckets.  A create that fails before it
\* leaves nothing a row names.
Fork(i) ==
    LET op == line[i]
        copies == Copies(op, Kind \ {"compute"})
    IN
    /\ At(i, "clone", "fork")
    /\ \/ /\ branches' = branches \cup {op.branch}
          /\ rows' = rows \cup copies
          /\ box' = box \cup Things(copies) /\ bytes' = bytes \cup Directories(copies)
          /\ Goto(i, "redeploy")
       \/ Fails("provision", line[i]) /\ Leave(i) /\ UNCHANGED <<branches, rows, box, bytes>>
    /\ UNCHANGED <<reg, wired, reserved>>

\* The groups deploy, the bindings follow; or the create is unwound.
Redeploy(i) ==
    LET op == line[i]
        copies == {[r EXCEPT !.data = DataOf("compute", r.name)] : r \in Copies(op, {"compute"})}
    IN
    /\ At(i, "clone", "redeploy")
    /\ \/ /\ rows' = rows \cup copies
          /\ box' = box \cup Things(copies) /\ bytes' = bytes \cup Directories(copies)
          /\ wired' = wired \cup {[w EXCEPT !.branch = op.branch] :
                                     w \in {w \in wired : w.branch = op.source /\ w.kind # "compute"}}
          /\ UNCHANGED branches
       \/ /\ Fails("provision", line[i])
          /\ branches' = branches \ {op.branch}
          /\ rows' = {r \in rows : r.branch # op.branch}
          /\ wired' = {w \in wired : w.branch # op.branch}
          /\ box' = {x \in box : x.branch # op.branch}
          /\ bytes' = {y \in bytes : y[1] # op.branch}
    /\ Leave(i)
    /\ UNCHANGED <<reg, reserved>>

-------------------------------------------------------------------------------
\* setBinding and setComputeDomain, on a service the branch carries.
Wire(b, k, n) ==
    /\ <<"bind", k, n>> \in Calls /\ b \in branches /\ Carries(b, k, n)
    /\ wired' = wired \cup {[branch |-> b, kind |-> k, name |-> n]}
    /\ UNCHANGED <<branches, reg, rows, reserved, box, bytes, line>>

Call ==
    \/ \E n \in Name : AddGroup(n)
    \/ \E b \in Branch, k \in Kind, n \in Name : AskAdd(b, k, n) \/ AskRemove(b, k, n) \/ Wire(b, k, n)
    \/ \E b \in Branch, n \in Name : AskDeploy(b, n)
    \/ \E k \in Kind, n, m \in Name : AskRename(k, n, m)
    \/ \E s, c \in Branch : AskClone(s, c)

AddSteps(i) == StartAdd(i) \/ Provision(i) \/ ProvisionFails(i)
DeploySteps(i) == StartDeploy(i) \/ Deploy(i) \/ DeployFails(i)
RemoveSteps(i) == StartRemove(i) \/ RemoveContainer(i) \/ RemoveBytes(i)
RenameSteps(i) ==
    \/ StartRename(i) \/ RenameBreaks(i) \/ Undo(i) \/ FinishRename(i)
    \/ \E b \in Branch : RenameOne(i, b) \/ RenameNotNeeded(i, b)
CloneSteps(i) == StartClone(i) \/ Fork(i) \/ Redeploy(i)

Step(i) == AddSteps(i) \/ DeploySteps(i) \/ RemoveSteps(i) \/ RenameSteps(i) \/ CloneSteps(i)

Next == Call \/ \E i \in DOMAIN line : Step(i)

Spec == Init /\ [][Next]_vars

-------------------------------------------------------------------------------
\* Properties.

\* The state stays within its types.
TypeOK ==
    /\ branches \subseteq Branch
    /\ reg \subseteq [kind : Kind, name : Name, data : Data \cup {None}]
    /\ rows \subseteq [branch : Branch, kind : Kind, name : Name, handle : Name, data : Data \cup {None}]
    /\ wired \subseteq [branch : Branch, kind : Kind, name : Name]
    /\ box \subseteq [branch : Branch, kind : Kind, handle : Name, data : Data \cup {None}]
    /\ bytes \subseteq Branch \X Data

\* "Every kind shares ONE label space" (engine.ts, assertHostFree): whatever adds, deploys,
\* renames and clones overlap, no two services of a branch answer on one hostname.
OneAnswersPerHost ==
    \A b \in branches : \A r, s \in Answering(b) : Label[r.kind][r.name] = Label[s.kind][s.name] => r = s

\* A service's bytes are its own: no two services of a branch have the same.
NothingShared ==
    \A r, s \in rows : r.branch = s.branch /\ r.data = s.data /\ r.data # None => r = s

\* A row names bytes that are there: a removal that waited behind a rename does not take
\* the renamed service's directory (engine.ts, freshRemoval).
RowsHaveBytes ==
    \A r \in rows : r.data # None /\ r.kind # "storage" => <<r.branch, r.data>> \in bytes

\* "The container has to be PROVEN gone before its bind-mounted /data is deleted"
\* (engine.ts, removeComputeLocked): a service's bytes do not go from under a container.
BytesOutliveContainer ==
    [][\A y \in bytes \ bytes' : \A r \in rows :
          r.kind # "storage" /\ r.branch = y[1] /\ r.data = y[2] =>
             \A x \in box' : x.kind = "storage" \/ x.branch # y[1] \/ x.data # y[2]]_vars

\* A registration is there as long as a row carries it, a volume's included: "dropping it
\* would strip that branch's row of its type, name and data key" (engine.ts,
\* retireRegistration).
RowsAreRegistered ==
    \A r \in rows : IF r.kind = "compute" THEN r.data # None => r.data = DataOf("compute", r.name)
                    ELSE RegOf(r.kind, r.name) # {}

\* A clone comes to have every database its source has when it is committed: a rename in
\* between drops none (engine.ts, renameKeys).
CloneCarriesAll ==
    [][\A c \in branches' \ branches : \A i \in DOMAIN line :
          line[i].branch = c /\ line[i].pc = "fork" =>
             \A r \in rows : r.branch = line[i].source /\ r.kind \notin {"compute", "storage"} =>
                \E q \in rows' : q.branch = c /\ q.kind = r.kind /\ q.name = r.name]_vars

\* A hostname is reserved only for an operation in flight: nothing leaks one for ever.
ReservationsAreLive ==
    \A h \in reserved : \E i \in DOMAIN line : Owner(line[i]) = h.owner /\ line[i].pc # "queued"

\* A rename that is recorded has been carried out: no container of the service is left
\* under its old name, however often the rename was broken off before.
RenamedIsWhole ==
    [][\A i \in DOMAIN line :
          line[i].pc = "renaming" /\ line[i].todo = {} /\ line' = RemoveAt(line, i) =>
             \A b \in Carriers(line[i].kind, line[i].name) :
                \A x \in box' : x.branch = b /\ x.kind = line[i].kind => x.handle # line[i].name]_vars

\* What is wired to a service, a binding or a custom domain, finds it after a rename.
WiresHold == \A w \in wired : Carries(w.branch, w.kind, w.name)

\* A hostname names one service, and what a row or a binding names is there.
NamesHold == OneAnswersPerHost /\ RowsHaveBytes /\ WiresHold

\* No bytes are lost: not from under a container, and not between a source and its clone.
BytesAreKept == BytesOutliveContainer /\ CloneCarriesAll

===============================================================================
