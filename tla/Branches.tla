------------------------------- MODULE Branches -------------------------------
(***************************************************************************)
(* The life of projects and branches in src/src/engine.ts: create (claim,  *)
(* provision, commit, build on, unwind), rename, deploy, delete, project   *)
(* create and delete, and the reclaim at boot (src/src/state.ts).          *)
(*                                                                         *)
(* Operations stand in one line in the order of their calls; an operation  *)
(* runs once nobody before it shares a key with it, which is KeyLock's     *)
(* promise for several keys.  A branch key stands for itself and the keys  *)
(* of the services on the branch.  An action is what happens between two   *)
(* awaits.  A stack is everything named after a ref: network, containers,  *)
(* buckets, bytes; a teardown takes it away at its end or leaves it.       *)
(***************************************************************************)
EXTENDS Naturals, SequencesExt

CONSTANTS
    Project,    \* projects, each with a name and a slug of its own
    Branch,     \* branch ids; an id that has left no trace is a new one
    Name,       \* branch names
    Main,       \* the name of a default branch
    Stack,      \* refs
    Ref,        \* Ref[p][n]: the ref of a branch n of p; not injective over projects
    CreateAs,   \* projects and names the instance creates branches under
    Calls,      \* which of "deploy" and "secret" the instance calls
    RenameTo,   \* names the instance renames branches to
    Rounds,     \* CREATE_LOCK_ROUNDS
    MaxOps,     \* bound: operations in flight
    None,
    Debris      \* what a crash or a failed compensation left, which no row names

ASSUME BranchesAssumption ==
    /\ Main \in Name /\ CreateAs \subseteq Project \X Name /\ RenameTo \subseteq Name
    /\ Calls \subseteq {"deploy", "secret"}
    /\ Ref \in [Project -> [Name -> Stack]]
    /\ Rounds \in Nat \ {0} /\ MaxOps \in Nat
    /\ None \notin Branch \cup Project \cup Stack \cup {Debris} /\ Debris \notin Branch
    /\ Project \cap Branch = {}

Row == [project : Project, name : Name, ref : Stack, default : BOOLEAN,
        status : {"ready", "cleanup-failed"}, app : Branch \cup {None}]

ASSUME NoneIsNoRow == None \notin Row

VARIABLES
    projects,  \* state.projects
    row,       \* state.branches
    claim,     \* state.branchReservations
    secret,    \* branch-scoped user secrets: by branch NAME; of: the branch it was given to
    built,     \* docker and disk: whose stack is there under a ref
    line       \* the operations in flight, in the order of their calls

store == <<projects, row, claim, secret>>
vars == <<store, built, line>>

NewOp == [kind |-> "create", pc |-> "queued", project |-> None, branch |-> None,
          name |-> Main, source |-> None, target |-> None, keys |-> {}, cloned |-> FALSE,
          todo |-> {}, kept |-> FALSE, round |-> 1]

Init ==
    /\ projects = {}
    /\ row = [b \in Branch |-> None]
    /\ claim = [r \in Stack |-> None]
    /\ secret = {}
    /\ built = [r \in Stack |-> None]
    /\ line = <<>>

-------------------------------------------------------------------------------
\* Reading the state.

Rows == {b \in Branch : row[b] # None}
BranchesOf(p) == {b \in Rows : row[b].project = p}
Named(p, n) == {b \in BranchesOf(p) : row[b].name = n}
Usable(b) == b \in Rows /\ row[b].status = "ready"
SecretsNamed(p, names) == {s \in secret : s.project = p /\ s.branch \in names}

Fresh(b) ==
    /\ b \notin Rows
    /\ \A r \in Stack : claim[r] # b /\ built[r] # b
    /\ \A s \in secret : s.of # b
    /\ \A c \in Rows : row[c].app # b
    /\ \A i \in DOMAIN line : b \notin line[i].keys /\ line[i].branch # b

RefOf(op) == Ref[op.project][op.name]

-------------------------------------------------------------------------------
\* The line of operations.

Enter(op) == Len(line) < MaxOps /\ line' = Append(line, op)
Leave(i) == line' = RemoveAt(line, i)
Goto(i, pc) == line' = [line EXCEPT ![i].pc = pc]

Granted(i) == \A j \in 1 .. i - 1 : line[j].keys \cap line[i].keys = {}

\* An operation of this kind that is about to take its first step under the lock.
Starts(i, kind) == line[i].kind = kind /\ line[i].pc = "queued" /\ Granted(i)

At(i, pc) == line[i].pc = pc

-------------------------------------------------------------------------------
\* Creating: the calls.

\* The project's id is new; a name or a slug that is taken is refused before anything else.
AskProject(p, b) ==
    /\ p \notin projects /\ \A i \in DOMAIN line : line[i].project # p
    /\ Fresh(b)
    /\ Enter([NewOp EXCEPT !.kind = "project", !.project = p, !.branch = b, !.keys = {p}])
    /\ UNCHANGED <<store, built>>

AskCreate(p, n, source, b) ==
    /\ p \in projects /\ <<p, n>> \in CreateAs /\ Named(p, n) = {} /\ source \in BranchesOf(p)
    /\ Fresh(b)
    /\ Enter([NewOp EXCEPT !.project = p, !.branch = b, !.name = n, !.source = source,
                           !.keys = {p, source, b}])
    /\ UNCHANGED <<store, built>>

\* createBranchLocked reads both rows again.
StartCreate(i) ==
    /\ Starts(i, "create")
    /\ IF /\ line[i].project \in projects /\ Usable(line[i].source)
          /\ Named(line[i].project, line[i].name) = {}
       THEN Goto(i, "provision") ELSE Leave(i)
    /\ UNCHANGED <<store, built>>

StartProject(i) ==
    /\ Starts(i, "project")
    /\ Goto(i, "provision")
    /\ UNCHANGED <<store, built>>

-------------------------------------------------------------------------------
\* Creating: provisionBranch, one at a time in the daemon.

Provisioning == {"network", "stack", "rollback"}

\* reserveBranchRef.  (Mutant: the name is checked, the ref is not.)
ClaimableName(op) ==
    Named(op.project, op.name) = {} /\ claim[RefOf(op)] \in {None, op.branch}
Claimable(op) ==
    /\ Named(op.project, op.name) = {}
    /\ \A b \in Rows : row[b].ref # RefOf(op)
    /\ claim[RefOf(op)] \in {None, op.branch}

\* releaseBranchRef.
Release(op) == claim' = [claim EXCEPT ![RefOf(op)] = IF @ = op.branch THEN None ELSE @]

\* A create that failed before its commit; createProject takes its row back.
Refused(i) ==
    /\ Leave(i)
    /\ projects' = projects \ (IF line[i].kind = "project" THEN {line[i].project} ELSE {})

Provision(i) ==
    LET op == line[i] IN
    /\ At(i, "provision") /\ \A j \in DOMAIN line : line[j].pc \notin Provisioning
    /\ \/ /\ Claimable(op)
          /\ claim' = [claim EXCEPT ![RefOf(op)] = op.branch]
          /\ projects' = projects \cup {op.project}
          /\ Goto(i, "network")
       \/ ~Claimable(op) /\ Refused(i) /\ UNCHANGED claim
    /\ UNCHANGED <<row, secret, built>>

\* docker network create, which adopts a leftover, then the hostnames and the lanes; a
\* hostname or a lane that cannot be had leaves the network behind.
Network(i) ==
    LET op == line[i]
        r == RefOf(op)
    IN
    /\ At(i, "network")
    /\ \/ /\ built' = [built EXCEPT ![r] = op.branch]
          /\ Goto(i, "stack")
          /\ UNCHANGED <<projects, claim>>
       \/ /\ built' = [built EXCEPT ![r] = Debris] \/ UNCHANGED built
          /\ Release(op)
          /\ Refused(i)
    /\ UNCHANGED <<row, secret>>

\* Databases, buckets; then the row, which supersedes the claim.
Commit(i) ==
    LET op == line[i] IN
    /\ At(i, "stack")
    /\ \/ /\ row' = [row EXCEPT ![op.branch] =
                        [project |-> op.project, name |-> op.name, ref |-> RefOf(op),
                         default |-> op.kind = "project", status |-> "ready", app |-> None]]
          /\ Release(op)
          /\ IF op.kind = "project" THEN Leave(i) ELSE Goto(i, "volumes")
       \/ Goto(i, "rollback") /\ UNCHANGED <<row, claim>>
    /\ UNCHANGED <<projects, secret, built>>

\* The compensation removes by name, and only while the claim is its own.  What fails to
\* go is passed over.
Rollback(i) ==
    LET op == line[i]
        r == RefOf(op)
    IN
    /\ At(i, "rollback")
    /\ \/ claim[r] = op.branch /\ built' = [built EXCEPT ![r] = None]
       \/ built' = [built EXCEPT ![r] = Debris]
    /\ Release(op)
    /\ Refused(i)
    /\ UNCHANGED <<row, secret>>

-------------------------------------------------------------------------------
\* Creating: what is built on the committed row.

\* A step after the commit that may fail, which unwinds the create.
Or(i, next) == Goto(i, next) \/ Goto(i, "unwind")

\* forkVolumes, cloneInto.
Volumes(i) ==
    /\ At(i, "volumes")
    /\ Or(i, IF row[line[i].source].app = None THEN "secrets" ELSE "redeploy")
    /\ UNCHANGED <<store, built>>

\* deployAllocatingPort: the branch is looked up by the name the create was called with.
\* A key the create holds is re-entered; another branch's is waited for, while it holds its
\* own: that is a second acquisition.
Redeploy(i) ==
    LET op == line[i]
        found == Named(op.project, op.name)
    IN
    /\ At(i, "redeploy")
    /\ \/ found = {} /\ Goto(i, "unwind")
       \/ \E t \in found :
             /\ t \in op.keys \/ \A j \in DOMAIN line : t \notin line[j].keys
             /\ IF Usable(t)
                THEN line' = [line EXCEPT ![i].pc = "deploy", ![i].target = t,
                                         ![i].keys = @ \cup {t}]
                ELSE Goto(i, "unwind")
    /\ UNCHANGED <<store, built>>

\* deployLocked: the container, then the row.
Deploy(i) ==
    LET op == line[i] IN
    /\ At(i, "deploy")
    /\ \/ /\ row' = [row EXCEPT ![op.target].app = op.branch]
          /\ IF op.kind = "create" THEN Goto(i, "secrets") ELSE Leave(i)
       \/ /\ IF op.kind = "create" THEN Goto(i, "unwind") ELSE Leave(i)
          /\ UNCHANGED row
    /\ UNCHANGED <<projects, claim, secret, built>>

\* (Mutant: the clone's name as it was called.)
InheritedAsCalled(op) ==
    {[s EXCEPT !.branch = op.name, !.of = op.branch] :
        s \in SecretsNamed(op.project, {row[op.source].name})}

\* The parent's secrets for the clone, both names read in the step that writes.
Inherited(op) ==
    {[s EXCEPT !.branch = row[op.branch].name, !.of = op.branch] :
        s \in SecretsNamed(op.project, {row[op.source].name})}

CopySecrets(i) ==
    /\ At(i, "secrets")
    /\ secret' = secret \cup Inherited(line[i])
    /\ line' = [line EXCEPT ![i].pc = "settle", ![i].cloned = TRUE]
    /\ UNCHANGED <<projects, row, claim, built>>

\* sleepNewBranch.
Settle(i) ==
    /\ At(i, "settle")
    /\ Leave(i) \/ Goto(i, "unwind")
    /\ UNCHANGED <<store, built>>

-------------------------------------------------------------------------------
\* Tearing down.

\* (Mutant: the row goes whether or not everything went.)
TeardownDropping(b) ==
    /\ row' = [row EXCEPT ![b] = None]
    /\ secret' = secret \ SecretsNamed(row[b].project, {row[b].name})
    /\ built' = [built EXCEPT ![row[b].ref] = None] \/ UNCHANGED built

\* teardownBranch and the row that goes with it, when everything went.
Teardown(b) ==
    /\ row' = [row EXCEPT ![b] = None]
    /\ secret' = secret \ SecretsNamed(row[b].project, {row[b].name})
    /\ built' = [built EXCEPT ![row[b].ref] = None]

\* When something stayed, so does the row.
Keep(b) == row' = [row EXCEPT ![b].status = "cleanup-failed"]

\* unwindBranch.  The copies that were made go in either case, under every name the clone
\* has had that no other branch has now.
Unwind(i) ==
    LET op == line[i]
        b == op.branch
        taken == {row[c].name : c \in BranchesOf(op.project) \ {b}}
        copies == IF op.cloned
                  THEN SecretsNamed(op.project, {op.name, row[b].name} \ taken) ELSE {}
    IN
    /\ At(i, "unwind")
    /\ \/ /\ row' = [row EXCEPT ![b] = None]
          /\ secret' = secret \ (copies \cup SecretsNamed(op.project, {row[b].name}))
          /\ built' = [built EXCEPT ![row[b].ref] = None]
       \/ /\ Keep(b)
          /\ secret' = secret \ copies
          /\ UNCHANGED built
    /\ Leave(i)
    /\ UNCHANGED <<projects, claim>>

AskDelete(b) ==
    /\ b \in Rows /\ ~row[b].default
    /\ Enter([NewOp EXCEPT !.kind = "delete", !.project = row[b].project, !.branch = b,
                           !.keys = {b}])
    /\ UNCHANGED <<store, built>>

StartDelete(i) ==
    /\ Starts(i, "delete")
    /\ IF line[i].branch \in Rows THEN Goto(i, "teardown") ELSE Leave(i)
    /\ UNCHANGED <<store, built>>

Delete(i) ==
    /\ At(i, "teardown")
    /\ \/ Teardown(line[i].branch)
       \/ Keep(line[i].branch) /\ UNCHANGED <<secret, built>>
    /\ Leave(i)
    /\ UNCHANGED <<projects, claim>>

AskDrop(p) ==
    /\ p \in projects
    /\ Enter([NewOp EXCEPT !.kind = "drop", !.project = p, !.keys = {p} \cup BranchesOf(p)])
    /\ UNCHANGED <<store, built>>

\* The branches are listed again.  A branch that is new since the call has its key taken
\* by going back to the end of the line, a bounded number of times.
Drop(i, todo) ==
    IF todo = {} THEN Leave(i) /\ projects' = projects \ {line[i].project}
    ELSE line' = [line EXCEPT ![i].pc = "demolish", ![i].todo = todo] /\ UNCHANGED projects

\* (Mutant: the new ones without their keys.)
StartDropWithoutKeys(i) ==
    /\ Starts(i, "drop")
    /\ Drop(i, BranchesOf(line[i].project))
    /\ UNCHANGED <<row, claim, secret, built>>

StartDrop(i) ==
    LET op == line[i]
        live == BranchesOf(op.project)
    IN
    /\ Starts(i, "drop")
    /\ \/ live \subseteq op.keys /\ Drop(i, live)
       \/ /\ ~(live \subseteq op.keys) /\ op.round < Rounds
          /\ line' = Append(RemoveAt(line, i),
                            [op EXCEPT !.keys = @ \cup live, !.round = @ + 1])
          /\ UNCHANGED projects
       \/ /\ ~(live \subseteq op.keys) /\ op.round = Rounds
          /\ Leave(i)
          /\ UNCHANGED projects
    /\ UNCHANGED <<row, claim, secret, built>>

\* One branch after the other; the project goes when no branch stayed.
Demolish(i) ==
    LET op == line[i] IN
    /\ At(i, "demolish")
    /\ \E b \in op.todo, ok \in BOOLEAN :
          /\ IF ok THEN Teardown(b) ELSE Keep(b) /\ UNCHANGED <<secret, built>>
          /\ IF op.todo = {b}
             THEN /\ Leave(i)
                  /\ projects' = IF ok /\ ~op.kept THEN projects \ {op.project} ELSE projects
             ELSE /\ line' = [line EXCEPT ![i].todo = @ \ {b}, ![i].kept = @ \/ ~ok]
                  /\ UNCHANGED projects
    /\ UNCHANGED claim

-------------------------------------------------------------------------------
\* Other calls.

AskDeploy(b) ==
    /\ "deploy" \in Calls /\ b \in Rows
    /\ Enter([NewOp EXCEPT !.kind = "deploy", !.project = row[b].project, !.branch = b,
                           !.target = b, !.keys = {b}])
    /\ UNCHANGED <<store, built>>

StartDeploy(i) ==
    /\ Starts(i, "deploy")
    /\ IF Usable(line[i].branch) THEN Goto(i, "deploy") ELSE Leave(i)
    /\ UNCHANGED <<store, built>>

\* renameBranch: one synchronous step, no lock; the ref stays, the secrets follow.
Rename(b, n) ==
    /\ b \in Rows /\ ~row[b].default /\ Named(row[b].project, n) = {}
    /\ row' = [row EXCEPT ![b].name = n]
    /\ secret' = {IF s.project = row[b].project /\ s.branch = row[b].name
                  THEN [s EXCEPT !.branch = n] ELSE s : s \in secret}
    /\ UNCHANGED <<projects, claim, built, line>>

SetSecret(b) ==
    LET given == [project |-> row[b].project, branch |-> row[b].name, of |-> b] IN
    /\ "secret" \in Calls /\ b \in Rows /\ given \notin secret
    /\ secret' = secret \cup {given}
    /\ UNCHANGED <<projects, row, claim, built, line>>

\* reclaimAbandonedReservations.
Reclaimed == [r \in Stack |-> IF claim[r] \in Rows THEN claim[r] ELSE None]

\* The daemon dies and boots: operations are gone, the claims are reclaimed.
Crash ==
    /\ line # <<>> /\ line' = <<>>
    /\ claim' = Reclaimed
    /\ built' = [r \in Stack |->
                    IF built[r] = None \/ \E b \in Rows : row[b].ref = r THEN built[r] ELSE Debris]
    /\ UNCHANGED <<projects, row, secret>>

-------------------------------------------------------------------------------
Call ==
    \/ \E p \in Project :
          \/ AskDrop(p)
          \/ \E b \in Branch : AskProject(p, b)
          \/ \E b, source \in Branch, n \in Name : AskCreate(p, n, source, b)
    \/ \E b \in Branch : AskDelete(b) \/ AskDeploy(b) \/ SetSecret(b)
    \/ \E b \in Branch, n \in RenameTo : Rename(b, n)

Work(i) ==
    \/ StartCreate(i) \/ StartProject(i) \/ Provision(i) \/ Network(i) \/ Commit(i)
    \/ Rollback(i) \/ Volumes(i) \/ Redeploy(i) \/ CopySecrets(i) \/ Settle(i) \/ Unwind(i)
    \/ StartDeploy(i) \/ Deploy(i) \/ StartDelete(i) \/ Delete(i) \/ StartDrop(i) \/ Demolish(i)

Next == Call \/ (\E i \in DOMAIN line : Work(i)) \/ Crash

Spec == Init /\ [][Next]_vars
-------------------------------------------------------------------------------
\* The types of the state and of the operations in flight.
TypeOK ==
    /\ projects \subseteq Project
    /\ row \in [Branch -> Row \cup {None}]
    /\ claim \in [Stack -> Branch \cup {None}]
    /\ secret \subseteq [project : Project, branch : Name, of : Branch]
    /\ built \in [Stack -> Branch \cup {None, Debris}]
    /\ Len(line) <= MaxOps
    /\ \A i \in DOMAIN line :
          /\ line[i].kind \in {"project", "create", "delete", "deploy", "drop"}
          /\ line[i].project \in Project
          /\ line[i].keys \subseteq Project \cup Branch
          /\ line[i].round \in 1 .. Rounds

\* A branch that is ready has its own stack, whole, under its ref: no create builds on the
\* ref of another branch, of its own project or of any other, and no compensation or
\* delete takes away a stack that is not its own (reserveBranchRef, ownsBranchRef).
StackIsOwn == \A b \in Rows : row[b].status = "ready" => built[row[b].ref] = b

\* What was built is named by a branch row or is in the hands of an operation, unless a
\* crash or a failed compensation left it: the row goes last and only when all is gone.
StacksAreNamed ==
    \A r \in Stack :
        built[r] \in Branch =>
            \/ \E b \in Rows : row[b].ref = r
            \/ \E i \in DOMAIN line : line[i].pc \in Provisioning /\ RefOf(line[i]) = r

\* A claim on a ref is held by the create that is provisioning it, so that a name whose
\* create failed or was interrupted can be created again.
ClaimsAreLive ==
    \A r \in Stack :
        claim[r] # None =>
            \E i \in DOMAIN line : line[i].pc \in Provisioning /\ line[i].branch = claim[r]

\* A branch row's project exists, though creates and project deletes overlap.
NoOrphans == \A b \in Rows : row[b].project \in projects

\* A secret is filed under the name of the branch it was given to, by its developer or by
\* a fork: none is left under a name that the next branch of that name would inherit.
NoStraySecrets ==
    \A s \in secret :
        s.of \in Rows /\ row[s.of].project = s.project /\ row[s.of].name = s.branch

\* Nothing outlives what it can be deleted by: a stack its row or its operation, a claim
\* its create (reclaimAbandonedReservations at boot), a branch its project, a secret the
\* branch it was given to.
NothingAbandoned == StacksAreNamed /\ ClaimsAreLive /\ NoOrphans /\ NoStraySecrets

\* Every branch has its own stack, and nothing that was built or claimed is without one.
StacksHold == StackIsOwn /\ NothingAbandoned

\* The operations past their queue that have branch b under a key or on their list.
AtWorkOn(b) == {i \in DOMAIN line : line[i].pc # "queued" /\ b \in line[i].keys \cup line[i].todo}

\* A branch row goes only in a step of an operation that has the branch to itself: no other
\* operation is at work on it, also when it is newer than the delete of its project.
DemolishesAlone == [][\A b \in Rows : row'[b] = None => Cardinality(AtWorkOn(b)) <= 1]_vars

===============================================================================
