------------------------------- MODULE Executor -------------------------------
(***************************************************************************)
(* Template deployments, src/src/templates/executor.ts, on one branch: a   *)
(* call is accepted (idempotency, names, record), a run in the background  *)
(* creates services, writes their variables, deploys and checks them, and  *)
(* the record is what a retry with the same id resumes from.  All are of   *)
(* one template, so the copies contend for the same names.                 *)
(*                                                                         *)
(* A run works on its own copy of the record and writes it back where the  *)
(* code calls save().  An action is what happens between two awaits.  The  *)
(* daemon can be killed there and starts again; a run that makes no        *)
(* progress for the lease can be overtaken by a retry while it lives.      *)
(***************************************************************************)
EXTENDS Naturals, Sequences, FiniteSets

CONSTANTS
    Deployment,  \* deployment ids
    Manifest,    \* the sequence of the manifest's services
    Database,    \* those of type postgres; the others are web services
    Copies,      \* MAX_TEMPLATE_COPIES
    MaxRuns,     \* bound: calls that are accepted
    Slow,        \* can a run outlast its lease?
    Twice,       \* can a deployment be called again while a call is being accepted?
    User,        \* an owner that is no deployment: services add by hand
    ByHand,      \* what people add and remove on the branch meanwhile: <<"add", name>>, ...
    None

Service == {Manifest[i] : i \in DOMAIN Manifest}
Web == Service \ Database
Copy == 1..Copies
Name == Service \X Copy           \* `name`, `name-2`, ...
Run == 1..MaxRuns                 \* a run and its claimToken
Owner == Deployment \cup {User}

Accepting == {"accepting", "minted"}
Working == {"look", "act", "queued", "provisioning", "write", "ready", "deploy", "health"}

\* A row of state.templateDeployments, a binding of a variable, a container.
Record == [status : {"running", "failed", "succeeded"}, claim : Run, copy : Copy,
           ids : SUBSET Service]
Binding == [copy : Copy, value : Run]
Container == [by : Deployment, value : Run \cup {0}]

ASSUME ExecutorAssumption ==
    /\ Database \subseteq Service /\ Web # {}
    /\ Manifest \in Seq(Service) /\ Len(Manifest) = Cardinality(Service)
    /\ Copies \in Nat \ {0} /\ MaxRuns \in Nat \ {0}
    /\ Slow \in BOOLEAN /\ Twice \in BOOLEAN /\ ByHand \subseteq {"add", "remove"} \X Name
    /\ User \notin Deployment /\ None \notin Owner
    /\ None \notin Run /\ None \notin Record /\ None \notin Binding /\ None \notin Container

VARIABLES
    record,     \* state.templateDeployments
    aged,       \* running records nobody wrote for RUN_LEASE_MS
    run,        \* what each run holds in memory
    owner,      \* registered names, with the template_deployment_id they carry
    maker,      \* names the branch carries, and who put the service there
    secret,     \* user secrets of the branch: a row per variable, bound to one service
    app,        \* containers: who deployed each, and the value its variable had
    chain,      \* the run inside serialize('provision')
    up,         \* does the daemon run?
    overtaken,  \* history: deployments called again while a run of theirs lived
    tainted,    \* history: names whose variable another copy took
    removed     \* history: names people removed

branch == <<owner, maker, secret, app>>
history == <<overtaken, tainted, removed>>
vars == <<record, aged, run, branch, chain, up, history>>

\* What a run holds in memory.
Attempt == [pc : {"idle", "ended"} \cup Accepting \cup Working, of : Deployment \cup {None},
            copy : Copy, ids : SUBSET Service, left : SUBSET Service,
            sees : Owner \cup {None}, mine : BOOLEAN, value : Run \cup {0}]

Idle == [pc |-> "idle", of |-> None, copy |-> 1, ids |-> {}, left |-> {},
         sees |-> None, mine |-> FALSE, value |-> 0]

Init ==
    /\ record = [d \in Deployment |-> None]
    /\ aged = {}
    /\ run = [r \in Run |-> Idle]
    /\ owner = [x \in Name |-> None]
    /\ maker = [x \in Name |-> None]
    /\ secret = [s \in Web |-> None]
    /\ app = [x \in Name |-> None]
    /\ chain = None
    /\ up = TRUE
    /\ overtaken = {} /\ tainted = {} /\ removed = {}

-------------------------------------------------------------------------------
\* Reading the state.

At(r, pc) == run[r].pc = pc
Goto(r, pc) == run' = [run EXCEPT ![r].pc = pc]
Lives(r, d) == run[r].pc \in Working /\ run[r].of = d
First(S) == Manifest[CHOOSE i \in DOMAIN Manifest :
                        Manifest[i] \in S /\ \A j \in 1 .. i - 1 : Manifest[j] \notin S]
Current(r) == First(run[r].left)
NameOf(r, s) == <<s, run[r].copy>>

\* services(): the rows of the branch.  A compute group is a row once it is registered, a
\* database once the branch carries it.
Listed(x) == maker[x] # None

\* (Mutant: a retry generates anew.)
RecoveredNever(before) == {}

\* recoverStoredVariables: what the attempt before wrote, as far as it is bound to its service.
Recovered(before) ==
    {secret[s].value : s \in {t \in Web \cap before.ids :
                                 secret[t] # None /\ secret[t].copy = before.copy}}

-------------------------------------------------------------------------------
\* Accepting a call.

\* A finished deployment and one whose run is live are answered with the record.
Restartable(d) ==
    record[d] # None =>
        record[d].status = "failed" \/ (record[d].status = "running" /\ d \in aged)

Ask(d) ==
    /\ up /\ Restartable(d)
    /\ Twice \/ \A r \in Run : ~(run[r].pc \in Accepting /\ run[r].of = d)
    /\ \E r \in Run :
        /\ At(r, "idle") /\ \A q \in 1 .. r - 1 : ~At(q, "idle")
        /\ run' = [run EXCEPT ![r] =
             IF record[d] = None THEN [Idle EXCEPT !.pc = "accepting", !.of = d]
             ELSE LET old == Recovered(record[d]) IN
                  [Idle EXCEPT !.pc = "accepting", !.of = d, !.copy = record[d].copy,
                               !.ids = record[d].ids,
                               !.value = IF old = {} THEN 0 ELSE CHOOSE v \in old : TRUE]]
    /\ overtaken' = IF \E q \in Run : Lives(q, d) THEN overtaken \cup {d} ELSE overtaken
    /\ UNCHANGED <<record, aged, branch, chain, up, tainted, removed>>

\* The gate, missing variables, the quota: nothing was written yet.
Refuse(r) ==
    /\ At(r, "accepting")
    /\ run' = [run EXCEPT ![r] = [Idle EXCEPT !.pc = "ended"]]
    /\ UNCHANGED <<record, aged, branch, chain, up, history>>

\* initialSpec, mintServiceNames: the first copy of which no name is taken; a retry that
\* created something keeps its names.  (Mutant: it mints them again.)
FreeCopies(r) == {c \in Copy : \A s \in Service : ~Listed(<<s, c>>)}
MintedCopies(r) == IF run[r].ids # {} THEN {run[r].copy} ELSE FreeCopies(r)

Mint(r) ==
    /\ At(r, "accepting") /\ MintedCopies(r) # {}
    /\ run' = [run EXCEPT ![r].pc = "minted",
                          ![r].copy = CHOOSE c \in MintedCopies(r) :
                                         \A k \in MintedCopies(r) : c <= k]
    /\ UNCHANGED <<record, aged, branch, chain, up, history>>

\* The record is written after the quota's listing, and the run begins.
Claim(r) ==
    LET d == run[r].of IN
    /\ At(r, "minted")
    /\ record' = [record EXCEPT ![d] =
                    [status |-> "running", claim |-> r, copy |-> run[r].copy, ids |-> run[r].ids]]
    /\ aged' = aged \ {d}
    /\ run' = [run EXCEPT ![r].pc = "look", ![r].left = Service]
    /\ UNCHANGED <<branch, chain, up, history>>

-------------------------------------------------------------------------------
\* The end of a run and of its steps.

Holds(r) == record[run[r].of] # None /\ record[run[r].of].claim = r

\* save().
Save(r, ids) ==
    IF Holds(r)
    THEN /\ record' = [record EXCEPT ![run[r].of].ids = ids]
         /\ aged' = aged \ {run[r].of}
    ELSE UNCHANGED <<record, aged>>

\* finish(), and the save before it; failed stands for partial too.
Finish(r, status) ==
    /\ IF Holds(r)
       THEN /\ record' = [record EXCEPT ![run[r].of].ids = run[r].ids,
                                        ![run[r].of].status = status]
            /\ aged' = aged \ {run[r].of}
       ELSE UNCHANGED <<record, aged>>
    /\ run' = [run EXCEPT ![r] = [Idle EXCEPT !.pc = "ended"]]

\* Service s of the loop is done; after the last one comes `next`, with `rest` to loop over.
Served(r, s, ids, loop, next, rest) ==
    LET left == run[r].left \ {s} IN
    run' = [run EXCEPT ![r] =
              [@ EXCEPT !.ids = ids, !.sees = None, !.mine = FALSE,
                        !.pc = IF left = {} THEN next ELSE loop,
                        !.left = IF left = {} THEN rest ELSE left]]

Fail(r) == Finish(r, "failed")

-------------------------------------------------------------------------------
\* create_services.

Created(r, s) ==
    /\ Save(r, run[r].ids \cup {s})
    /\ Served(r, s, run[r].ids \cup {s}, "look", "write", Web)

\* The rows come back from docker and are used a moment later.
Look(r) ==
    LET x == NameOf(r, Current(r)) IN
    /\ At(r, "look")
    /\ run' = [run EXCEPT ![r].pc = "act", ![r].sees = IF Listed(x) THEN owner[x] ELSE None]
    /\ UNCHANGED <<record, aged, branch, chain, up, history>>

\* What an earlier attempt created, by the id it recorded or by the deployment the row names.
Mine(r) ==
    /\ run[r].sees # None
    /\ Current(r) \in run[r].ids \/ run[r].sees = run[r].of

Reuse(r) ==
    /\ At(r, "act") /\ Mine(r)
    /\ Created(r, Current(r))
    /\ UNCHANGED <<branch, chain, up, history>>

Conflict(r) ==
    /\ At(r, "act") /\ run[r].sees # None /\ ~Mine(r)
    /\ Fail(r)
    /\ UNCHANGED <<branch, chain, up, history>>

\* addComputeService refuses a group that is registered.  (Mutant: it registers it again.)
RegistrableAgain(x) == TRUE
Registrable(x) == owner[x] = None

\* addComputeService: registered and listed at once, or refused.
AddWeb(r) ==
    LET s == Current(r)
        x == NameOf(r, s)
    IN
    /\ At(r, "act") /\ run[r].sees = None /\ s \in Web
    /\ \/ /\ Registrable(x)
          /\ owner' = [owner EXCEPT ![x] = run[r].of]
          /\ maker' = [maker EXCEPT ![x] = run[r].of]
          /\ Created(r, s)
       \/ ~Registrable(x) /\ Fail(r) /\ UNCHANGED <<owner, maker>>
    /\ UNCHANGED <<secret, app, chain, up, history>>

CallDb(r) ==
    /\ At(r, "act") /\ run[r].sees = None /\ Current(r) \in Database
    /\ Goto(r, "queued")
    /\ UNCHANGED <<record, aged, branch, chain, up, history>>

\* addDbService: the name is registered before its container is there.
AddDb(r) ==
    LET x == NameOf(r, Current(r)) IN
    /\ At(r, "queued") /\ chain = None
    /\ \/ /\ maker[x] = None
          /\ owner' = [owner EXCEPT ![x] = IF @ = None THEN run[r].of ELSE @]
          /\ chain' = r
          /\ run' = [run EXCEPT ![r].pc = "provisioning", ![r].mine = owner[x] = None]
          /\ UNCHANGED <<record, aged>>
       \/ maker[x] # None /\ Fail(r) /\ UNCHANGED <<owner, chain>>
    /\ UNCHANGED <<maker, secret, app, up, history>>

\* serialize('provision') goes on whether its task succeeded or threw.
LeaveChain == chain' = None

Provisioned(r) ==
    LET s == Current(r) IN
    /\ At(r, "provisioning")
    /\ LeaveChain
    /\ \/ /\ maker' = [maker EXCEPT ![NameOf(r, s)] = run[r].of]
          /\ Created(r, s)
          /\ UNCHANGED owner
       \/ /\ owner' = [owner EXCEPT ![NameOf(r, s)] = IF run[r].mine THEN None ELSE @]
          /\ Fail(r)
          /\ UNCHANGED maker
    /\ UNCHANGED <<secret, app, up, history>>

-------------------------------------------------------------------------------
\* write_variables, deploy, health_check.

\* writeServiceEnv, setUserSecret: one row per variable on a branch, and its binding moves to
\* the service that wrote it last.
WriteEnv(r) ==
    LET value == IF run[r].value = 0 THEN r ELSE run[r].value
        taken == {s \in Web : secret[s] # None /\ secret[s].copy # run[r].copy}
    IN
    /\ secret' = [s \in Web |-> [copy |-> run[r].copy, value |-> value]]
    /\ tainted' = tainted \cup {<<s, secret[s].copy>> : s \in taken}

Write(r) ==
    /\ At(r, "write")
    /\ \/ /\ \A s \in Web : Listed(NameOf(r, s))
          /\ WriteEnv(r)
          /\ Save(r, run[r].ids)
          /\ Goto(r, "ready")
       \/ /\ \E s \in Web : ~Listed(NameOf(r, s))
          /\ Fail(r)
          /\ UNCHANGED <<secret, tainted>>
    /\ UNCHANGED <<owner, maker, app, chain, up, overtaken, removed>>

\* awaitDbReady: a database whose container is there gets ready, or its deadline passes.
Ready(r) ==
    /\ At(r, "ready")
    /\ \/ /\ \A s \in Database : Listed(NameOf(r, s))
          /\ Save(r, run[r].ids)
          /\ Goto(r, "deploy")
       \/ Fail(r)
    /\ UNCHANGED <<branch, chain, up, history>>

\* What deploySecretsFor hands the container of x: its variable if the row is bound to it.
Injected(x) ==
    IF secret[x[1]] # None /\ secret[x[1]].copy = x[2] THEN secret[x[1]].value ELSE 0

\* Engine.deploy: the old container goes before the new one comes, and materialises a group
\* nobody registered.
Deploy(r) ==
    LET s == Current(r)
        x == NameOf(r, s)
    IN
    /\ At(r, "deploy")
    /\ \/ /\ app' = [app EXCEPT ![x] = [by |-> run[r].of, value |-> Injected(x)]]
          /\ maker' = [maker EXCEPT ![x] = IF @ = None THEN run[r].of ELSE @]
          /\ Save(r, run[r].ids)
          /\ Served(r, s, run[r].ids, "deploy", "health", Web)
       \/ /\ app' = [app EXCEPT ![x] = None] \/ UNCHANGED app
          /\ Fail(r)
          /\ UNCHANGED maker
    /\ UNCHANGED <<owner, secret, chain, up, history>>

\* awaitHealthy: only a container that is there can answer before the deadline.
CanAnswer(x) == app[x] # None

\* Every web service is asked before the run ends.
Health(r) ==
    /\ At(r, "health")
    /\ \/ (\A s \in Web : CanAnswer(NameOf(r, s))) /\ Finish(r, "succeeded")
       \/ Fail(r)
    /\ UNCHANGED <<branch, chain, up, history>>

-------------------------------------------------------------------------------
\* The daemon and the world.

\* (Mutant: a restart leaves the records alone.)
BootLeaving ==
    /\ ~up /\ up' = TRUE
    /\ UNCHANGED <<record, aged, run, branch, chain, history>>

\* abandonStale.
Boot ==
    /\ ~up /\ up' = TRUE
    /\ record' = [d \in Deployment |->
                    IF record[d] # None /\ record[d].status = "running"
                    THEN [record[d] EXCEPT !.status = "failed"] ELSE record[d]]
    /\ aged' = {}
    /\ UNCHANGED <<run, branch, chain, history>>

Kill ==
    /\ up /\ up' = FALSE
    /\ run' = [r \in Run |-> IF At(r, "idle") THEN Idle ELSE [Idle EXCEPT !.pc = "ended"]]
    /\ chain' = None
    /\ UNCHANGED <<record, aged, branch, history>>

\* A run that has been at one await for the length of the lease: a container that comes up,
\* an image that is pulled.
LeaseEnds(d) ==
    /\ Slow /\ record[d] # None /\ record[d].status = "running" /\ d \notin aged
    /\ run[record[d].claim].pc \in {"queued", "provisioning", "ready", "deploy", "health"}
    /\ aged' = aged \cup {d}
    /\ UNCHANGED <<record, run, branch, chain, up, history>>

\* services add: a database of a name that is registered is materialised under that
\* registration.
AddByHand(x) ==
    /\ <<"add", x>> \in ByHand /\ up /\ maker[x] = None
    /\ IF x[1] \in Database THEN chain = None ELSE owner[x] = None
    /\ owner' = [owner EXCEPT ![x] = IF @ = None THEN User ELSE @]
    /\ maker' = [maker EXCEPT ![x] = User]
    /\ UNCHANGED <<record, aged, run, secret, app, chain, up, history>>

\* services remove: the container, the row, the secrets bound to it and the registration.
RemoveByHand(x) ==
    /\ <<"remove", x>> \in ByHand /\ up /\ maker[x] # None
    /\ owner' = [owner EXCEPT ![x] = None]
    /\ maker' = [maker EXCEPT ![x] = None]
    /\ app' = [app EXCEPT ![x] = None]
    /\ secret' = [s \in Web |-> IF x = <<s, IF secret[s] = None THEN 0 ELSE secret[s].copy>>
                                THEN None ELSE secret[s]]
    /\ removed' = removed \cup {x}
    /\ UNCHANGED <<record, aged, run, chain, up, overtaken, tainted>>

Step(r) ==
    \/ Look(r) \/ Reuse(r) \/ Conflict(r) \/ AddWeb(r) \/ CallDb(r) \/ AddDb(r)
    \/ Provisioned(r) \/ Write(r) \/ Ready(r) \/ Deploy(r) \/ Health(r)

Next ==
    \/ \E d \in Deployment : Ask(d) \/ LeaseEnds(d)
    \/ \E r \in Run : Refuse(r) \/ Mint(r) \/ Claim(r) \/ Step(r)
    \/ \E x \in Name : AddByHand(x) \/ RemoveByHand(x)
    \/ Kill \/ Boot

Spec == Init /\ [][Next]_vars

\* Every await of a run ends (docker answers or a deadline passes) and a killed daemon is
\* started again.
FairSpec == Spec /\ WF_vars(Boot) /\ \A r \in Run : WF_vars(Step(r))

-------------------------------------------------------------------------------
\* Properties.

\* Every variable has its type, and only a run inside provision holds the chain.
TypeOK ==
    /\ record \in [Deployment -> Record \cup {None}] /\ aged \subseteq Deployment
    /\ run \in [Run -> Attempt]
    /\ owner \in [Name -> Owner \cup {None}] /\ maker \in [Name -> Owner \cup {None}]
    /\ secret \in [Web -> Binding \cup {None}] /\ app \in [Name -> Container \cup {None}]
    /\ chain \in Run \cup {None} /\ \A r \in Run : chain = r <=> At(r, "provisioning")
    /\ up \in BOOLEAN /\ overtaken \subseteq Deployment /\ tainted \subseteq Name /\ removed \subseteq Name

\* While the daemon runs, a record reads running exactly while the run that claimed it lives:
\* no restart leaves a deployment that is forever running, and no overtaken run marks the one
\* that overtook it.
RunningIsLive ==
    up => \A d \in Deployment :
            record[d] # None => (record[d].status = "running" <=> Lives(record[d].claim, d))

\* A container is only ever deployed by the deployment that put the service there: a copy
\* never takes a service of another copy or one added by hand.  A name that was removed and
\* taken again is left out.
NoTakeover == \A x \in Name \ removed : app[x] # None => maker[x] = app[x].by

\* Called again with the same id, a deployment resumes: everything it made is of one copy.
\* Not promised of a deployment that was called again while its run lived.
OneCopy ==
    \A x, y \in Name :
        maker[x] # None /\ maker[x] = maker[y] /\ maker[x] \in Deployment \ overtaken => x[2] = y[2]

\* What a record calls succeeded is all there: every service on the branch, every app
\* registered to it and deployed by it, except for what was removed by hand.
SucceededIsWhole ==
    \A d \in Deployment \ overtaken :
        record[d] # None /\ record[d].status = "succeeded" =>
            /\ \A s \in Service : LET x == <<s, record[d].copy>> IN x \in removed \/ Listed(x)
            /\ \A s \in Web : LET x == <<s, record[d].copy>> IN
                  x \in removed \/ (owner[x] = d /\ app[x] # None /\ app[x].by = d)

\* What a record says of its deployment is true: running, or succeeded.
RecordsAreTrue == RunningIsLive /\ SucceededIsWhole

\* Copies stay apart: no service is taken from another copy, no deployment makes two.
CopiesApart == NoTakeover /\ OneCopy

\* A deployment's record is true and its services are its own.
RecordsHold == RecordsAreTrue /\ CopiesApart

\* A retry does not rotate the generated value a container was started with.  Left out are a
\* deployment that was called again while its run lived, a name whose variable another copy
\* took and one that was removed.
ValueKept ==
    [][\A x \in Name \ (tainted' \cup removed) :
        app[x] # None /\ app'[x] # None /\ app[x].by \notin overtaken =>
            app'[x].value = app[x].value]_vars

\* Each copy has its own generated value: what succeeded goes on holding its variables.
KeepsItsVariables ==
    \A d \in Deployment :
        record[d] # None /\ record[d].status = "succeeded" =>
            \A s \in Web : secret[s] # None /\ secret[s].copy = record[d].copy

\* Two deployments never end up on one database.
OwnDatabase ==
    \A d \in Deployment :
        record[d] # None /\ record[d].status = "succeeded" =>
            \A s \in Database : maker[<<s, record[d].copy>>] = d

\* Every run comes to its end.
RunsEnd ==
    \A d \in Deployment :
        (record[d] # None /\ record[d].status = "running")
            ~> (record[d] # None /\ record[d].status # "running")
===============================================================================
