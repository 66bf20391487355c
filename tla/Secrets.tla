------------------------------ MODULE Secrets ------------------------------
(***************************************************************************)
(* What a container's environment is assembled from, engine.ts: the        *)
(* credentials minted for the data services its branch carries, the        *)
(* secrets users set, bound to a service or to none, and the bindings that *)
(* hand one service's credential to one compute group under another name.  *)
(* All three name a service by its NAME, which renames, removals and later *)
(* services of the same name move about; the inventories shown to people   *)
(* are computed apart from the environment containers receive.             *)
(*                                                                         *)
(* One project with two branches, Main and its clone, which comes and      *)
(* goes.  The ghost field `of` of a secret or a binding is the service it  *)
(* was set for: it follows every rename and is None once that service left *)
(* the branch.  Failed provisioning and renames that stop half way are     *)
(* those of Services; branch names move in Branches.                       *)
(***************************************************************************)
EXTENDS Filters, SequencesExt

CONSTANTS
    Kind,       \* types of data service the instance has, one to a behaviour
    Label,      \* names a data service may have
    Unit,       \* names a compute group may have
    SecretName, \* names a user secret may have
    MaxRows,    \* bound: secret rows and bindings at a time
    Nil         \* "no service" and "no branch"

Main == "main"
Clone == "clone"
BranchName == {Main, Clone}
App(g) == <<"compute", g>>

ASSUME SecretsAssumption ==
    /\ "compute" \notin Kind
    /\ Nil \notin BranchName \cup {App(g) : g \in Unit} \cup (Kind \X Label)
    /\ Nil \notin [from : Kind \X Label, to : Kind \X Label]

VARIABLES
    kind,      \* the type of the data services of this behaviour
    reg,       \* registrations of the project, oldest first
    row,       \* by branch: the data services it carries
    units,     \* registered compute groups
    apps,      \* by branch: the groups deployed on it
    there,     \* branches that exist
    copied,    \* branches whose parent's secrets have been written
    secrets,   \* user secrets in the order of the document
    bindings,  \* by branch: one credential of source for target; env: under which name
    moving     \* a postgres rename under way: [from, to], Nil

secretsVars ==
    <<kind, reg, row, units, apps, there, copied, secrets, bindings, moving>>

Data(n) == <<kind, n>>
Source == {Data(n) : n \in Label}
Registered == Range(reg)
Carries(b, k) == k \in Registered /\ k \in row[b]
Room == Len(secrets) + Cardinality(bindings[Main]) + Cardinality(bindings[Clone]) < MaxRows

SecretsInit ==
    /\ kind \in Kind
    /\ reg = <<>> /\ units = {} /\ secrets = <<>>
    /\ row = [b \in BranchName |-> {}]
    /\ apps = [b \in BranchName |-> {}]
    /\ bindings = [b \in BranchName |-> {}]
    /\ there = {Main} /\ copied = {Main}
    /\ moving = Nil
-----------------------------------------------------------------------------
\* Secrets and bindings after the service they name changed.

Follow(k, old, new) == IF k = old THEN new ELSE k

\* Mutant: they stay under the old name.
MovedNot(list, old, new) == [i \in DOMAIN list |-> [list[i] EXCEPT !.of = Follow(@, old, new)]]

\* A rename moves the secrets bound to the service, on every branch.
Moved(list, old, new) ==
    [i \in DOMAIN list |-> [list[i] EXCEPT
        !.service = Follow(@, old, new), !.of = Follow(@, old, new)]]

\* Mutant: the source stays behind.
SourcedNot(set, old, new) == {[x EXCEPT !.of = Follow(@, old, new)] : x \in set}

\* Binding sources follow where the rename rewrites them; what they stand for follows anyway.
Sourced(set, old, new) ==
    {[x EXCEPT !.source = Follow(@, old, new), !.of = Follow(@, old, new)] : x \in set}

Orphaned(set, old, new) == {[x EXCEPT !.of = Follow(@, old, new)] : x \in set}

\* Mutant: they go only when the registration does.
WithoutBoundLater(list, b, k) == list

\* The secrets bound to k on the branch it left go, whether or not the registration can.
WithoutBound(list, b, k) ==
    Filtered(list, {u \in Range(list) : ~(u.service = k /\ u.branch = b)})

\* With the registration go the secrets bound to it anywhere.
WithoutService(list, k) == Filtered(list, {u \in Range(list) : u.service # k})

\* (ghost) on branch b the service k is gone
Lost(list, b, k) ==
    [i \in DOMAIN list |->
        IF list[i].branch = b /\ list[i].of = k THEN [list[i] EXCEPT !.of = Nil] ELSE list[i]]
-----------------------------------------------------------------------------
\* Data services on a branch.  A postgres rename holds the key of its service and the
\* provision queue from its first step to its last; a branch create holds both branches and
\* everything on them until the secrets are copied.

AddService(b, k) ==
    /\ moving = Nil
    /\ b \in there /\ there = copied
    /\ k \in Source /\ ~Carries(b, k)
    /\ reg' = IF k \in Registered THEN reg ELSE Append(reg, k)
    /\ row' = [row EXCEPT ![b] = @ \cup {k}]
    /\ UNCHANGED <<kind, units, apps, there, copied, secrets, bindings, moving>>

\* retireRegistration: the name stays while another branch carries it.
Retire(b, k) ==
    LET left == WithoutBound(Lost(secrets, b, k), b, k) IN
    IF \E c \in there : k \in row'[c]
    THEN secrets' = left /\ UNCHANGED reg
    ELSE /\ reg' = Filtered(reg, Registered \ {k})
         /\ secrets' = WithoutService(left, k)

RemoveService(b, k) ==
    /\ moving = Nil
    /\ Carries(b, k) /\ there = copied
    /\ row' = [row EXCEPT ![b] = @ \ {k}]
    /\ bindings' = [bindings EXCEPT ![b] = {x \in @ : x.source # k}]
    /\ Retire(b, k)
    /\ UNCHANGED <<kind, units, apps, there, copied, moving>>

MayRename(k, new) ==
    /\ moving = Nil /\ there = copied
    /\ k \in Registered /\ new \in Source \ Registered

Renamed(k, new) == [i \in DOMAIN reg |-> Follow(reg[i], k, new)]
RowsRenamed(k, new) == [b \in BranchName |-> {Follow(r, k, new) : r \in row[b]}]

\* renameStorageService: one write, bindings included where the branch carries the bucket.
RenameStorage(k, new) ==
    /\ kind = "storage" /\ MayRename(k, new)
    /\ reg' = Renamed(k, new) /\ row' = RowsRenamed(k, new)
    /\ secrets' = Moved(secrets, k, new)
    /\ bindings' = [b \in BranchName |->
                       IF k \in row[b] THEN Sourced(bindings[b], k, new) ELSE bindings[b]]
    /\ UNCHANGED <<kind, units, apps, there, copied, moving>>

\* renameManagedService: it moves no binding.
RenameManaged(k, new) ==
    /\ kind \notin {"storage", "postgres"} /\ MayRename(k, new)
    /\ reg' = Renamed(k, new) /\ row' = RowsRenamed(k, new)
    /\ secrets' = Moved(secrets, k, new)
    /\ bindings' = [b \in BranchName |-> Orphaned(bindings[b], k, new)]
    /\ UNCHANGED <<kind, units, apps, there, copied, moving>>

\* renameDbService: branch after branch, a container rename before each, then the project.
RenamePostgres(k, new) ==
    /\ kind = "postgres" /\ MayRename(k, new)
    /\ moving' = [from |-> k, to |-> new]
    /\ UNCHANGED <<kind, reg, row, units, apps, there, copied, secrets, bindings>>

RenameOnBranch(b) ==
    /\ moving # Nil /\ moving.from \in row[b]
    /\ row' = [row EXCEPT ![b] = (@ \ {moving.from}) \cup {moving.to}]
    /\ bindings' = [bindings EXCEPT ![b] = Sourced(@, moving.from, moving.to)]
    /\ UNCHANGED <<kind, reg, units, apps, there, copied, secrets, moving>>

RenameOnProject ==
    /\ moving # Nil /\ \A b \in there : moving.from \notin row[b]
    /\ reg' = Renamed(moving.from, moving.to)
    /\ secrets' = Moved(secrets, moving.from, moving.to)
    /\ moving' = Nil
    /\ UNCHANGED <<kind, row, units, apps, there, copied, bindings>>
-----------------------------------------------------------------------------
\* Compute groups: registered by an add or by the first deploy, gone with the last copy.

AddUnit(g) ==
    /\ g \notin units
    /\ units' = units \cup {g}
    /\ UNCHANGED <<kind, reg, row, apps, there, copied, secrets, bindings, moving>>

Deploy(b, g) ==
    /\ b \in there /\ there = copied /\ g \notin apps[b]
    /\ units' = units \cup {g}
    /\ apps' = [apps EXCEPT ![b] = @ \cup {g}]
    /\ UNCHANGED <<kind, reg, row, there, copied, secrets, bindings, moving>>

\* removeComputeLocked: the bindings go with the container, the secrets in any case.
RemoveUnit(b, g) ==
    /\ b \in there /\ g \in units /\ (g \in apps[b] => there = copied)
    /\ apps' = [apps EXCEPT ![b] = @ \ {g}]
    /\ bindings' = IF g \in apps[b]
                   THEN [bindings EXCEPT ![b] = {x \in @ : x.target # App(g)}] ELSE bindings
    /\ LET left == WithoutBound(Lost(secrets, b, App(g)), b, App(g)) IN
       IF \E c \in there : g \in apps'[c]
       THEN secrets' = left /\ UNCHANGED units
       ELSE /\ units' = units \ {g}
            /\ secrets' = WithoutService(left, App(g))
    /\ UNCHANGED <<kind, reg, row, there, copied, moving>>

\* renameComputeService: registration, deployments and secrets; bindings keep the old target.
RenameUnit(g, new) ==
    /\ g \in units /\ new \notin units /\ there = copied
    /\ units' = (units \ {g}) \cup {new}
    /\ apps' = [b \in BranchName |-> {Follow(x, g, new) : x \in apps[b]}]
    /\ secrets' = Moved(secrets, App(g), App(new))
    /\ UNCHANGED <<kind, reg, row, there, copied, bindings, moving>>
-----------------------------------------------------------------------------
\* The clone: its row and its copies first, its parent's secrets and bindings in a later
\* write; secrets may be set on it in between.

CreateClone ==
    /\ Clone \notin there /\ moving = Nil
    /\ there' = there \cup {Clone}
    /\ row' = [row EXCEPT ![Clone] = row[Main]]
    /\ apps' = [apps EXCEPT ![Clone] = apps[Main]]
    /\ UNCHANGED <<kind, reg, units, copied, secrets, bindings, moving>>

CopySecrets ==
    /\ there # copied
    /\ copied' = there
    /\ LET own == Filtered(secrets, {u \in Range(secrets) : u.branch = Main}) IN
       secrets' = secrets \o [i \in DOMAIN own |-> [own[i] EXCEPT !.branch = Clone]]
    /\ bindings' = IF bindings[Main] = {} THEN bindings
                   ELSE [bindings EXCEPT ![Clone] = bindings[Main]]
    /\ UNCHANGED <<kind, reg, row, units, apps, there, moving>>

\* destroyBranch: the row with its bindings and the secrets under its name; a registration
\* whose last carrier it was stays.
DeleteClone ==
    /\ Clone \in copied /\ moving = Nil
    /\ there' = {Main} /\ copied' = {Main}
    /\ row' = [row EXCEPT ![Clone] = {}]
    /\ apps' = [apps EXCEPT ![Clone] = {}]
    /\ bindings' = [bindings EXCEPT ![Clone] = {}]
    /\ secrets' = Filtered(secrets, {u \in Range(secrets) : u.branch # Clone})
    /\ UNCHANGED <<kind, reg, units, moving>>
-----------------------------------------------------------------------------
\* User secrets and bindings: one synchronous write each, no lock.

\* setUserSecret: the services this branch has; groups by registration.
Bindable(b) == {k \in Source : Carries(b, k)} \cup {App(g) : g \in units}

\* One row for a name on a branch: a second set moves the first of them to its service.
Written(n, b, s) ==
    LET given == [name |-> n, branch |-> b, service |-> s, of |-> s]
        same(u) == u.name = n /\ u.branch = b
        i == SelectInSeq(secrets, same)
    IN  IF i = 0 THEN Append(secrets, given) ELSE [secrets EXCEPT ![i] = given]

SetSecret(n, b, s) ==
    /\ Room
    /\ b \in there \cup {Nil}
    /\ s # Nil => b # Nil /\ s \in Bindable(b)
    /\ secrets' = Written(n, b, s)
    /\ UNCHANGED <<kind, reg, row, units, apps, there, copied, bindings, moving>>

\* unsetUserSecret: every row of the name; narrowed to one service by the template executor.
UnsetSecret(n, b, ofService) ==
    /\ \E i \in DOMAIN secrets : secrets[i].name = n /\ secrets[i].branch = b
    /\ secrets' = Filtered(secrets, {u \in Range(secrets) :
                     ~(u.name = n /\ u.branch = b /\ u.service \in ofService)})
    /\ UNCHANGED <<kind, reg, row, units, apps, there, copied, bindings, moving>>

\* setBinding: neither side is looked up; a second one for the same name and target replaces.
SetBinding(b, g, k) ==
    /\ b \in there /\ Room
    /\ bindings' = [bindings EXCEPT ![b] = {x \in @ : x.target # App(g)} \cup
          {[target |-> App(g), source |-> k, of |-> IF k \in row[b] THEN k ELSE Nil]}]
    /\ UNCHANGED <<kind, reg, row, units, apps, there, copied, secrets, moving>>

UnsetBinding(b, g) ==
    /\ \E x \in bindings[b] : x.target = App(g)
    /\ bindings' = [bindings EXCEPT ![b] = {x \in @ : x.target # App(g)}]
    /\ UNCHANGED <<kind, reg, row, units, apps, there, copied, secrets, moving>>

SecretsNext ==
    \/ \E b \in BranchName, k \in Source : AddService(b, k) \/ RemoveService(b, k)
    \/ \E k, new \in Source :
          RenameStorage(k, new) \/ RenameManaged(k, new) \/ RenamePostgres(k, new)
    \/ \E b \in BranchName : RenameOnBranch(b)
    \/ RenameOnProject
    \/ \E g \in Unit : AddUnit(g) \/ \E new \in Unit : RenameUnit(g, new)
    \/ \E b \in BranchName, g \in Unit : Deploy(b, g) \/ RemoveUnit(b, g) \/ UnsetBinding(b, g)
    \/ CreateClone \/ CopySecrets \/ DeleteClone
    \/ \E n \in SecretName, b \in BranchName \cup {Nil} :
          \/ \E s \in {Nil} \cup Source \cup {App(g) : g \in Unit} :
                SetSecret(n, b, s) \/ UnsetSecret(n, b, {s})
    \/ \E b \in BranchName, g \in Unit, k \in Source : SetBinding(b, g, k)

SecretsSpec == SecretsInit /\ [][SecretsNext]_secretsVars
-----------------------------------------------------------------------------
\* The names a container gets.

\* dbSecretsFor, storageSecretsFor, managedSecretsFor: in the order of registration, the
\* first one with a row here also under the canonical names.
MintedFor(b) ==
    LET upTo[n \in 0 .. Len(reg)] ==
            IF n = 0 THEN [names |-> {}, aliased |-> FALSE]
            ELSE IF reg[n] \notin row[b] THEN upTo[n - 1]
            ELSE [names |-> upTo[n - 1].names \cup {Append(reg[n], "suffixed")}
                               \cup IF upTo[n - 1].aliased THEN {} ELSE {Append(reg[n], "canonical")},
                  aliased |-> TRUE]
    IN  upTo[Len(reg)].names

\* deploySecretsFor: project-wide, unbound, and bound to this group.
SecretsFor(b, g) ==
    {<<u.name>> : u \in {u \in Range(secrets) :
        \/ u.branch = Nil
        \/ u.branch = b /\ u.service \in {Nil, App(g)}}}

\* bindingsFor: those whose source has credentials on the branch.
BoundFor(b, g) == {x.target : x \in {x \in bindings[b] : x.target = App(g) /\ x.source \in row[b]}}

EnvFor(b, g) == MintedFor(b) \cup SecretsFor(b, g) \cup BoundFor(b, g)

\* Mutant: the project's oldest registration, wherever it is carried.
HoldsAliasByProject(b, k) == reg # <<>> /\ reg[1] = k

\* The names people are shown: mintedNamesOf, secretTree.
HoldsAlias(b, k) ==
    LET i == SelectInSeq(reg, LAMBDA r : Carries(b, r)) IN i # 0 /\ reg[i] = k

MintedNamesOf(b, k) ==
    {Append(k, "suffixed")} \cup IF HoldsAlias(b, k) THEN {Append(k, "canonical")} ELSE {}

Inventory(b, g) ==
    LET named(br, s) == {<<u.name>> : u \in {u \in Range(secrets) : u.branch = br /\ u.service = s}} IN
    (UNION {MintedNamesOf(b, k) : k \in {k \in Registered : Carries(b, k)}})
        \cup named(Nil, Nil) \cup named(b, Nil) \cup named(b, App(g))
        \cup {x.target : x \in {x \in bindings[b] : x.target = App(g)}}
-----------------------------------------------------------------------------
\* Bindings whose source is not on the branch: the tree lists them, no container gets them.
Dangling(b, g) == {x.target : x \in {x \in bindings[b] : x.target = App(g) /\ x.source \notin row[b]}}

\* "The tree is an inventory of the names a branch's env actually holds", but for bindings
\* whose source left: no alias is claimed by a service of another branch or missed.
NamesAgree ==
    \A b \in there, g \in units :
        EnvFor(b, g) = Inventory(b, g) \ Dangling(b, g)

\* A secret bound to a service is read by that service and by none that took its name
\* since: across renames, clones, removals from one branch while another still carries it,
\* and registrations that come back.
SecretsFollow ==
    \A i \in DOMAIN secrets :
        LET u == secrets[i] IN
        u.service # Nil =>
            /\ u.of = u.service
            /\ u.branch \in there
            /\ moving = Nil => u.service \in Bindable(u.branch)

\* A binding hands out the credential of the service it was made for, whatever it is called
\* by now, and none once that service is off the branch.  Types whose rename moves bindings.
BindingsFollow ==
    kind \in {"postgres", "storage"} =>
        \A b \in there : \A x \in bindings[b] :
            IF x.of = Nil THEN TRUE ELSE x.source = x.of /\ x.of \in row[b]

EnvHolds == NamesAgree /\ SecretsFollow /\ BindingsFollow

\* What does not hold: a secret set on a clone before its parent's arrive is there twice,
\* and the parent's copy, written last, is the one read from then on.
OneValuePerName ==
    \A i, j \in DOMAIN secrets :
        secrets[i].name = secrets[j].name /\ secrets[i].branch = secrets[j].branch => i = j
=============================================================================
