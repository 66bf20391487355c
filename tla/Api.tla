---------------------------------- MODULE Api ----------------------------------
(***************************************************************************)
(* The HTTP API, src/src/server.ts, and the gate of its sensitive actions, *)
(* src/src/govern.ts.  A handler checks the request in an order of its own,*)
(* with the gates among the checks, in one synchronous step; the operation *)
(* behind it ends later, when other requests have been there.  A route is  *)
(* the sequence of its checks, what it does to the project's things and    *)
(* the code each failure of the operation is answered with.                *)
(*                                                                         *)
(* One project with its default branch, a branch and a database on it.     *)
(* Approvals of an action differ by nothing but their status and are       *)
(* counted.                                                                *)
(***************************************************************************)
EXTENDS Naturals, Sequences, FiniteSets

CONSTANTS
    Client,
    Deployer,     \* the client that wants its template deployed
    Used,         \* the routes the clients use
    Governed,     \* actions whose policy somebody sets
    Volume,       \* does the template declare a volume?
    MaxPending    \* bound: approvals of an action that wait, and may be asked for again

Action == {"secrets.read", "secrets.write", "storage.read", "storage.write", "storage.delete",
           "deploy", "project.delete", "branch.delete", "service.add", "service.remove",
           "service.setAccess", "service.rename", "service.upgrade"}
Thing == {"project", "main", "feat", "db"}
Decision == {"allow", "deny", "approve"}

ASSUME ApiAssumption ==
    /\ Deployer \in Client /\ Governed \subseteq Action
    /\ Volume \in BOOLEAN /\ MaxPending \in Nat

VARIABLES
    there,      \* what the project has
    policy,     \* the decision of each governed action; the others are allowed
    pending,    \* approvals that wait, by action
    granted,    \* those that were granted and wait to be used
    request,    \* what each client's operation is about, or nothing
    deployed,   \* is the template accepted?
    gone,       \* history: what a client was told is not there
    owed,       \* history: approvals granted less gates they opened, by action (counted up to
                \* one more than there can be)
    disturbed   \* history: has anybody but the deployer and its approver done anything?

asked == <<pending, granted>>
apiHistory == <<gone, owed, disturbed>>
apiVars == <<there, policy, asked, request, deployed, apiHistory>>

Nothing == [route |-> "none", on |-> "project", wrong |-> "none"]

-------------------------------------------------------------------------------
\* Failures of an operation and the code that answers each.

\* errCode.
ErrCode == [missing |-> 404, lifecycle |-> 409, invalid |-> 400]

\* provisionCode, and what the routes that create map before it.
ProvisionCode == [subnets |-> 507, invalid |-> 400]
ProjectCode == [exists |-> 409, subnets |-> 507, invalid |-> 400]
ServiceCode == [exists |-> 409, missing |-> 404, subnets |-> 507, invalid |-> 400]
BranchCode == [exists |-> 409, missing |-> 409, subnets |-> 507, invalid |-> 400]

\* objErr, obsCode, dbErr.
ObjectCode == [unsupported |-> 501, store |-> 502, missing |-> 404, lifecycle |-> 409, invalid |-> 400]
ObserveCode == [missing |-> 404, asleep |-> 503, invalid |-> 502]
DatabaseCode == [exists |-> 409, missing |-> 404, invalid |-> 400]

\* (Mutant: a teardown that did not finish is a 200.)
PartialAsDone == 200

\* teardownReply.
TeardownCode == 409

\* (Mutant: every refusal of a branch's delete is "no such branch".)
DeleteBranchAlways404 ==
    [missing |-> 404, default |-> 404, unsettled |-> 404, moved |-> 404, partial |-> TeardownCode]

\* DELETE of a branch, of a project, of a service.
DeleteBranchCode ==
    [missing |-> 404, default |-> 409, unsettled |-> 409, moved |-> 500, partial |-> TeardownCode]
DeleteProjectCode == [unsettled |-> 500, partial |-> TeardownCode]
DeleteServiceCode == [missing |-> 404, moved |-> 404, partial |-> TeardownCode]

\* Renames of a service, and changes of a database that land in part: with errCode's.
RenameCode == [exists |-> 409, missing |-> 404, lifecycle |-> 409, invalid |-> 400]
ChangeCode == [partial |-> 502, missing |-> 404, lifecycle |-> 409, invalid |-> 400]

-------------------------------------------------------------------------------
\* Routes.

Route(checks, does, on, code) == [checks |-> checks, does |-> does, on |-> on, code |-> code]

ProjectRoutes ==
    [createProject |-> Route(<<"body">>, "add", {"project"}, ProjectCode),
     readProject   |-> Route(<<>>, "read", {"project"}, [missing |-> 404]),
     deleteProject |-> Route(<<"project", "project.delete">>, "delete", {"project"}, DeleteProjectCode),
     renameProject |-> Route(<<"body">>, "change", {"project"}, RenameCode)]

BranchRoutes ==
    [listBranches |-> Route(<<"project">>, "read", {"project"}, <<>>),
     createBranch |-> Route(<<"body">>, "add", {"feat"}, BranchCode),
     deleteBranch |-> Route(<<"branch.delete">>, "delete", {"main", "feat"}, DeleteBranchCode),
     mergeBranch  |-> Route(<<"body", "project", "service.add">>, "change", {"main", "feat"},
                            [missing |-> 404, invalid |-> 400]),
     renameBranch |-> Route(<<"body">>, "change", {"main", "feat"}, RenameCode)]

ServiceRoutes ==
    [listServices  |-> Route(<<>>, "read", {"project"}, [missing |-> 404]),
     addService    |-> Route(<<"body", "service.add", "late">>, "add", {"db"}, ServiceCode),
     lifecycle     |-> Route(<<"project">>, "change", {"db"}, ErrCode),
     restart       |-> Route(<<"project", "deploy">>, "change", {"db"}, ErrCode),
     serviceState  |-> Route(<<"project">>, "read", {"db"}, ErrCode)]

\* A service's secret names, its access and its name.
NamingRoutes ==
    [serviceSecrets |-> Route(<<"project", "secrets.read">>, "read", {"db"}, [missing |-> 404]),
     setAccess      |-> Route(<<"body", "project", "service.setAccess">>, "change", {"db"}, ErrCode),
     renameService  |-> Route(<<"body", "project", "target", "service.rename">>, "change", {"db"},
                              RenameCode)]

VolumeRoutes ==
    [readVolume   |-> Route(<<"project", "target">>, "read", {"db"}, ErrCode),
     setVolume    |-> Route(<<"body", "project", "target">>, "change", {"db"}, ErrCode),
     removeVolume |-> Route(<<"project", "service.remove", "target">>, "change", {"db"}, ErrCode)]

LimitRoutes ==
    [readLimits  |-> Route(<<"project", "target">>, "read", {"db"}, ErrCode),
     setLimits   |-> Route(<<"project", "service.upgrade", "late", "target">>, "change", {"db"},
                           ChangeCode),
     setAlwaysOn |-> Route(<<"project", "body", "target">>, "change", {"db"}, ErrCode)]

RemovalRoutes ==
    [removeService |-> Route(<<"service.remove">>, "delete", {"db"}, DeleteServiceCode)]

DeployRoutes ==
    [deploy |-> Route(<<"body", "deploy">>, "change", {"main", "feat"},
                      [lifecycle |-> 409, missing |-> 400, invalid |-> 400])]

\* Custom domains: the engine's own status, 404 for what is not there.
DomainRoutes ==
    [setDomain    |-> Route(<<"project", "deploy">>, "change", {"main", "feat"},
                            [missing |-> 404, exists |-> 409, invalid |-> 400]),
     readDomain   |-> Route(<<>>, "read", {"main", "feat"}, [missing |-> 404, invalid |-> 400]),
     removeDomain |-> Route(<<"project", "deploy">>, "change", {"main", "feat"},
                            [missing |-> 404, invalid |-> 400])]

SecretRoutes ==
    [readSecrets |-> Route(<<"secrets.read">>, "read", {"main", "feat"}, [missing |-> 404]),
     secretTree  |-> Route(<<"project", "secrets.read">>, "read", {"project"}, <<>>)]

CredentialRoutes ==
    [credentials |-> Route(<<"project", "secrets.read">>, "read", {"db"}, [missing |-> 404])]

SecretWriteRoutes ==
    [setSecret   |-> Route(<<"body", "secrets.write">>, "change", {"main", "feat"},
                           [missing |-> 400, invalid |-> 400]),
     unsetSecret |-> Route(<<"secrets.write">>, "change", {"main", "feat"}, <<>>)]

ObjectRoutes ==
    [listObjects   |-> Route(<<"project", "storage.read">>, "read", {"db"}, ObjectCode),
     download      |-> Route(<<"body", "project", "storage.read">>, "read", {"db"}, ObjectCode),
     upload        |-> Route(<<"body", "project", "storage.write">>, "change", {"db"}, ObjectCode),
     removeObjects |-> Route(<<"body", "project", "storage.delete">>, "change", {"db"}, ObjectCode)]

DatabaseRoutes ==
    [instance       |-> Route(<<>>, "read", {"db"}, ErrCode),
     settings       |-> Route(<<>>, "change", {"db"}, ChangeCode),
     password       |-> Route(<<"project", "secrets.read">>, "change", {"db"}, DatabaseCode),
     createDatabase |-> Route(<<"body">>, "change", {"db"}, DatabaseCode),
     dropDatabase   |-> Route(<<>>, "change", {"db"}, DatabaseCode),
     extensions     |-> Route(<<>>, "change", {"db"}, DatabaseCode)]

ObserveRoutes ==
    [metrics  |-> Route(<<"body">>, "read", {"db"}, ObserveCode),
     activity |-> Route(<<>>, "read", {"db"}, ObserveCode)]

\* Events are read and written for whatever project they name.
EventRoutes == [events |-> Route(<<"body">>, "read", {"project"}, <<>>)]

\* gatesFor, and the rest of executor.create around it.
TemplateRoutes ==
    [template |-> Route(<<"project", "body", "service.add", "secrets.write", "deploy">>
                          \o (IF Volume THEN <<"service.upgrade">> ELSE <<>>)
                          \o <<"late">>, "change", {"project"}, ProvisionCode)]

Groups ==
    <<ProjectRoutes, BranchRoutes, ServiceRoutes, NamingRoutes, VolumeRoutes, LimitRoutes,
      RemovalRoutes, DeployRoutes, DomainRoutes, SecretRoutes, CredentialRoutes, SecretWriteRoutes,
      ObjectRoutes, DatabaseRoutes, ObserveRoutes, EventRoutes, TemplateRoutes>>

\* No two groups have a route in common.
Routes ==
    [r \in UNION {DOMAIN Groups[i] : i \in DOMAIN Groups} |->
        Groups[CHOOSE i \in DOMAIN Groups : r \in DOMAIN Groups[i]][r]]

ASSUME UsedAssumption == Used \subseteq DOMAIN Routes

ApiInit ==
    /\ there = {"project", "main"}
    /\ policy \in [Governed -> {"allow", "approve"}]
    /\ pending = [a \in Governed |-> 0] /\ granted = [a \in Governed |-> 0]
    /\ request = [c \in Client |-> Nothing]
    /\ deployed = FALSE
    /\ gone = {} /\ disturbed = FALSE
    /\ owed = [a \in Governed |-> 0]

-------------------------------------------------------------------------------
\* The gates of a handler.

\* effectivePolicy and the grant a gate finds.
Open(a) == policy[a] = "allow" \/ (policy[a] = "approve" /\ granted[a] > 0)

\* Does the check refuse the request?
Refuses(check, q) ==
    \/ check = "project" /\ "project" \notin there
    \/ check = "target" /\ q.on \notin there
    \/ check \in {"body", "late"} /\ q.wrong = check
    \/ check \in Governed /\ ~Open(check)

Checks(q) == Routes[q.route].checks
Passes(q, n) == \A i \in 1..n : ~Refuses(Checks(q)[i], q)
Passed(q) == {Checks(q)[i] : i \in {n \in DOMAIN Checks(q) : Passes(q, n)}}
Admits(q) == Passes(q, Len(Checks(q)))
Refusal(q) == Checks(q)[CHOOSE n \in DOMAIN Checks(q) : Passes(q, n - 1) /\ ~Passes(q, n)]

\* Gates that open under "approve", also when a later check of the handler refuses, and the
\* one that stays closed for want of a grant.
ByGrant(q) == {a \in Passed(q) \cap Governed : policy[a] = "approve"}
AsksFor(q) ==
    IF Admits(q) THEN {} ELSE {a \in {Refusal(q)} \cap Governed : policy[a] = "approve"}

\* Mutants of GrantsLeft: a grant is left as it is; an approval that is asked for takes the
\* place of those the project has.
GrantsUntouched(q) == granted
GrantsSuperseded(q) ==
    [a \in Governed |-> IF AsksFor(q) # {} \/ a \in ByGrant(q) THEN 0 ELSE granted[a]]

\* gate: a grant is used up by the gate it opens.
GrantsLeft(q) == [a \in Governed |-> IF a \in ByGrant(q) THEN granted[a] - 1 ELSE granted[a]]

-------------------------------------------------------------------------------
\* Requests.

\* What a 404 says is not there: the project the handler looks up, or what it is about.
Told(x, code) == IF code = 404 THEN {x} ELSE {}

\* The operation looks its things up before it waits for anything.
LooksUp(q) ==
    IF Routes[q.route].does # "add" THEN q.on \in there
    ELSE CASE q.on = "db" -> {"project", "feat"} \subseteq there
           [] q.on = "feat" -> {"project", "main"} \subseteq there
           [] OTHER -> TRUE

\* What the thing that is missing is: the service that is added is not, its branch is.
Missing(q) ==
    IF Routes[q.route].does # "add" THEN q.on
    ELSE IF q.on = "db" /\ "project" \in there THEN "feat" ELSE "project"

Code(q, failure) == Routes[q.route].code[failure]
CanFail(q, failure) == failure \in DOMAIN Routes[q.route].code

Serve(c, q) ==
    /\ request[c] = Nothing
    /\ \A a \in AsksFor(q) : pending[a] < MaxPending
    /\ granted' = GrantsLeft(q)
    /\ pending' = [a \in Governed |-> IF a \in AsksFor(q) THEN pending[a] + 1 ELSE pending[a]]
    /\ owed' = [a \in Governed |-> IF a \in ByGrant(q) THEN owed[a] - 1 ELSE owed[a]]
    /\ IF Admits(q) /\ LooksUp(q)
       THEN request' = [request EXCEPT ![c] = q] /\ UNCHANGED gone
       ELSE /\ UNCHANGED request
            /\ gone' = gone \cup
                 (IF Admits(q) THEN IF CanFail(q, "missing")
                                    THEN Told(Missing(q), Code(q, "missing")) ELSE {}
                  ELSE CASE Refusal(q) = "project" -> {"project"}
                         [] Refusal(q) = "target" -> {q.on}
                         [] OTHER -> {})
    /\ deployed' = (deployed \/ (q.route = "template" /\ Admits(q)))
    /\ UNCHANGED <<there, policy>>

\* A malformed request fails the check that finds it.
Call(c) ==
    \E r \in Used : \E on \in Routes[r].on, wrong \in {"none", "body", "late"} :
        /\ wrong = "none" \/ \E i \in DOMAIN Routes[r].checks : Routes[r].checks[i] = wrong
        /\ disturbed' = (disturbed \/ c # Deployer \/ r # "template" \/ wrong # "none")
        /\ Serve(c, [route |-> r, on |-> on, wrong |-> wrong])

-------------------------------------------------------------------------------
\* Operations.

Below(x) == CASE x = "project" -> Thing [] x = "feat" -> {"feat", "db"} [] OTHER -> {x}

Replied(c) == request' = [request EXCEPT ![c] = Nothing]
Held == <<policy, asked, deployed, owed, disturbed>>

\* The operation succeeds: 200, or 201.
Succeed(c) ==
    LET q == request[c]
        does == Routes[q.route].does
        added == IF q.on = "project" THEN {"project", "main"} ELSE {q.on}
    IN
    /\ q # Nothing /\ (does = "add" => q.on \notin there) /\ LooksUp(q)
    /\ ~(does = "delete" /\ q.on = "main")
    /\ there' = CASE does = "add" -> there \cup added
                  [] does = "delete" -> there \ Below(q.on)
                  [] OTHER -> there
    /\ gone' = CASE does = "add" -> gone \ added
                 [] does = "delete" -> gone \cup {q.on}
                 [] OTHER -> gone
    /\ Replied(c) /\ UNCHANGED Held

\* It finds its thing gone, renamed or taken when its turn comes; where that is no failure
\* there is nothing to do, which is a success.
FindsNothing(c) ==
    LET q == request[c]
        ways == {f \in {"missing", "moved"} : CanFail(q, f)}
    IN
    /\ q # Nothing /\ ~LooksUp(q)
    /\ gone' \in {gone \cup Told(Missing(q), Code(q, f)) : f \in ways}
                   \cup (IF ways = {} /\ Routes[q.route].does = "delete" THEN {gone \cup {q.on}}
                         ELSE IF ways = {} THEN {gone} ELSE {})
    /\ Replied(c) /\ UNCHANGED <<there, Held>>

FailsExisting(c) ==
    LET q == request[c] IN
    /\ q # Nothing /\ Routes[q.route].does = "add" /\ q.on \in there
    /\ Replied(c) /\ UNCHANGED <<there, gone, Held>>

\* What it waits for or calls refuses; nothing was destroyed.
FailsWhole(c) ==
    LET q == request[c] IN
    /\ q # Nothing
    /\ \E f \in DOMAIN Routes[q.route].code \ {"missing", "moved", "exists", "partial"} :
          /\ f = "default" => q.on = "main"
          /\ gone' = gone \cup Told(q.on, Code(q, f))
    /\ Replied(c) /\ UNCHANGED <<there, Held>>

\* A teardown that did not finish: the row is kept, with what its demolition stopped at.
FailsPartly(c) ==
    LET q == request[c]
        below == IF q.on = "project" THEN {{}, {"db", "feat"}, {"main"}, {"db", "feat", "main"}} ELSE {{}}
    IN
    /\ q # Nothing /\ CanFail(q, "partial") /\ q.on \in there
    /\ Routes[q.route].does = "delete" => q.on # "main"
    /\ \E S \in below : there' = IF Routes[q.route].does = "delete" THEN there \ S ELSE there
    /\ gone' = gone \cup (IF Code(q, "partial") \in {200, 404} THEN {q.on} ELSE {})
    /\ Replied(c) /\ UNCHANGED Held

-------------------------------------------------------------------------------
\* The operator.

\* PUT policy: an action and a decision that exist, or 400.
SetPolicy ==
    /\ \E a \in Governed : \E d \in Decision \ {policy[a]} :
          policy' = [policy EXCEPT ![a] = d]
    /\ disturbed' = TRUE
    /\ UNCHANGED <<there, asked, request, deployed, gone, owed>>

\* decide: only what is pending; `approve --always` turns the policy to allow.
Grant(a) ==
    /\ pending[a] > 0
    /\ pending' = [pending EXCEPT ![a] = @ - 1]
    /\ granted' = [granted EXCEPT ![a] = @ + 1]
    /\ owed' = [owed EXCEPT ![a] = IF @ > MaxPending THEN @ ELSE @ + 1]
    /\ policy' \in {policy, [policy EXCEPT ![a] = "allow"]}
    /\ UNCHANGED <<there, request, deployed, gone, disturbed>>

DenyApproval(a) ==
    /\ pending[a] > 0
    /\ pending' = [pending EXCEPT ![a] = @ - 1]
    /\ disturbed' = TRUE
    /\ UNCHANGED <<there, policy, granted, request, deployed, gone, owed>>

ApiNext ==
    \/ \E c \in Client :
          Call(c) \/ Succeed(c) \/ FindsNothing(c) \/ FailsExisting(c) \/ FailsWhole(c) \/ FailsPartly(c)
    \/ SetPolicy \/ \E a \in Governed : Grant(a) \/ DenyApproval(a)

ApiSpec == ApiInit /\ [][ApiNext]_apiVars

-------------------------------------------------------------------------------
\* Every approval that was granted opens one gate, once, whichever requests come in between
\* and wherever in its handler a request is refused afterwards.
GrantsOneShot == granted = owed

\* What a client was told is not there (a 404, a finished delete) is not there until somebody
\* adds it: neither a teardown that did not finish, nor a lock set that did not settle, nor a
\* refusal is answered as an absence.
AnswersHold == gone \cap there = {}

\* Both of what a request is owed.
RequestsHold == GrantsOneShot /\ AnswersHold

\* The deployer of a template and an operator who grants what it asks for get it deployed,
\* though every attempt uses up the grants of the gates before the one it stops at: two to the
\* power of the gates, less one, is enough.
TemplateGetsThrough == <>(deployed \/ disturbed)

\* A grant is spent on a request that goes ahead.
GrantsAreUsed ==
    [][(\E a \in Governed : owed'[a] < owed[a]) => request' # request]_apiVars
===============================================================================
