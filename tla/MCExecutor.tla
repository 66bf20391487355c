------------------------------ MODULE MCExecutor ------------------------------
(***************************************************************************)
(* Executor with a template of an app and its database, in that order, and *)
(* the API in front of it.  The two share the gate's answer alone, so each *)
(* behaviour moves one of them (focus): runs and what people do on the     *)
(* branch, requests of any kind, or the deployer's template alone with an  *)
(* operator who grants what it asks for.                                   *)
(***************************************************************************)
EXTENDS Executor, Api

CONSTANTS d1, d2, db, web, c1, c2

VARIABLE focus

executorVars == <<focus, vars, apiVars>>

WebThenDb == <<web, db>>
OnFirstCopy == {<<"add", <<web, 1>>>>, <<"remove", <<web, 1>>>>, <<"add", <<db, 1>>>>}
TemplateGates == {"service.add", "secrets.write", "deploy", "service.upgrade"}
SomeRoutes == {"template", "addService", "removeService", "renameService", "createBranch",
               "deleteBranch", "deleteProject"}

\* Requests of any kind meet policies of one of the actions; the deployer alone, of all.
Loose == {"service.add"}
Allowing(p) == \A a \in Governed \ Loose : p[a] = "allow"

Deploys == Serve(Deployer, [route |-> "template", on |-> "project", wrong |-> "none"])
             /\ UNCHANGED disturbed

ExecutorInit ==
    /\ focus \in {"runs", "requests", "template"}
    /\ Init /\ ApiInit
    /\ focus # "template" => Allowing(policy)
    /\ focus = "runs" => policy["service.add"] = "allow" /\ policy["deploy"] = "allow"

ExecutorNext ==
    /\ UNCHANGED focus
    /\ \/ focus = "runs" /\ Next /\ UNCHANGED apiVars
       \/ focus = "requests" /\ ApiNext /\ Allowing(policy') /\ UNCHANGED vars
       \/ focus = "template" /\ (Deploys \/ \E a \in Governed : Grant(a)) /\ UNCHANGED vars

\* FairSpec of Executor; the deployer tries again and its operator grants what is asked for.
ExecutorSpec ==
    /\ ExecutorInit /\ [][ExecutorNext]_executorVars
    /\ WF_executorVars(focus = "runs" /\ Boot /\ UNCHANGED <<focus, apiVars>>)
    /\ \A r \in Run : WF_executorVars(focus = "runs" /\ Step(r) /\ UNCHANGED <<focus, apiVars>>)
    /\ WF_executorVars(focus = "template" /\ Deploys /\ UNCHANGED <<focus, vars>>)
    /\ \A a \in Governed :
          WF_executorVars(focus = "template" /\ Grant(a) /\ UNCHANGED <<focus, vars>>)

\* Of Api: in the behaviours of its deployer.
DeployerGetsThrough == focus = "template" => TemplateGetsThrough
===============================================================================
