------------------------------ MODULE MCServices ------------------------------
(***************************************************************************)
(* The services of a project: which there are and whose bytes they have    *)
(* (Services), the hostnames people give them (Domains), and what they are *)
(* said to be doing (Runtime).  They share no variable: each behaviour     *)
(* moves one of them (focus), so that the run visits the sum of their      *)
(* states and not the product.                                             *)
(***************************************************************************)
EXTENDS Services, Domains, Runtime, TLC

CONSTANTS x, y, main, feat, d1, P, Q, g, h, shop, files

VARIABLE focus

allVars == <<focus, vars, domainsVars, runtimeVars>>

AllInit ==
    /\ focus \in {"services", "domains", "runtime"}
    /\ Init /\ DomainsInit /\ RuntimeInit
    /\ focus # "domains" => sites = {main}

AllNext ==
    /\ UNCHANGED focus
    /\ \/ focus = "services" /\ Next /\ UNCHANGED <<domainsVars, runtimeVars>>
       \/ focus = "domains" /\ DomainsNext /\ UNCHANGED <<vars, runtimeVars>>
       \/ focus = "runtime" /\ RuntimeNext /\ UNCHANGED <<vars, domainsVars>>

AllSpec == AllInit /\ [][AllNext]_allVars

\* A compute group y answers where a managed database x does.
LabelXY == [k \in Kind |->
    IF k = "compute" THEN [n \in Name |-> n]
    ELSE IF k = "managed" THEN [n \in Name |-> IF n = x THEN y ELSE <<k, n>>]
    ELSE [n \in Name |-> <<k, n>>]]

Mixed ==
    ({"add", "deploy", "remove"} \X {"compute"} \X {y}) \cup
    ({"add", "rename"} \X {"managed"} \X {x}) \cup
    ({"add", "remove", "rename", "bind"} \X {"postgres"} \X {x}) \cup
    {<<"remove", "postgres", y>>}
MixedFaults ==
    {<<"provision", "compute">>, <<"remove", "compute">>, <<"bytes", "compute">>,
     <<"provision", "managed">>, <<"rename", "managed">>, <<"provision", "branch">>}
Apart == {{"compute", "managed"}, {"postgres"}}

\* Both branches are one project's; nobody else's callers reach them.
OneProject == main :> P @@ feat :> P

\* One group is as good as the other.
Interchangeable == Permutations({g, h})
===============================================================================
