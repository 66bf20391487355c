------------------------------- MODULE MCCopies -------------------------------
(***************************************************************************)
(* The two kinds of bytes a branch gets a copy of: the directory of a      *)
(* postgres (Fork) with two attempts, four starts or stops of the source   *)
(* and three versions of its data; and the /data volume of a compute group *)
(* (Group) with two branches and four calls, two at a time.  They share no *)
(* variable: each behaviour moves one of them (focus).                     *)
(***************************************************************************)
EXTENDS Fork, Group

CONSTANTS main, side, v1, v2, i1, i2, c1

VARIABLE focus

copiesVars == <<focus, forkVars, groupVars>>

CopiesInit ==
    /\ focus \in {"fork", "group"}
    /\ ForkInit /\ GroupInit
    /\ focus = "fork" => record = None /\ apps[Main] = None
    /\ focus = "group" => status = "running" /\ dst = Absent /\ dstUp = "none"

CopiesNext ==
    /\ UNCHANGED focus
    /\ \/ focus = "fork" /\ ForkNext /\ UNCHANGED groupVars
       \/ focus = "group" /\ GroupNext /\ UNCHANGED forkVars

CopiesSpec ==
    /\ CopiesInit /\ [][CopiesNext]_copiesVars
    /\ WF_copiesVars(focus = "fork" /\ Step /\ UNCHANGED <<focus, groupVars>>)

OfMain == {"attach", "detach", "deploy", "restart", "start", "stop", "suspend", "resize"}
OfSide == {"clone", "merge", "deploy", "delete"}
SomeCalls == (OfMain \X {main}) \cup (OfSide \X {side})
===============================================================================
