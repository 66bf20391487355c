----------------------------- MODULE MCDocument -----------------------------
(***************************************************************************)
(* The state file: its lock, the identity in it, and the secrets and       *)
(* bindings in it; and, in memory, the failed sign-ins.  They share no     *)
(* variable but the file itself, which only its holder writes; each        *)
(* behaviour moves one of them (focus), so that the run visits the sum of  *)
(* their states and not the product.                                       *)
(***************************************************************************)
EXTENDS DirLock, Secrets, SignIns, TLC

CONSTANTS p1, p2, p3, s1, s2, t1, r1, r2, i1, i2, i3

VARIABLE focus

documentVars == <<focus, dirLockVars, accessVars, secretsVars, signInsVars>>

DocumentInit ==
    /\ focus \in {"lock", "identity", "secrets", "sign-ins"}
    /\ DirLockInit /\ AccessInit /\ SecretsInit /\ SignInsInit
    /\ focus # "secrets" => kind = "redis"

DocumentNext ==
    /\ UNCHANGED focus
    /\ \/ focus = "lock" /\ DirLockNext /\ UNCHANGED <<accessVars, secretsVars, signInsVars>>
       \/ focus = "identity" /\ AccessNext /\ UNCHANGED <<dirLockVars, secretsVars, signInsVars>>
       \/ focus = "secrets" /\ SecretsNext /\ UNCHANGED <<dirLockVars, accessVars, signInsVars>>
       \/ focus = "sign-ins" /\ SignInsNext /\ UNCHANGED <<dirLockVars, accessVars, secretsVars>>

DocumentSpec == DocumentInit /\ [][DocumentNext]_documentVars
===============================================================================
