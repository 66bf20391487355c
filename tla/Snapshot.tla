------------------------------- MODULE Snapshot -------------------------------
(***************************************************************************)
(* What a database fork promises (types.ts, DatabaseAdapter.fork): a fork  *)
(* that answers has copied the source as it stood at one moment between    *)
(* the call and the answer, while the source went on.                      *)
(***************************************************************************)
EXTENDS Naturals

CONSTANT Version

VARIABLES
    value,   \* the version of the source's data
    low,     \* its version when the fork was called
    copy     \* what the fork that answered has made, 0 before

vars == <<value, low, copy>>

Init == value = 1 /\ low = 1 /\ copy = 0

Write == value + 1 \in Version /\ value' = value + 1 /\ UNCHANGED <<low, copy>>

Call == copy = 0 /\ low' = value /\ UNCHANGED <<value, copy>>

Answer ==
    /\ copy = 0
    /\ copy' \in {v \in Version : low <= v /\ v <= value}
    /\ UNCHANGED <<value, low>>

Next == Write \/ Call \/ Answer

Spec == Init /\ [][Next]_vars
===============================================================================
