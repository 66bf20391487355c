------------------------------- MODULE DataMove -------------------------------
(***************************************************************************)
(* What the boot migration of src/src/datadir-migrate.ts promises of every *)
(* store of a branch: its bytes are at one home, a write adds to them, and *)
(* the store moves to its new home in one step that changes nothing of     *)
(* them.  A branch is sealed (dataVersion 1) when every store has moved.   *)
(***************************************************************************)
EXTENDS Naturals

CONSTANTS Store, Version

VARIABLES
    value,    \* the version of the bytes a store holds, 0 for a store without any
    home,     \* where those bytes are
    sealed    \* dataVersion is 1

vars == <<value, home, sealed>>

Init ==
    /\ value \in [Store -> {0} \cup Version]
    /\ home = [s \in Store |-> "legacy"]
    /\ sealed = FALSE

Write(s) ==
    /\ value[s] # 0
    /\ \E v \in Version : v > value[s] /\ value' = [value EXCEPT ![s] = v]
    /\ UNCHANGED <<home, sealed>>

Move(s) ==
    /\ ~sealed
    /\ home[s] = "legacy"
    /\ home' = [home EXCEPT ![s] = "target"]
    /\ UNCHANGED <<value, sealed>>

Seal ==
    /\ ~sealed
    /\ \A s \in Store : value[s] # 0 => home[s] = "target"
    /\ sealed' = TRUE
    /\ UNCHANGED <<value, home>>

Next == Seal \/ \E s \in Store : Write(s) \/ Move(s)

Spec == Init /\ [][Next]_vars
===============================================================================
