------------------------------- MODULE KeyLock -------------------------------
(***************************************************************************)
(* What the scheduler's operation lock promises the engine that calls it   *)
(* (decision 52 of src/src/scheduler.ts): every container operation names  *)
(* the keys it touches, operations that share a key run one at a time and  *)
(* in the order in which they were called, and the rest run concurrently.  *)
(* No promise chain and no counter appears here: OpLock has those, and     *)
(* implements this module.                                                 *)
(***************************************************************************)
EXTENDS Naturals

CONSTANTS
    Call,       \* the calls of withOp and tryWithOp, each made at most once
    Key         \* the service, branch and project keys

VARIABLES
    status,     \* how far each call has come
    need,       \* the keys a call itself has to acquire
    ticket,     \* the place of a call in the order of arrival
    clock       \* the next ticket

vars == <<status, need, ticket, clock>>

Status == {"idle", "queued", "running", "done", "refused"}

Live(c) == status[c] \in {"queued", "running"}

Init ==
    /\ status = [c \in Call |-> "idle"]
    /\ need = [c \in Call |-> {}]
    /\ ticket = [c \in Call |-> 0]
    /\ clock = 0

\* A call takes its place at once, before it has waited for anything.
Arrive(c, K) ==
    /\ status[c] = "idle"
    /\ K # {}
    /\ status' = [status EXCEPT ![c] = "queued"]
    /\ need' = [need EXCEPT ![c] = K]
    /\ ticket' = [ticket EXCEPT ![c] = clock]
    /\ clock' = clock + 1

\* A call whose keys its context already owns has nothing to wait for.
Reenter(c) ==
    /\ status[c] = "idle"
    /\ status' = [status EXCEPT ![c] = "running"]
    /\ UNCHANGED <<need, ticket, clock>>

Refuse(c) ==
    /\ status[c] = "idle"
    /\ status' = [status EXCEPT ![c] = "refused"]
    /\ UNCHANGED <<need, ticket, clock>>

\* Nobody that came earlier and shares a key is still queued or running.
Grant(c) ==
    /\ status[c] = "queued"
    /\ \A d \in Call : Live(d) /\ ticket[d] < ticket[c] => need[d] \cap need[c] = {}
    /\ status' = [status EXCEPT ![c] = "running"]
    /\ UNCHANGED <<need, ticket, clock>>

Finish(c) ==
    /\ status[c] = "running"
    /\ status' = [status EXCEPT ![c] = "done"]
    /\ UNCHANGED <<need, ticket, clock>>

Next ==
    \E c \in Call :
        \/ \E K \in SUBSET Key : Arrive(c, K)
        \/ Reenter(c)
        \/ Refuse(c)
        \/ Grant(c)
        \/ Finish(c)

Spec == Init /\ [][Next]_vars
==============================================================================
