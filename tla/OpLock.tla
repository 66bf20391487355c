-------------------------------- MODULE OpLock --------------------------------
(***************************************************************************)
(* The operation lock of src/src/scheduler.ts: withOp and tryWithOp over   *)
(* one promise chain and one counter per key.  A call computes the keys    *)
(* its async context does not own yet, appends one gate to the chain of    *)
(* each of them in the same synchronous step, runs when every chain it     *)
(* found has settled, and opens its gate when its function has ended,      *)
(* however it ended.                                                       *)
(*                                                                         *)
(* A promise chain is modelled by the call whose gate it ends with: the    *)
(* chain has settled exactly when that call is done, because a call opens  *)
(* its gate only after the chains it waited for have settled.              *)
(***************************************************************************)
EXTENDS Naturals, FiniteSets

CONSTANTS
    Call,         \* the calls of withOp and tryWithOp, each made at most once
    Try,          \* those of them that are calls of tryWithOp
    Key,          \* the service, branch and project keys
    NoCall,       \* "Promise.resolve()", and the context outside every call
    NestedWaits   \* may a call wait for a new key from inside another one?

ASSUME CallAssumption ==
    /\ IsFiniteSet(Call)
    /\ Try \subseteq Call
    /\ NoCall \notin Call
    /\ NestedWaits \in BOOLEAN

VARIABLES
    status,   \* idle, queued (before gate.ready), running (inside fn), done, refused
    parent,   \* the call whose async context made this one
    owned,    \* the AsyncLocalStorage store the call's function runs with
    need,     \* the keys the call itself acquires
    waits,    \* waits[c][k]: the chain of k that c found when it was called
    tail,     \* ops.get(k).chain, NoCall when the entry is absent
    count,    \* ops.get(k).count, 0 when the entry is absent
    ticket,   \* history: the order in which calls extended the chains
    clock     \* history: the next ticket

vars == <<status, parent, owned, need, waits, tail, count, ticket, clock>>

Status == {"idle", "queued", "running", "done", "refused"}

Live(c) == status[c] \in {"queued", "running"}
Called(c) == status[c] \in {"queued", "running", "done"}

Init ==
    /\ status = [c \in Call |-> "idle"]
    /\ parent = [c \in Call |-> NoCall]
    /\ owned = [c \in Call |-> {}]
    /\ need = [c \in Call |-> {}]
    /\ waits = [c \in Call |-> [k \in Key |-> NoCall]]
    /\ tail = [k \in Key |-> NoCall]
    /\ count = [k \in Key |-> 0]
    /\ ticket = [c \in Call |-> 0]
    /\ clock = 0

-------------------------------------------------------------------------------
\* The store of the calling context: empty outside every call.
Inherited(p) == IF p = NoCall THEN {} ELSE owned[p]

\* A call is made from outside every call or from a function that is running.
Contexts == {NoCall} \cup {p \in Call : status[p] = "running"}

MayCall(c, p) == status[c] = "idle" /\ p \in Contexts

\* enqueue: every needed chain is extended, and every counter raised, in one step.
Enqueue(c, p, K) ==
    /\ status' = [status EXCEPT ![c] = "queued"]
    /\ parent' = [parent EXCEPT ![c] = p]
    /\ owned' = [owned EXCEPT ![c] = Inherited(p) \cup K]
    /\ need' = [need EXCEPT ![c] = K]
    /\ waits' = [waits EXCEPT ![c] = [k \in Key |-> IF k \in K THEN tail[k] ELSE NoCall]]
    /\ tail' = [k \in Key |-> IF k \in K THEN c ELSE tail[k]]
    /\ count' = [k \in Key |-> IF k \in K THEN count[k] + 1 ELSE count[k]]
    /\ ticket' = [ticket EXCEPT ![c] = clock]
    /\ clock' = clock + 1

\* `if (!need.length) return fn()`: no acquisition, the context's store stays.
Reenter(c, p) ==
    /\ status' = [status EXCEPT ![c] = "running"]
    /\ parent' = [parent EXCEPT ![c] = p]
    /\ owned' = [owned EXCEPT ![c] = Inherited(p)]
    /\ UNCHANGED <<need, waits, tail, count, ticket, clock>>

\* A mutant of WithOp: a nested call acquires the keys its context already owns again.
WithOpReacquiring(c, p, K) ==
    /\ c \notin Try
    /\ MayCall(c, p)
    /\ p = NoCall \/ NestedWaits \/ K \subseteq Inherited(p)
    /\ Enqueue(c, p, K)

\* withOp.  Whether a nested call may still have something to wait for is up to the
\* engine, whose operations take every key they will need in one acquisition.
WithOp(c, p, K) ==
    LET new == K \ Inherited(p) IN
    /\ c \notin Try
    /\ MayCall(c, p)
    /\ \/ new = {} /\ Reenter(c, p)
       \/ /\ new # {}
          /\ p = NoCall \/ NestedWaits
          /\ Enqueue(c, p, new)

\* A mutant of Free: one free key is enough.
FreeSomewhere(K) == K = {} \/ \E k \in K : count[k] = 0

\* The test of tryWithOp: nobody holds or waits for a key the call would acquire.
Free(K) == \A k \in K : count[k] = 0

\* tryWithOp: refuses instead of queueing.
TryWithOp(c, p, K) ==
    LET new == K \ Inherited(p) IN
    /\ c \in Try
    /\ MayCall(c, p)
    /\ \/ /\ ~Free(new)
          /\ status' = [status EXCEPT ![c] = "refused"]
          /\ UNCHANGED <<parent, owned, need, waits, tail, count, ticket, clock>>
       \/ new = {} /\ Reenter(c, p)
       \/ new # {} /\ Free(new) /\ Enqueue(c, p, new)

\* A mutant of Ready: the first chain to settle opens the gate.
ReadyOnOneKey(c) == \E k \in need[c] : waits[c][k] # NoCall => status[waits[c][k]] = "done"

\* gate.ready: the chain found on every needed key has settled.
Ready(c) == \A k \in need[c] : waits[c][k] # NoCall => status[waits[c][k]] = "done"

Grant(c) ==
    /\ status[c] = "queued"
    /\ Ready(c)
    /\ status' = [status EXCEPT ![c] = "running"]
    /\ UNCHANGED <<parent, owned, need, waits, tail, count, ticket, clock>>

\* A mutant of Awaited: the function may leave a nested call running behind it.
AwaitedOrNot(c) == c \in Call

\* Every nested call is awaited by the function that makes it.
Awaited(c) == \A d \in Call : parent[d] = c => ~Live(d)

\* Mutants of Release: the entry is never dropped, and dropped one user too early.
ReleaseKeeping(K) ==
    /\ count' = [k \in Key |-> IF k \in K THEN count[k] - 1 ELSE count[k]]
    /\ UNCHANGED tail

ReleaseEarly(K) ==
    /\ count' = [k \in Key |-> IF k \in K THEN count[k] - 1 ELSE count[k]]
    /\ tail' = [k \in Key |-> IF k \in K /\ count[k] <= 2 THEN NoCall ELSE tail[k]]

\* release: the counter goes down, and an entry that nobody uses is dropped.
Release(K) ==
    /\ count' = [k \in Key |-> IF k \in K THEN count[k] - 1 ELSE count[k]]
    /\ tail' = [k \in Key |-> IF k \in K /\ count[k] <= 1 THEN NoCall ELSE tail[k]]

\* The function has returned or thrown: the finally block opens the gate and releases.
Finish(c) ==
    /\ status[c] = "running"
    /\ Awaited(c)
    /\ status' = [status EXCEPT ![c] = "done"]
    /\ Release(need[c])
    /\ UNCHANGED <<parent, owned, need, waits, ticket, clock>>

\* Every call has been made and answered.
Quiescent ==
    /\ \A c \in Call : status[c] \in {"done", "refused"}
    /\ UNCHANGED vars

Next ==
    \/ \E c \in Call, p \in Call \cup {NoCall}, K \in (SUBSET Key) \ {{}} :
          WithOp(c, p, K) \/ TryWithOp(c, p, K)
    \/ \E c \in Call : Grant(c) \/ Finish(c)
    \/ Quiescent

Spec == Init /\ [][Next]_vars

\* Promise reactions are run by the event loop, and every operation ends: each docker
\* call, probe and wait inside one is bounded by a timeout.
FairSpec == Spec /\ \A c \in Call : WF_vars(Grant(c)) /\ WF_vars(Finish(c))

-------------------------------------------------------------------------------
\* The types of the lock's state.
TypeOK ==
    /\ status \in [Call -> Status]
    /\ parent \in [Call -> Call \cup {NoCall}]
    /\ owned \in [Call -> SUBSET Key]
    /\ need \in [Call -> SUBSET Key]
    /\ waits \in [Call -> [Key -> Call \cup {NoCall}]]
    /\ tail \in [Key -> Call \cup {NoCall}]
    /\ count \in [Key -> Nat]
    /\ ticket \in [Call -> Nat]
    /\ clock \in Nat

\* THE mutual exclusion for container work: two operations that acquired a common key
\* are never inside their functions at the same time (withOp).
MutualExclusion ==
    \A c, d \in Call :
        c # d /\ status[c] = "running" /\ status[d] = "running" => need[c] \cap need[d] = {}

Users(k) == {c \in Call : Live(c) /\ k \in need[c]}

\* A counter says exactly how many operations hold or wait for its key, and the entry is
\* there exactly as long as somebody does: busy() and tryWithOp judge by nothing else.
CountsLive ==
    \A k \in Key :
        /\ count[k] = Cardinality(Users(k))
        /\ tail[k] = NoCall <=> Users(k) = {}

\* A call of tryWithOp that was not refused never stands behind another operation, so a
\* sleep never lands after a deploy it would undo.
TryNeverWaits ==
    \A c \in Try, d \in Call :
        status[c] = "queued" /\ Live(d) /\ ticket[d] < ticket[c] => need[d] \cap need[c] = {}

\* What the chain answers without waiting is true: the counters, the entries, the refusals.
AnswersAreTrue == CountsLive /\ TryNeverWaits

\* A running function that believes it owns a key, because it acquired it or because a
\* call around it did, is right: some call that acquired the key is still running.
\* This is what lets a nested wake or deploy go ahead without acquiring anything.
OwnedIsHeld ==
    \A c \in Call :
        status[c] = "running" =>
            \A k \in owned[c] : \E h \in Call : status[h] = "running" /\ k \in need[h]

\* What the chains and counters implement: first come, first served, per key.
Abstract == INSTANCE KeyLock

ImplementsKeyLock == Abstract!Spec

\* Two multi-key operations can never deadlock, and a failed or slow one never wedges its
\* keys: whoever has taken a place in a chain gets to run, and ends.
EveryCallEnds == \A c \in Call : status[c] = "queued" ~> status[c] = "done"
===============================================================================
