----------------------------- MODULE StateCache -----------------------------
(***************************************************************************)
(* The snapshot of container states (src/src/scheduler.ts: stateCache), for *)
(* one container.  Any number of docker listings are in flight at once,     *)
(* each describes the box at some moment between its call and its answer,   *)
(* and they come back in any order, among the operations that record what   *)
(* they have just made of the container themselves.  Every fact is dated.   *)
(***************************************************************************)
EXTENDS Integers

CONSTANTS
    Reader,    \* listings that may be in flight: sweep, wakes, sleeps, refreshes
    MaxAge,    \* how old an observation may be and still be acted on
    MaxClock,  \* bound: the last instant
    None

ASSUME StateCacheAssumption ==
    /\ MaxAge \in Nat \ {0} /\ MaxClock \in Nat
    /\ None \notin {"running", "exited", "gone"}

State == {"running", "exited"}
Docker == State \cup {"gone"}
Time == 0 .. MaxClock

VARIABLES
    now,      \* the clock; what happens between two of its beats has one date
    docker,   \* the container itself
    cache,    \* the snapshot's entry for it: a state and its date, or None
    read,     \* each reader's listing: None, or its date of issue and its answer
    ran,      \* history: the last instant at which it was running, -1 for never
    changed   \* history: the instant of its last change, -1 for none

vars == <<now, docker, cache, read, ran, changed>>

Init ==
    /\ now = 0
    /\ docker \in Docker
    /\ cache = None
    /\ read = [r \in Reader |-> None]
    /\ ran = IF docker = "running" THEN 0 ELSE -1
    /\ changed = -1

\* setCached.
SetCached(state) == cache' = [state |-> state, at |-> now]

-------------------------------------------------------------------------------
Tick ==
    /\ now < MaxClock
    /\ now' = now + 1
    /\ ran' = IF docker = "running" THEN now + 1 ELSE ran
    /\ UNCHANGED <<docker, cache, read, changed>>

\* The container dies, is removed, or is run by docker or by somebody else.
Change(d) ==
    /\ docker # d
    /\ docker' = d
    /\ ran' = IF d = "running" THEN now ELSE ran
    /\ changed' = now
    /\ UNCHANGED <<now, cache, read>>

\* onUp after awaitReady, onAsleep and onStopped after a stop: the outcome just observed.
Record ==
    /\ docker \in State
    /\ SetCached(docker)
    /\ UNCHANGED <<now, docker, read, ran, changed>>

\* A stop that failed may land all the same: the entry is dropped.
StopFails ==
    /\ cache' = None
    /\ UNCHANGED <<now, docker, read, ran, changed>>

Issue(r) ==
    /\ read[r] = None
    /\ read' = [read EXCEPT ![r] = [at |-> now, answer |-> None]]
    /\ UNCHANGED <<now, docker, cache, ran, changed>>

\* docker answers; the answer has yet to travel.
Answer(r) ==
    /\ read[r] # None /\ read[r].answer = None
    /\ read' = [read EXCEPT ![r].answer = docker]
    /\ UNCHANGED <<now, docker, cache, ran, changed>>

Fail(r) ==
    /\ read[r] # None
    /\ read' = [read EXCEPT ![r] = None]
    /\ UNCHANGED <<now, docker, cache, ran, changed>>

\* What absorb makes of an entry, given a listing's answer and its date.  (Mutant: it is
\* only folded in.)
FoldAdding(entry, answer, at) ==
    IF answer = "gone" \/ (entry # None /\ entry.at > at) THEN entry
    ELSE [state |-> answer, at |-> at]

Fold(entry, answer, at) ==
    IF entry # None /\ entry.at > at THEN entry
    ELSE IF answer = "gone" THEN None ELSE [state |-> answer, at |-> at]

\* The date of a listing is that of its issue.  (Mutant: of its return.)
DateOfReturn(r) == now
DateOf(r) == read[r].at

Absorb(r) ==
    /\ read[r] # None /\ read[r].answer # None
    /\ cache' = Fold(cache, read[r].answer, DateOf(r))
    /\ read' = [read EXCEPT ![r] = None]
    /\ UNCHANGED <<now, docker, ran, changed>>

Next ==
    \/ Tick \/ Record \/ StopFails
    \/ \E d \in Docker : Change(d)
    \/ \E r \in Reader : Issue(r) \/ Answer(r) \/ Fail(r) \/ Absorb(r)

Spec == Init /\ [][Next]_vars

\* observedRunning: the evidence on which the sweep and the eviction pass stop a container.
ObservedRunning == cache # None /\ cache.state = "running" /\ now - cache.at < MaxAge

-------------------------------------------------------------------------------
\* The types of the snapshot and of the listings in flight.
TypeOK ==
    /\ now \in Time
    /\ docker \in Docker
    /\ cache \in [state : State, at : 0 .. now] \cup {None}
    /\ read \in [Reader -> [at : 0 .. now, answer : Docker \cup {None}] \cup {None}]
    /\ ran \in {-1} \cup 0 .. now
    /\ changed \in {-1} \cup 0 .. now

\* A container that is acted on as running was running less than MaxAge ago, however long
\* the listing that said so took and whatever came back before and after it.
ActsOnFreshFacts ==
    ObservedRunning => ran >= 0 /\ now - ran < MaxAge

\* A listing never puts an older fact over a newer one.
NeverOlder == [][cache # None /\ cache' # None => cache'.at >= cache.at]_vars

\* A listing of a container that has not changed since the instant it was issued leaves the
\* snapshot with what the container is, whatever other listings did meanwhile.
CatchesUp ==
    [][\A r \in Reader :
          Absorb(r) /\ changed < read[r].at
             => IF docker = "gone" THEN cache' = None
                ELSE cache' # None /\ cache'.state = docker]_vars
===============================================================================
