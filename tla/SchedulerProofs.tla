--------------------------- MODULE SchedulerProofs ---------------------------
(***************************************************************************)
(* Proofs about the scheduler and about compute groups.  Of the scheduler  *)
(* (Scheduler), for any services, requests and verbs, any memory, any      *)
(* faults of docker and any length of the queues: intent is not forgotten, *)
(* waiters are answered, nothing sleeps under traffic.  Of a group (Group),*)
(* for any branches, images and ceilings and any line of deploys, clones   *)
(* and removals: its bytes stay named, its containers keep to the intent,  *)
(* and a rebuild keeps the image and takes no bytes from a container.      *)
(***************************************************************************)
EXTENDS Scheduler, Group, FiniteSetTheorems, SequenceTheorems, TLAPS

-------------------------------------------------------------------------------
\* What holds of the key of one service at any moment.

WakePc == {"look", "probe", "unpause", "evict", "start", "ready"}

\* Where an operation can be follows from what it is.
Shape(s) ==
    /\ kind[s] = "none" <=> pc[s] = "none"
    /\ kind[s] \in SleepKinds <=> pc[s] \in {"read", "stop"}
    /\ pc[s] \in WakePc => kind[s] \in {"traffic"} \cup InlineKinds
    /\ pc[s] = "hint" => kind[s] = "start"
    /\ pc[s] = "act" <=> kind[s] \in {"stop", "suspend"}
    /\ pc[s] = "query" => kind[s] = "manage"

Queued(s, op) == \E i \in 1 .. Len(queue[s]) : queue[s][i] = op

\* The wakes map is what its callers believe of it.
Awaited(s) ==
    /\ \A r \in Req : Target[r] = s /\ rpc[r] = "wait" => flight[s] # "no"
    /\ flight[s] = "wake" => kind[s] = "traffic" \/ Queued(s, "traffic")
    /\ flight[s] = "inline" => kind[s] \in InlineKinds /\ pc[s] \in WakePc

\* A held key is hot, and a key that sleeps has nobody past its resolve.
Undisturbed(s) ==
    \A r \in Req : Target[r] = s =>
        /\ rpc[r] # "none" => activity[s] = "hot"
        /\ kind[s] \in SleepKinds => rpc[r] \notin {"woken", "serving"}

Fine(s) == Shape(s) /\ Awaited(s) /\ Undisturbed(s)

\* The part of the types that operations and requests move.
Place == {"none", "read", "stop", "look", "probe", "unpause", "evict", "start",
          "ready", "hint", "act", "query"}

LocksTyped ==
    /\ queue \in [Svc -> Seq(Ops)]
    /\ kind \in [Svc -> Ops \cup SleepKinds \cup {"none"}]
    /\ pc \in [Svc -> Place]
    /\ by \in [Svc -> Svc \cup {Sweep}]
    /\ flight \in [Svc -> {"no", "wake", "inline"}]
    /\ rpc \in [Req -> {"none", "resolving", "wait", "woken", "serving"}]

RestTyped ==
    /\ docker \in [Svc -> Container]
    /\ cache \in [Svc -> Container \cup {"none"}]
    /\ slept \in [Svc -> BOOLEAN]
    /\ desired \in [Svc -> {"running", "stopped", "suspended"}]
    /\ alwaysOn \in [Svc -> BOOLEAN]
    /\ activity \in [Svc -> {"hot", "warm", "idle"}]
    /\ protect \in [Svc -> BOOLEAN]
    /\ pass \in [Svc \cup {Sweep} -> [tried : SUBSET Svc, credit : Int, failed : BOOLEAN]]
    /\ sweep \in {"off", "stats", "idle", "refresh", "evict"}
    /\ captured \in SUBSET Svc /\ todo \in SUBSET Svc

BaseInv == LocksTyped /\ RestTyped /\ \A s \in Svc : Fine(s)

\* A service that is not to run is down, whoever holds its key.
Standing(s) ==
    s \in Compute /\ desired[s] # "running" =>
        docker[s] = IF desired[s] = "stopped" THEN "exited" ELSE "paused"

\* An operation that may start a container, or stops one to let it sleep, is past the look at
\* an intent that only the holder of the key writes.
Wanted(s) ==
    s \in Compute =>
        /\ kind[s] # "manage" /\ ~Queued(s, "manage")
        /\ \/ kind[s] \in {"start", "always"}
           \/ kind[s] = "traffic" /\ pc[s] # "look"
           \/ pc[s] = "stop"
           => desired[s] = "running"

IntentInv == BaseInv /\ \A s \in Svc : Standing(s) /\ Wanted(s)

-------------------------------------------------------------------------------
\* What is free is a number of containers.
LEMMA AvailableIsInt == Available \in Int
<1>1. IsFiniteSet({s \in Svc : docker[s] # "exited"})
  BY FS_Subset, SchedulerAssumption
<1> QED BY <1>1, FS_CardinalityType, SchedulerAssumption DEF Available

\* A pass that starts counts from what is free.
LEMMA FirstTurnTyped ==
    ASSUME RestTyped, NEW p \in Svc \cup {Sweep}, FirstTurn(p)
    PROVE  pass' \in [Svc \cup {Sweep} -> [tried : SUBSET Svc, credit : Int, failed : BOOLEAN]]
<1> DEFINE R == [tried : SUBSET Svc, credit : Int, failed : BOOLEAN]
<1>1. ASSUME NEW x \in R, NEW n \in Int PROVE [x EXCEPT !.credit = n] \in R
  OBVIOUS
<1>2. NoPass \in R
  BY DEF NoPass
<1> HIDE DEF R
<1>3. [NoPass EXCEPT !.credit = Available] \in R
  BY <1>1, <1>2, AvailableIsInt
<1>4. PICK x \in R : pass' = [pass EXCEPT ![p] = x]
  BY <1>3, Zenon DEF FirstTurn
<1> QED BY <1>4 DEF RestTyped, R

\* A pass counts what a sleep freed, and whether it failed.
LEMMA PassCounts ==
    ASSUME RestTyped, NEW p \in Svc \cup {Sweep}, NEW n \in Int, NEW bad \in BOOLEAN,
           pass' = [pass EXCEPT ![p].credit = @ + n, ![p].failed = bad]
    PROVE  pass' \in [Svc \cup {Sweep} -> [tried : SUBSET Svc, credit : Int, failed : BOOLEAN]]
<1>1. pass[p] \in [tried : SUBSET Svc, credit : Int, failed : BOOLEAN]
  BY DEF RestTyped
<1>2. PICK q : q = [pass EXCEPT ![p].credit = @ + n]
  OBVIOUS
<1>3. q \in [Svc \cup {Sweep} -> [tried : SUBSET Svc, credit : Int, failed : BOOLEAN]]
  BY <1>1, <1>2 DEF RestTyped
<1>4. pass' = [q EXCEPT ![p].failed = bad]
  BY <1>2
<1> QED BY <1>3, <1>4

\* What is appended stays behind what was there.
LEMMA AppendKeeps ==
    ASSUME NEW q \in Seq(Ops), NEW op \in Ops
    PROVE  /\ Append(q, op) \in Seq(Ops)
           /\ \A x : (\E i \in 1 .. Len(Append(q, op)) : Append(q, op)[i] = x)
                        <=> x = op \/ \E i \in 1 .. Len(q) : q[i] = x
<1>1. /\ Append(q, op) \in Seq(Ops) /\ Len(Append(q, op)) = Len(q) + 1 /\ Len(q) \in Nat
      /\ Append(q, op)[Len(q) + 1] = op
      /\ \A i \in 1 .. Len(q) : Append(q, op)[i] = q[i]
  OBVIOUS
<1>2. \A x : (\E i \in 1 .. Len(q) + 1 : Append(q, op)[i] = x)
                <=> x = op \/ \E i \in 1 .. Len(q) : q[i] = x
  BY <1>1
<1> QED BY <1>1, <1>2

\* What is behind the head of a queue stays in it.
LEMMA TailKeeps ==
    ASSUME NEW q \in Seq(Ops), q # <<>>
    PROVE  /\ Head(q) \in Ops /\ Tail(q) \in Seq(Ops)
           /\ \A x : (\E i \in 1 .. Len(q) : q[i] = x)
                        <=> x = Head(q) \/ \E i \in 1 .. Len(Tail(q)) : Tail(q)[i] = x
<1>1. /\ Len(q) \in Nat \ {0} /\ Tail(q) \in Seq(Ops) /\ Len(Tail(q)) = Len(q) - 1
      /\ Head(q) = q[1] /\ Head(q) \in Ops
      /\ \A i \in 1 .. Len(q) - 1 : Tail(q)[i] = q[i + 1]
  OBVIOUS
<1>2. ASSUME NEW x, NEW i \in 1 .. Len(q), q[i] = x, x # Head(q)
      PROVE  \E j \in 1 .. Len(Tail(q)) : Tail(q)[j] = x
  <2>1. i - 1 \in 1 .. Len(Tail(q)) /\ Tail(q)[i - 1] = x
    BY <1>1, <1>2
  <2> QED BY <2>1
<1>3. ASSUME NEW x, NEW j \in 1 .. Len(Tail(q)), Tail(q)[j] = x
      PROVE  \E i \in 1 .. Len(q) : q[i] = x
  <2>1. j + 1 \in 1 .. Len(q) /\ q[j + 1] = x
    BY <1>1, <1>3
  <2> QED BY <2>1
<1>4. 1 \in 1 .. Len(q)
  BY <1>1
<1> QED BY <1>1, <1>2, <1>3, <1>4

-------------------------------------------------------------------------------
\* The ways in which an operation moves on, each for every service at once.

Warmer == \A t \in Svc : activity'[t] \in {activity[t], "hot"}

\* It goes on to another step of a wake.
LEMMA GotoKeeps ==
    ASSUME BaseInv, NEW s \in Svc, NEW at \in WakePc, pc[s] \in WakePc, Goto(s, at),
           UNCHANGED rpc, Warmer
    PROVE  \A t \in Svc : Fine(t)'
<1> SUFFICES ASSUME NEW t \in Svc PROVE Fine(t)'
  OBVIOUS
<1>1. pc' = [pc EXCEPT ![s] = at] /\ UNCHANGED <<queue, kind, flight, rpc>>
  BY DEF Goto
<1>2. Fine(t) /\ Fine(s) /\ pc \in [Svc -> Place]
  BY DEF BaseInv, LocksTyped
<1>3. Shape(t)'
  BY <1>1, <1>2 DEF Shape, Fine, WakePc, InlineKinds, SleepKinds
<1>4. Awaited(t)'
  BY <1>1, <1>2 DEF Awaited, Fine, Queued
<1>5. Undisturbed(t)'
  BY <1>1, <1>2 DEF Undisturbed, Fine, Warmer
<1> QED BY <1>3, <1>4, <1>5 DEF Fine

\* A wake ends, well or not.
LEMMA EndWakeKeeps ==
    ASSUME BaseInv, NEW s \in Svc, NEW ok \in BOOLEAN, pc[s] \in WakePc, EndWake(s, ok), Warmer
    PROVE  /\ LocksTyped' /\ \A t \in Svc : Fine(t)'
           /\ queue' = queue
           /\ \A t \in Svc : \/ kind'[t] = kind[t] /\ pc'[t] = pc[t]
                             \/ kind'[t] = "none" /\ pc'[t] = "none"
                             \/ kind[t] = "manage" /\ kind'[t] = "manage"
<1> DEFINE Clears == kind[s] = "traffic" \/ flight[s] = "inline"
<1>1. LocksTyped /\ Fine(s)
  BY DEF BaseInv
<1>2. UNCHANGED <<queue, by>>
  BY DEF EndWake
<1>3. \/ /\ kind[s] = "manage" /\ kind' = kind /\ pc' = [pc EXCEPT ![s] = "query"]
      \/ kind' = [kind EXCEPT ![s] = "none"] /\ pc' = [pc EXCEPT ![s] = "none"]
  BY DEF EndWake, End
<1>4. \/ Clears /\ flight' = [flight EXCEPT ![s] = "no"] /\ Settle(s, ok)
      \/ ~Clears /\ flight' = flight /\ rpc' = rpc
  BY DEF EndWake
<1>5. kind' \in [Svc -> Ops \cup SleepKinds \cup {"none"}] /\ pc' \in [Svc -> Place]
  BY <1>1, <1>3 DEF LocksTyped, Place
<1>6. /\ flight' \in [Svc -> {"no", "wake", "inline"}]
      /\ rpc' \in [Req -> {"none", "resolving", "wait", "woken", "serving"}]
  BY <1>1, <1>4 DEF LocksTyped, Settle
<1>7. \A r \in Req : /\ Target[r] # s => rpc'[r] = rpc[r]
                     /\ rpc[r] = "none" => rpc'[r] = "none"
                     /\ rpc'[r] = "wait" => rpc[r] = "wait"
                     /\ Target[r] = s /\ Clears => rpc'[r] # "wait"
  BY <1>1, <1>4 DEF LocksTyped, Settle
<1>8. \A t \in Svc : \/ kind'[t] = kind[t] /\ pc'[t] = pc[t]
                     \/ kind'[t] = "none" /\ pc'[t] = "none"
                     \/ kind[t] = "manage" /\ kind'[t] = "manage"
  BY <1>1, <1>3 DEF LocksTyped
<1>9. ASSUME NEW t \in Svc PROVE Fine(t)'
  <2>1. Fine(t)
    BY DEF BaseInv
  <2>2. Shape(t)'
    BY <1>1, <1>3, <2>1 DEF LocksTyped, Fine, Shape, WakePc, InlineKinds, SleepKinds
  <2>3. CASE t # s
    <3>1. /\ kind'[t] = kind[t] /\ pc'[t] = pc[t] /\ flight'[t] = flight[t] /\ queue' = queue
          /\ \A r \in Req : Target[r] = t => rpc'[r] = rpc[r]
      BY <2>3, <1>1, <1>2, <1>3, <1>4, <1>7 DEF LocksTyped
    <3>2. Awaited(t)'
      BY <3>1, <2>1 DEF Fine, Awaited, Queued
    <3>3. Undisturbed(t)'
      BY <3>1, <2>1 DEF Fine, Undisturbed, Warmer
    <3> QED BY <2>2, <3>2, <3>3 DEF Fine
  <2>4. CASE t = s
    <3>1. kind[s] \in {"traffic"} \cup InlineKinds
      BY <1>1 DEF Fine, Shape
    <3>2. kind'[s] \notin SleepKinds
      BY <3>1, <1>1, <1>3 DEF InlineKinds, SleepKinds, LocksTyped
    <3>3. Undisturbed(s)'
      BY <3>2, <1>1, <1>7 DEF Fine, Undisturbed, Warmer
    <3>4. CASE Clears
      <4>1. flight'[s] = "no"
        BY <3>4, <1>1, <1>4 DEF LocksTyped
      <4>2. Awaited(s)'
        BY <4>1, <3>4, <1>7 DEF Awaited
      <4> QED BY <4>2, <3>3, <2>2, <2>4 DEF Fine
    <3>5. CASE ~Clears
      <4>1. flight' = flight /\ rpc' = rpc /\ queue' = queue /\ flight[s] # "inline"
            /\ kind[s] # "traffic"
        BY <3>5, <1>2, <1>4
      <4>2. Awaited(s)'
        BY <4>1, <1>1 DEF Fine, Awaited, Queued
      <4> QED BY <4>2, <3>3, <2>2, <2>4 DEF Fine
    <3> QED BY <3>4, <3>5
  <2> QED BY <2>3, <2>4
<1>10. LocksTyped'
  BY <1>1, <1>2, <1>5, <1>6 DEF LocksTyped
<1> QED BY <1>2, <1>8, <1>9, <1>10

\* A sleep goes on to its stop, or an operation that is none of the wakes ends.
LEMMA EndKeeps ==
    ASSUME BaseInv, NEW s \in Svc, pc[s] \in {"read", "stop", "act", "query"}, End(s),
           UNCHANGED <<queue, flight, rpc, activity>>, by' \in [Svc -> Svc \cup {Sweep}]
    PROVE  LocksTyped' /\ \A t \in Svc : Fine(t)'
<1>1. LocksTyped /\ Fine(s)
  BY DEF BaseInv
<1>2. kind' = [kind EXCEPT ![s] = "none"] /\ pc' = [pc EXCEPT ![s] = "none"]
  BY DEF End
<1>3. kind[s] # "traffic" /\ flight[s] # "inline"
  BY <1>1 DEF Fine, Shape, Awaited, WakePc, SleepKinds
<1>4. LocksTyped'
  BY <1>1, <1>2 DEF LocksTyped, Place
<1>5. ASSUME NEW t \in Svc PROVE Fine(t)'
  <2>1. Fine(t)
    BY DEF BaseInv
  <2>2. Shape(t)'
    BY <1>1, <1>2, <2>1 DEF LocksTyped, Fine, Shape, WakePc, InlineKinds, SleepKinds
  <2>3. Awaited(t)'
    BY <1>1, <1>2, <1>3, <2>1 DEF LocksTyped, Fine, Awaited, Queued
  <2>4. Undisturbed(t)'
    BY <1>1, <1>2, <2>1 DEF LocksTyped, Fine, Undisturbed, SleepKinds
  <2> QED BY <2>2, <2>3, <2>4 DEF Fine
<1> QED BY <1>4, <1>5

\* Sleeps begin on keys that are free and that nobody holds.
LEMMA SleepsBeginKeeps ==
    ASSUME BaseInv, NEW S \in SUBSET Svc, NEW reason \in SleepKinds, NEW p \in Svc \cup {Sweep},
           BeginSleeps(S, reason, p), UNCHANGED <<rpc, activity>>,
           \A s \in S : ~Busy(s) /\ (activity[s] # "hot" \/ Holders(s) = {})
    PROVE  /\ LocksTyped' /\ \A t \in Svc : Fine(t)'
           /\ queue' = queue
           /\ \A t \in Svc : \/ kind'[t] = kind[t] /\ pc'[t] = pc[t]
                             \/ kind'[t] \in SleepKinds /\ pc'[t] = "read"
<1>1. LocksTyped
  BY DEF BaseInv
<1>2. /\ kind' = [s \in Svc |-> IF s \in S THEN reason ELSE kind[s]]
      /\ pc' = [s \in Svc |-> IF s \in S THEN "read" ELSE pc[s]]
      /\ by' = [s \in Svc |-> IF s \in S THEN p ELSE by[s]]
      /\ UNCHANGED <<queue, flight>>
  BY DEF BeginSleeps
<1>3. LocksTyped'
  BY <1>1, <1>2 DEF LocksTyped, Place
<1>4. ASSUME NEW t \in Svc PROVE Fine(t)'
  <2>1. Fine(t)
    BY DEF BaseInv
  <2>2. CASE t \notin S
    <3>1. kind'[t] = kind[t] /\ pc'[t] = pc[t]
      BY <2>2, <1>2
    <3> QED BY <3>1, <1>2, <2>1 DEF Fine, Shape, Awaited, Undisturbed, Queued
  <2>3. CASE t \in S
    <3>1. kind'[t] = reason /\ pc'[t] = "read" /\ flight'[t] = "no"
      BY <2>3, <1>2 DEF Busy
    <3>2. \A r \in Req : Target[r] = t => rpc[r] = "none"
      BY <2>3, <2>1 DEF Holders, Fine, Undisturbed
    <3>3. Shape(t)'
      BY <3>1 DEF Shape, WakePc, SleepKinds
    <3>4. Awaited(t)'
      BY <3>1, <3>2 DEF Awaited
    <3>5. Undisturbed(t)'
      BY <3>2 DEF Undisturbed
    <3> QED BY <3>3, <3>4, <3>5 DEF Fine
  <2> QED BY <2>2, <2>3
<1>5. \A t \in Svc : \/ kind'[t] = kind[t] /\ pc'[t] = pc[t]
                     \/ kind'[t] \in SleepKinds /\ pc'[t] = "read"
  BY <1>2
<1> QED BY <1>2, <1>3, <1>4, <1>5

\* Nothing of a key moved but the clock, forwards while nobody holds it.
LEMMA StillKeeps ==
    ASSUME BaseInv, UNCHANGED <<kind, pc, queue, flight, rpc>>,
           \A t \in Svc : activity'[t] \in {activity[t], "hot"} \/ Holders(t) = {}
    PROVE  \A t \in Svc : Fine(t)'
<1> SUFFICES ASSUME NEW t \in Svc PROVE Fine(t)'
  OBVIOUS
<1>1. Fine(t)
  BY DEF BaseInv
<1> QED BY <1>1 DEF Fine, Shape, Awaited, Undisturbed, Queued, Holders

-------------------------------------------------------------------------------
\* One lemma per step of the operation that holds a key.

LEMMA GrantKeeps == ASSUME BaseInv, NEW s \in Svc, Grant(s) PROVE BaseInv'
<1> DEFINE op == Head(queue[s])
<1>1. LocksTyped /\ RestTyped /\ Fine(s)
  BY DEF BaseInv
<1>2. /\ kind[s] = "none" /\ queue[s] # <<>> /\ queue' = [queue EXCEPT ![s] = Tail(@)]
      /\ UNCHANGED <<docker, cache, slept, alwaysOn, activity, protect, by, pass, rpc,
                     sweep, captured, todo>>
  BY DEF Grant, clockVars, sweepVars
<1>3. queue[s] \in Seq(Ops)
  BY <1>1 DEF LocksTyped
<1>4. /\ op \in Ops /\ Tail(queue[s]) \in Seq(Ops)
      /\ \A x : Queued(s, x) <=> x = op \/ \E i \in 1 .. Len(Tail(queue[s])) : Tail(queue[s])[i] = x
  BY <1>2, <1>3, TailKeeps DEF Queued
<1>5. flight[s] # "inline" /\ pc[s] = "none"
  BY <1>1, <1>2 DEF Fine, Shape, Awaited, InlineKinds
<1>6. \/ /\ op \in {"traffic", "manage", "always", "start", "stop", "suspend"}
         /\ kind' = [kind EXCEPT ![s] = op]
         /\ \/ op = "traffic" /\ pc' = [pc EXCEPT ![s] = "look"] /\ flight' = flight
            \/ op \in {"manage", "always"} /\ pc' = [pc EXCEPT ![s] = "look"] /\ InlineFlight(s)
            \/ op = "start" /\ pc' = [pc EXCEPT ![s] = "hint"] /\ flight' = flight
            \/ op \in {"stop", "suspend"} /\ pc' = [pc EXCEPT ![s] = "act"] /\ flight' = flight
      \/ op = "always" /\ UNCHANGED <<kind, pc, flight>>
  BY DEF Grant, Begin
<1>7. desired' = desired \/ desired' = [desired EXCEPT ![s] = "running"]
  BY DEF Grant
<1>8. /\ kind' \in [Svc -> Ops \cup SleepKinds \cup {"none"}] /\ pc' \in [Svc -> Place]
      /\ flight' \in [Svc -> {"no", "wake", "inline"}]
  <2>1. /\ kind \in [Svc -> Ops \cup SleepKinds \cup {"none"}] /\ pc \in [Svc -> Place]
        /\ flight \in [Svc -> {"no", "wake", "inline"}]
    BY <1>1 DEF LocksTyped
  <2>2. kind' = kind \/ kind' = [kind EXCEPT ![s] = op]
    BY <1>6
  <2>3. \E at \in Place : pc' = pc \/ pc' = [pc EXCEPT ![s] = at]
    BY <1>6 DEF Place
  <2>4. flight' = flight \/ flight' = [flight EXCEPT ![s] = IF @ = "no" THEN "inline" ELSE @]
    BY <1>6 DEF InlineFlight
  <2>5. kind' \in [Svc -> Ops \cup SleepKinds \cup {"none"}]
    BY <2>1, <2>2, <1>4
  <2>6. pc' \in [Svc -> Place]
    BY <2>1, <2>3
  <2>7. flight' \in [Svc -> {"no", "wake", "inline"}]
    BY <2>1, <2>4
  <2> QED BY <2>5, <2>6, <2>7
<1>9. queue' \in [Svc -> Seq(Ops)] /\ desired' \in [Svc -> {"running", "stopped", "suspended"}]
  BY <1>1, <1>2, <1>4, <1>7 DEF LocksTyped, RestTyped
<1>10. LocksTyped' /\ RestTyped'
  BY <1>1, <1>2, <1>8, <1>9 DEF LocksTyped, RestTyped
<1>11. ASSUME NEW t \in Svc PROVE Fine(t)'
  <2>1. Fine(t)
    BY DEF BaseInv
  <2>2. CASE t # s
    <3>1. kind'[t] = kind[t] /\ pc'[t] = pc[t] /\ flight'[t] = flight[t] /\ queue'[t] = queue[t]
      BY <2>2, <1>1, <1>2, <1>6 DEF LocksTyped, InlineFlight
    <3> QED BY <3>1, <2>1, <1>2 DEF Fine, Shape, Awaited, Undisturbed, Queued
  <2>3. CASE t = s
    <3>1. queue'[s] = Tail(queue[s])
      BY <1>1, <1>2 DEF LocksTyped
    <3>2. flight[s] = "wake" => op = "traffic" \/ Queued(s, "traffic")'
      BY <3>1, <1>1, <1>2, <1>4 DEF Fine, Awaited, Queued
    <3>3. CASE op = "always" /\ UNCHANGED <<kind, pc, flight>>
      <4>1. Awaited(s)'
        BY <3>3, <3>2, <1>1, <1>2, <1>5 DEF Fine, Awaited
      <4>2. Shape(s)' /\ Undisturbed(s)'
        BY <3>3, <1>1, <1>2 DEF Fine, Shape, Undisturbed
      <4> QED BY <4>1, <4>2, <2>3 DEF Fine
    <3>4. CASE op = "traffic" /\ kind' = [kind EXCEPT ![s] = op] /\ pc' = [pc EXCEPT ![s] = "look"]
               /\ flight' = flight
      <4>1. kind'[s] = "traffic" /\ pc'[s] = "look" /\ flight'[s] = flight[s]
        BY <3>4, <1>1 DEF LocksTyped
      <4>2. Awaited(s)'
        BY <4>1, <1>1, <1>2, <1>5 DEF Fine, Awaited
      <4>3. Shape(s)' /\ Undisturbed(s)'
        BY <4>1, <1>1, <1>2 DEF Fine, Shape, Undisturbed, SleepKinds, WakePc
      <4> QED BY <4>2, <4>3, <2>3 DEF Fine
    <3>5. CASE /\ op \in {"manage", "always"} /\ kind' = [kind EXCEPT ![s] = op]
               /\ pc' = [pc EXCEPT ![s] = "look"] /\ InlineFlight(s)
      <4>1. /\ kind'[s] = op /\ pc'[s] = "look"
            /\ flight'[s] = IF flight[s] = "no" THEN "inline" ELSE flight[s]
        BY <3>5, <1>1 DEF LocksTyped, InlineFlight
      <4>2. Awaited(s)'
        BY <4>1, <3>2, <3>5, <1>1, <1>2, <1>5 DEF Fine, Awaited, InlineKinds, WakePc
      <4>3. Shape(s)' /\ Undisturbed(s)'
        BY <4>1, <3>5, <1>1, <1>2 DEF Fine, Shape, Undisturbed, SleepKinds, WakePc, InlineKinds
      <4> QED BY <4>2, <4>3, <2>3 DEF Fine
    <3>6. CASE /\ op \in {"start", "stop", "suspend"} /\ kind' = [kind EXCEPT ![s] = op]
               /\ pc' = [pc EXCEPT ![s] = IF op = "start" THEN "hint" ELSE "act"]
               /\ flight' = flight
      <4>1. kind'[s] = op /\ pc'[s] = (IF op = "start" THEN "hint" ELSE "act")
            /\ flight'[s] = flight[s]
        BY <3>6, <1>1 DEF LocksTyped
      <4>2. Awaited(s)'
        BY <4>1, <3>2, <3>6, <1>1, <1>2, <1>5 DEF Fine, Awaited
      <4>3. Shape(s)' /\ Undisturbed(s)'
        BY <4>1, <3>6, <1>1, <1>2 DEF Fine, Shape, Undisturbed, SleepKinds, WakePc, InlineKinds
      <4> QED BY <4>2, <4>3, <2>3 DEF Fine
    <3> QED BY <3>3, <3>4, <3>5, <3>6, <1>6
  <2> QED BY <2>2, <2>3
<1> QED BY <1>10, <1>11 DEF BaseInv

\* A step of a wake, whatever it does to the container, the pass or the snapshot besides.
LEMMA WakeStepKeeps ==
    ASSUME BaseInv, NEW s \in Svc, pc[s] \in WakePc, Warmer,
           \/ \E at \in WakePc : Goto(s, at) /\ UNCHANGED rpc
           \/ \E ok \in BOOLEAN : EndWake(s, ok)
    PROVE  LocksTyped' /\ \A t \in Svc : Fine(t)'
<1>1. CASE \E at \in WakePc : Goto(s, at) /\ UNCHANGED rpc
  <2>1. PICK at \in WakePc : Goto(s, at) /\ UNCHANGED rpc
    BY <1>1
  <2>2. \A t \in Svc : Fine(t)'
    BY <2>1, GotoKeeps
  <2>3. LocksTyped
    BY DEF BaseInv
  <2>4. LocksTyped'
    BY <2>1, <2>3 DEF LocksTyped, Goto, WakePc, Place
  <2> QED BY <2>2, <2>4
<1>2. CASE \E ok \in BOOLEAN : EndWake(s, ok)
  <2>1. PICK ok \in BOOLEAN : EndWake(s, ok)
    BY <1>2
  <2> QED BY <2>1, EndWakeKeeps
<1> QED BY <1>1, <1>2

LEMMA LookKeeps == ASSUME BaseInv, NEW s \in Svc, Look(s) PROVE BaseInv'
<1>1. /\ RestTyped /\ pc[s] = "look"
      /\ UNCHANGED <<docker, slept, desired, alwaysOn, activity, protect, sweep, captured, todo>>
  BY DEF BaseInv, Look, ReadUnlessRefused, rows, clockVars, sweepVars
<1>2. /\ \/ Goto(s, "probe") /\ UNCHANGED rpc
         \/ Goto(s, "ready") /\ UNCHANGED rpc
         \/ Goto(s, "evict") /\ UNCHANGED rpc
         \/ Goto(s, "unpause") /\ UNCHANGED rpc
         \/ EndWake(s, FALSE)
      /\ Read \/ UNCHANGED cache
      /\ FirstTurn(s) \/ UNCHANGED pass
  <2>1. docker[s] \in {"running", "restarting", "paused", "exited"}
    BY <1>1 DEF RestTyped, Container
  <2> QED BY <2>1 DEF Look, ReadUnlessRefused
<1>3. LocksTyped' /\ \A t \in Svc : Fine(t)'
  <2>1. Warmer /\ {"look", "probe", "ready", "evict", "unpause"} \subseteq WakePc
    BY <1>1 DEF Warmer, WakePc
  <2> QED BY <1>1, <1>2, <2>1, WakeStepKeeps
<1>4. cache' \in [Svc -> Container \cup {"none"}]
  BY <1>1, <1>2 DEF RestTyped, Read
<1>5. pass' \in [Svc \cup {Sweep} -> [tried : SUBSET Svc, credit : Int, failed : BOOLEAN]]
  BY <1>1, <1>2, FirstTurnTyped DEF RestTyped
<1>6. RestTyped'
  BY <1>1, <1>4, <1>5 DEF RestTyped
<1> QED BY <1>3, <1>6 DEF BaseInv

LEMMA ProbeKeeps == ASSUME BaseInv, NEW s \in Svc, Probe(s) PROVE BaseInv'
<1>1. /\ RestTyped /\ pc[s] = "probe"
      /\ UNCHANGED <<docker, cache, desired, alwaysOn, protect, pass, sweep, captured, todo>>
  BY DEF BaseInv, Probe, sweepVars
<1>2. /\ (Goto(s, "ready") /\ UNCHANGED rpc) \/ EndWake(s, TRUE)
      /\ slept' = slept \/ slept' = [slept EXCEPT ![s] = FALSE]
      /\ activity' = activity \/ Touch(s)
  BY DEF Probe
<1>3. Warmer /\ activity' \in [Svc -> {"hot", "warm", "idle"}] /\ slept' \in [Svc -> BOOLEAN]
  <2>1. activity \in [Svc -> {"hot", "warm", "idle"}] /\ slept \in [Svc -> BOOLEAN]
    BY <1>1 DEF RestTyped
  <2>2. activity' = activity \/ activity' = [activity EXCEPT ![s] = "hot"]
    BY <1>2 DEF Touch
  <2>3. Warmer /\ activity' \in [Svc -> {"hot", "warm", "idle"}]
    BY <2>1, <2>2 DEF Warmer
  <2>4. slept' \in [Svc -> BOOLEAN]
    BY <2>1, <1>2
  <2> QED BY <2>3, <2>4
<1>4. LocksTyped' /\ \A t \in Svc : Fine(t)'
  <2>1. {"probe", "ready"} \subseteq WakePc
    BY DEF WakePc
  <2> QED BY <1>1, <1>2, <1>3, <2>1, WakeStepKeeps
<1>5. RestTyped'
  BY <1>1, <1>3 DEF RestTyped
<1> QED BY <1>4, <1>5 DEF BaseInv

LEMMA UnpauseKeeps == ASSUME BaseInv, NEW s \in Svc, Unpause(s) PROVE BaseInv'
<1>1. /\ RestTyped /\ pc[s] = "unpause"
      /\ UNCHANGED <<cache, slept, desired, alwaysOn, activity, protect, pass, sweep, captured, todo>>
  BY DEF BaseInv, Unpause, rows, clockVars, sweepVars
<1>2. /\ (Goto(s, "ready") /\ UNCHANGED rpc) \/ EndWake(s, FALSE)
      /\ docker' = docker \/ docker' = [docker EXCEPT ![s] = "running"]
  BY DEF Unpause
<1>3. LocksTyped' /\ \A t \in Svc : Fine(t)'
  <2>1. {"unpause", "ready"} \subseteq WakePc /\ Warmer
    BY <1>1 DEF WakePc, Warmer
  <2> QED BY <1>1, <1>2, <2>1, WakeStepKeeps
<1>4. RestTyped'
  BY <1>1, <1>2 DEF RestTyped, Container
<1> QED BY <1>3, <1>4 DEF BaseInv

LEMMA StartContainerKeeps == ASSUME BaseInv, NEW s \in Svc, StartContainer(s) PROVE BaseInv'
<1>1. /\ RestTyped /\ pc[s] = "start"
      /\ UNCHANGED <<cache, slept, desired, alwaysOn, activity, protect, pass, sweep, captured, todo>>
  BY DEF BaseInv, StartContainer, rows, clockVars, sweepVars
<1>2. /\ (Goto(s, "ready") /\ UNCHANGED rpc) \/ EndWake(s, FALSE)
      /\ docker' = docker \/ docker' = [docker EXCEPT ![s] = "running"]
  BY DEF StartContainer
<1>3. LocksTyped' /\ \A t \in Svc : Fine(t)'
  <2>1. {"start", "ready"} \subseteq WakePc /\ Warmer
    BY <1>1 DEF WakePc, Warmer
  <2> QED BY <1>1, <1>2, <2>1, WakeStepKeeps
<1>4. RestTyped'
  BY <1>1, <1>2 DEF RestTyped, Container
<1> QED BY <1>3, <1>4 DEF BaseInv

LEMMA AwaitReadyKeeps == ASSUME BaseInv, NEW s \in Svc, AwaitReady(s) PROVE BaseInv'
<1>1. /\ RestTyped /\ pc[s] = "ready"
      /\ UNCHANGED <<docker, desired, alwaysOn, pass, sweep, captured, todo>>
  BY DEF BaseInv, AwaitReady, sweepVars
<1>2. /\ \E ok \in BOOLEAN : EndWake(s, ok)
      /\ OnUp(s) \/ UNCHANGED <<cache, slept, activity, protect>>
  BY DEF AwaitReady, clockVars
<1>3. /\ Warmer /\ activity' \in [Svc -> {"hot", "warm", "idle"}] /\ slept' \in [Svc -> BOOLEAN]
      /\ cache' \in [Svc -> Container \cup {"none"}] /\ protect' \in [Svc -> BOOLEAN]
  <2>1. /\ activity \in [Svc -> {"hot", "warm", "idle"}] /\ slept \in [Svc -> BOOLEAN]
        /\ cache \in [Svc -> Container \cup {"none"}] /\ protect \in [Svc -> BOOLEAN]
    BY <1>1 DEF RestTyped
  <2>2. CASE OnUp(s)
    <3>1. Warmer /\ activity' \in [Svc -> {"hot", "warm", "idle"}]
      BY <2>1, <2>2 DEF Warmer, OnUp
    <3>2. slept' \in [Svc -> BOOLEAN]
      BY <2>1, <2>2 DEF OnUp
    <3>3. protect' \in [Svc -> BOOLEAN]
      BY <2>1, <2>2 DEF OnUp
    <3>4. cache' \in [Svc -> Container \cup {"none"}]
      BY <2>1, <2>2 DEF OnUp, Container
    <3> QED BY <3>1, <3>2, <3>3, <3>4
  <2>3. CASE UNCHANGED <<cache, slept, activity, protect>>
    BY <2>1, <2>3 DEF Warmer
  <2> QED BY <1>2, <2>2, <2>3
<1>4. LocksTyped' /\ \A t \in Svc : Fine(t)'
  <2>1. "ready" \in WakePc
    BY DEF WakePc
  <2> QED BY <1>1, <1>2, <1>3, <2>1, WakeStepKeeps
<1>5. RestTyped'
  BY <1>1, <1>3 DEF RestTyped
<1> QED BY <1>4, <1>5 DEF BaseInv

\* A victim is stopped on behalf of a pass.
LEMMA EvictKeeps ==
    ASSUME BaseInv, NEW p \in Svc \cup {Sweep}, Evict(p), UNCHANGED <<rpc, activity>>
    PROVE  /\ LocksTyped' /\ \A t \in Svc : Fine(t)'
           /\ pass' \in [Svc \cup {Sweep} -> [tried : SUBSET Svc, credit : Int, failed : BOOLEAN]]
           /\ queue' = queue
           /\ \A t \in Svc : \/ kind'[t] = kind[t] /\ pc'[t] = pc[t]
                             \/ kind'[t] \in SleepKinds /\ pc'[t] = "read"
<1>1. RestTyped
  BY DEF BaseInv
<1>2. PICK v \in Coldest(Pool(p)) : /\ BeginSleeps({v}, "memory", p)
                                   /\ pass' = [pass EXCEPT ![p].tried = @ \cup {v}]
  BY DEF Evict
<1>3. v \in Svc /\ ~Busy(v) /\ Holders(v) = {}
  BY <1>2 DEF Coldest, Pool, IsVictim
<1>4. "memory" \in SleepKinds
  BY DEF SleepKinds
<1>5. pass' \in [Svc \cup {Sweep} -> [tried : SUBSET Svc, credit : Int, failed : BOOLEAN]]
  BY <1>1, <1>2, <1>3 DEF RestTyped
<1>6. {v} \in SUBSET Svc /\ \A x \in {v} : ~Busy(x) /\ (activity[x] # "hot" \/ Holders(x) = {})
  BY <1>3
<1> QED BY <1>2, <1>4, <1>5, <1>6, SleepsBeginKeeps

LEMMA MakeRoomKeeps == ASSUME BaseInv, NEW s \in Svc, MakeRoom(s) PROVE BaseInv'
<1>1. /\ RestTyped /\ pc[s] = "evict" /\ pc[s] \in WakePc /\ Warmer
      /\ UNCHANGED <<docker, cache, slept, desired, alwaysOn, activity, protect, sweep, captured, todo>>
  BY DEF BaseInv, MakeRoom, rows, clockVars, sweepVars, WakePc, Warmer
<1>2. CASE (EndWake(s, FALSE) \/ (Goto(s, "start") /\ UNCHANGED rpc)) /\ LastTurn(s)
  <2>1. "start" \in WakePc /\ FALSE \in BOOLEAN
    BY DEF WakePc
  <2>2. LocksTyped' /\ \A t \in Svc : Fine(t)'
    BY <1>1, <1>2, <2>1, WakeStepKeeps
  <2>3. RestTyped'
    BY <1>1, <1>2 DEF RestTyped, LastTurn, NoPass
  <2> QED BY <2>2, <2>3 DEF BaseInv
<1>3. CASE Evict(s) /\ UNCHANGED rpc
  <2>1. /\ LocksTyped' /\ \A t \in Svc : Fine(t)'
        /\ pass' \in [Svc \cup {Sweep} -> [tried : SUBSET Svc, credit : Int, failed : BOOLEAN]]
    BY <1>1, <1>3, EvictKeeps
  <2>2. RestTyped'
    BY <1>1, <2>1 DEF RestTyped
  <2> QED BY <2>1, <2>2 DEF BaseInv
<1> QED BY <1>2, <1>3 DEF MakeRoom

LEMMA HintKeeps == ASSUME BaseInv, NEW s \in Svc, Hint(s) PROVE BaseInv'
<1>1. /\ RestTyped /\ LocksTyped /\ Fine(s) /\ pc[s] = "hint"
      /\ pc' = [pc EXCEPT ![s] = "look"] /\ InlineFlight(s)
      /\ UNCHANGED <<cache, slept, desired, alwaysOn, activity, protect, pass, sweep, captured, todo>>
      /\ UNCHANGED <<queue, kind, by, rpc>>
  BY DEF BaseInv, Hint, rows, clockVars, sweepVars
<1>2. kind[s] = "start"
  BY <1>1 DEF Fine, Shape
<1>3. docker' \in [Svc -> Container]
  <2>1. \/ docker' = docker
        \/ docker' = [docker EXCEPT ![s] = IF docker[s] = "restarting" THEN docker[s] ELSE "running"]
    BY DEF Hint
  <2> QED BY <1>1, <2>1 DEF RestTyped, Container
<1>4. RestTyped'
  BY <1>1, <1>3 DEF RestTyped
<1>5. LocksTyped'
  BY <1>1 DEF LocksTyped, InlineFlight, Place
<1>6. ASSUME NEW t \in Svc PROVE Fine(t)'
  <2>1. Fine(t)
    BY DEF BaseInv
  <2>2. /\ t # s => pc'[t] = pc[t] /\ flight'[t] = flight[t]
        /\ pc'[s] = "look" /\ flight'[s] = IF flight[s] = "no" THEN "inline" ELSE flight[s]
    BY <1>1 DEF LocksTyped, InlineFlight
  <2>3. Shape(t)'
    BY <1>1, <1>2, <2>1, <2>2 DEF Fine, Shape, WakePc, InlineKinds, SleepKinds
  <2>4. Awaited(t)'
    BY <1>1, <1>2, <2>1, <2>2 DEF Fine, Awaited, Queued, WakePc, InlineKinds
  <2>5. Undisturbed(t)'
    BY <1>1, <2>1 DEF Fine, Undisturbed
  <2> QED BY <2>3, <2>4, <2>5 DEF Fine
<1> QED BY <1>4, <1>5, <1>6 DEF BaseInv

LEMMA StopKeeps == ASSUME BaseInv, NEW s \in Svc, Stop(s) PROVE BaseInv'
<1>1. /\ RestTyped /\ LocksTyped /\ pc[s] = "act" /\ End(s)
      /\ UNCHANGED <<alwaysOn, activity, protect, pass, sweep, captured, todo>>
      /\ UNCHANGED <<queue, by, flight, rpc>>
  BY DEF BaseInv, Stop, clockVars, sweepVars
<1>2. LocksTyped' /\ \A t \in Svc : Fine(t)'
  <2>1. by' \in [Svc -> Svc \cup {Sweep}]
    BY <1>1 DEF LocksTyped
  <2> QED BY <1>1, <2>1, EndKeeps
<1>3. /\ \E d \in Container : docker' = [docker EXCEPT ![s] = d]
      /\ desired' = desired \/ desired' = [desired EXCEPT ![s] = "stopped"]
      /\ OnStopped(s) \/ UNCHANGED <<cache, slept>>
  <2>1. docker[s] \in Container
    BY <1>1 DEF RestTyped
  <2> QED BY <2>1 DEF Stop, Container
<1>4. docker' \in [Svc -> Container] /\ desired' \in [Svc -> {"running", "stopped", "suspended"}]
  BY <1>1, <1>3 DEF RestTyped
<1>5. cache' \in [Svc -> Container \cup {"none"}] /\ slept' \in [Svc -> BOOLEAN]
  <2>1. CASE OnStopped(s)
    BY <1>1, <2>1 DEF RestTyped, OnStopped, Container
  <2>2. CASE UNCHANGED <<cache, slept>>
    BY <1>1, <2>2 DEF RestTyped
  <2> QED BY <1>3, <2>1, <2>2
<1>6. RestTyped'
  BY <1>1, <1>4, <1>5 DEF RestTyped
<1> QED BY <1>2, <1>6 DEF BaseInv

LEMMA SuspendKeeps == ASSUME BaseInv, NEW s \in Svc, Suspend(s) PROVE BaseInv'
<1>1. /\ RestTyped /\ LocksTyped /\ pc[s] = "act" /\ End(s)
      /\ UNCHANGED <<slept, alwaysOn, activity, protect, pass, sweep, captured, todo>>
      /\ UNCHANGED <<queue, by, flight, rpc>>
  BY DEF BaseInv, Suspend, clockVars, sweepVars
<1>2. LocksTyped' /\ \A t \in Svc : Fine(t)'
  <2>1. by' \in [Svc -> Svc \cup {Sweep}]
    BY <1>1 DEF LocksTyped
  <2> QED BY <1>1, <2>1, EndKeeps
<1>3. \/ UNCHANGED <<docker, desired, cache>>
      \/ /\ docker' = [docker EXCEPT ![s] = "paused"]
         /\ desired' = [desired EXCEPT ![s] = "suspended"]
         /\ cache' = [cache EXCEPT ![s] = "paused"]
  BY DEF Suspend
<1>4. /\ docker' \in [Svc -> Container] /\ cache' \in [Svc -> Container \cup {"none"}]
      /\ desired' \in [Svc -> {"running", "stopped", "suspended"}]
  <2>1. /\ docker \in [Svc -> Container] /\ cache \in [Svc -> Container \cup {"none"}]
        /\ desired \in [Svc -> {"running", "stopped", "suspended"}]
    BY <1>1 DEF RestTyped
  <2>2. docker' \in [Svc -> Container]
    BY <2>1, <1>3 DEF Container
  <2>3. cache' \in [Svc -> Container \cup {"none"}]
    BY <2>1, <1>3 DEF Container
  <2>4. desired' \in [Svc -> {"running", "stopped", "suspended"}]
    BY <2>1, <1>3
  <2> QED BY <2>2, <2>3, <2>4
<1>5. RestTyped'
  BY <1>1, <1>4 DEF RestTyped
<1> QED BY <1>2, <1>5 DEF BaseInv

LEMMA QueryKeeps == ASSUME BaseInv, NEW s \in Svc, Query(s) PROVE BaseInv'
<1>1. /\ RestTyped /\ LocksTyped /\ pc[s] = "query" /\ End(s)
      /\ UNCHANGED <<docker, cache, slept, desired, alwaysOn, activity, protect, pass, sweep, captured, todo>>
      /\ UNCHANGED <<queue, by, flight, rpc>>
  BY DEF BaseInv, Query, rows, clockVars, sweepVars
<1>2. LocksTyped' /\ \A t \in Svc : Fine(t)'
  <2>1. by' \in [Svc -> Svc \cup {Sweep}]
    BY <1>1 DEF LocksTyped
  <2> QED BY <1>1, <2>1, EndKeeps
<1>3. RestTyped'
  BY <1>1 DEF RestTyped
<1> QED BY <1>2, <1>3 DEF BaseInv

\* The end of a sleep, with what the eviction pass it belongs to counts.
LEMMA EndSleepKeeps ==
    ASSUME BaseInv, NEW s \in Svc, pc[s] \in {"read", "stop"}, NEW n \in Int, NEW bad \in BOOLEAN,
           EndSleep(s, n, bad), UNCHANGED <<rpc, activity>>
    PROVE  /\ LocksTyped' /\ \A t \in Svc : Fine(t)'
           /\ pass' \in [Svc \cup {Sweep} -> [tried : SUBSET Svc, credit : Int, failed : BOOLEAN]]
           /\ queue' = queue
<1>1. RestTyped /\ LocksTyped /\ End(s) /\ by' = [by EXCEPT ![s] = Sweep]
      /\ UNCHANGED <<queue, flight>>
  BY DEF BaseInv, EndSleep
<1>2. by' \in [Svc -> Svc \cup {Sweep}] /\ by[s] \in Svc \cup {Sweep}
  BY <1>1 DEF LocksTyped
<1>3. \/ pass' = pass
      \/ pass' = [pass EXCEPT ![by[s]].credit = @ + n, ![by[s]].failed = bad]
  BY DEF EndSleep
<1>5. pass' \in [Svc \cup {Sweep} -> [tried : SUBSET Svc, credit : Int, failed : BOOLEAN]]
  BY <1>1, <1>2, <1>3, PassCounts DEF RestTyped
<1> QED BY <1>1, <1>2, <1>5, EndKeeps

LEMMA SleepReadKeeps == ASSUME BaseInv, NEW s \in Svc, SleepRead(s) PROVE BaseInv'
<1>1. /\ RestTyped /\ LocksTyped /\ pc[s] = "read" /\ kind[s] \in SleepKinds
      /\ UNCHANGED <<docker, slept, desired, alwaysOn, activity, protect, sweep, captured, todo>>
      /\ UNCHANGED rpc
      /\ Read \/ UNCHANGED cache
  BY DEF BaseInv, SleepRead, rows, clockVars, sweepVars
<1>2. cache' \in [Svc -> Container \cup {"none"}]
  BY <1>1 DEF RestTyped, Read
<1>3. CASE Goto(s, "stop") /\ UNCHANGED pass
  <2>1. LocksTyped' /\ RestTyped'
    BY <1>1, <1>2, <1>3 DEF LocksTyped, RestTyped, Goto, Place
  <2>2. ASSUME NEW t \in Svc PROVE Fine(t)'
    <3>1. Fine(t) /\ Fine(s)
      BY DEF BaseInv
    <3>2. pc'[s] = "stop" /\ (t # s => pc'[t] = pc[t]) /\ UNCHANGED <<queue, kind, flight>>
      BY <1>1, <1>3 DEF LocksTyped, Goto
    <3>3. Shape(t)'
      BY <1>1, <3>1, <3>2 DEF Fine, Shape, WakePc, InlineKinds, SleepKinds
    <3>4. Awaited(t)'
      BY <1>1, <3>1, <3>2 DEF Fine, Awaited, Queued, WakePc
    <3>5. Undisturbed(t)'
      BY <1>1, <3>1, <3>2 DEF Fine, Undisturbed
    <3> QED BY <3>3, <3>4, <3>5 DEF Fine
  <2> QED BY <2>1, <2>2 DEF BaseInv
<1>4. CASE \E bad \in BOOLEAN : EndSleep(s, 0, bad)
  <2>1. PICK bad \in BOOLEAN : EndSleep(s, 0, bad)
    BY <1>4
  <2>2. /\ LocksTyped' /\ \A t \in Svc : Fine(t)'
        /\ pass' \in [Svc \cup {Sweep} -> [tried : SUBSET Svc, credit : Int, failed : BOOLEAN]]
    <3>1. 0 \in Int /\ pc[s] \in {"read", "stop"} /\ UNCHANGED <<rpc, activity>>
      BY <1>1
    <3> QED BY <2>1, <3>1, EndSleepKeeps, Zenon
  <2>3. RestTyped'
    BY <1>1, <1>2, <2>2 DEF RestTyped
  <2> QED BY <2>2, <2>3 DEF BaseInv
<1> QED BY <1>3, <1>4 DEF SleepRead

LEMMA SleepStopKeeps == ASSUME BaseInv, NEW s \in Svc, SleepStop(s) PROVE BaseInv'
<1>1. /\ RestTyped /\ LocksTyped /\ pc[s] = "stop" /\ kind[s] \in SleepKinds
      /\ UNCHANGED <<desired, alwaysOn, activity, protect, sweep, captured, todo>> /\ UNCHANGED rpc
  BY DEF BaseInv, SleepStop, clockVars, sweepVars
<1>2. /\ docker' = docker \/ docker' = [docker EXCEPT ![s] = "exited"]
      /\ OnAsleep(s) \/ (cache' = [cache EXCEPT ![s] = "none"] /\ UNCHANGED slept)
      /\ EndSleep(s, 1, FALSE) \/ EndSleep(s, 0, TRUE)
  BY DEF SleepStop
<1>3. PICK n \in Int : \E bad \in BOOLEAN : EndSleep(s, n, bad)
  <2>1. 0 \in Int /\ 1 \in Int
    OBVIOUS
  <2> QED BY <1>2, <2>1, Zenon
<1>4. /\ LocksTyped' /\ \A t \in Svc : Fine(t)'
      /\ pass' \in [Svc \cup {Sweep} -> [tried : SUBSET Svc, credit : Int, failed : BOOLEAN]]
  <2>1. pc[s] \in {"read", "stop"} /\ UNCHANGED <<rpc, activity>>
    BY <1>1
  <2> QED BY <1>3, <2>1, EndSleepKeeps, Zenon
<1>5. docker' \in [Svc -> Container] /\ slept' \in [Svc -> BOOLEAN]
  BY <1>1, <1>2 DEF RestTyped, OnAsleep, Container
<1>6. cache' \in [Svc -> Container \cup {"none"}]
  BY <1>1, <1>2 DEF RestTyped, OnAsleep, Container
<1>7. RestTyped'
  BY <1>1, <1>4, <1>5, <1>6 DEF RestTyped
<1> QED BY <1>4, <1>7 DEF BaseInv

LEMMA OperateKeeps == ASSUME BaseInv, NEW s \in Svc, Operate(s) PROVE BaseInv'
BY GrantKeeps, LookKeeps, ProbeKeeps, UnpauseKeeps, MakeRoomKeeps, StartContainerKeeps,
   AwaitReadyKeeps, HintKeeps, StopKeeps, SuspendKeeps, QueryKeeps, SleepReadKeeps, SleepStopKeeps
DEF Operate

-------------------------------------------------------------------------------
\* One lemma per step of the others: callers, lanes, the sweep, the clock and docker.

\* An operation queues up.
LEMMA WaitKeeps ==
    ASSUME BaseInv, NEW s \in Svc, NEW op \in Ops, Wait(s, op)
    PROVE  /\ queue' \in [Svc -> Seq(Ops)]
           /\ \A t \in Svc : \A x : Queued(t, x)' <=> Queued(t, x) \/ (t = s /\ x = op)
<1>1. queue \in [Svc -> Seq(Ops)] /\ queue' = [queue EXCEPT ![s] = Append(queue[s], op)]
  BY DEF BaseInv, LocksTyped, Wait
<1>2. /\ Append(queue[s], op) \in Seq(Ops)
      /\ \A x : (\E i \in 1 .. Len(Append(queue[s], op)) : Append(queue[s], op)[i] = x)
                  <=> x = op \/ \E i \in 1 .. Len(queue[s]) : queue[s][i] = x
  BY <1>1, AppendKeeps
<1>3. queue'[s] = Append(queue[s], op) /\ \A t \in Svc : t # s => queue'[t] = queue[t]
  BY <1>1
<1>4. queue' \in [Svc -> Seq(Ops)]
  BY <1>1, <1>2
<1> QED BY <1>2, <1>3, <1>4 DEF Queued

LEMMA CallKeeps == ASSUME BaseInv, NEW s \in Svc, NEW op \in Verbs, Call(s, op) PROVE BaseInv'
<1>1. /\ RestTyped /\ LocksTyped /\ Wait(s, op) /\ op \in Ops
      /\ UNCHANGED <<docker, cache, slept, desired, alwaysOn, activity, protect, pass, sweep, captured, todo>>
      /\ UNCHANGED <<kind, pc, by, flight, rpc>>
  BY SchedulerAssumption DEF BaseInv, Call, rows, clockVars, sweepVars, Ops
<1>2. /\ queue' \in [Svc -> Seq(Ops)]
      /\ \A t \in Svc : \A x : Queued(t, x)' <=> Queued(t, x) \/ (t = s /\ x = op)
  BY <1>1, WaitKeeps
<1>3. LocksTyped' /\ RestTyped'
  BY <1>1, <1>2 DEF LocksTyped, RestTyped
<1>4. ASSUME NEW t \in Svc PROVE Fine(t)'
  <2>1. Fine(t)
    BY DEF BaseInv
  <2>2. Awaited(t)'
    BY <1>1, <1>2, <2>1 DEF Fine, Awaited
  <2>3. Shape(t)' /\ Undisturbed(t)'
    BY <1>1, <2>1 DEF Fine, Shape, Undisturbed
  <2> QED BY <2>2, <2>3 DEF Fine
<1> QED BY <1>3, <1>4 DEF BaseInv

LEMMA ArriveKeeps == ASSUME BaseInv, NEW r \in Req, Arrive(r) PROVE BaseInv'
<1> DEFINE s == Target[r]
<1>1. /\ RestTyped /\ LocksTyped /\ s \in Svc /\ rpc[r] = "none" /\ Touch(s)
      /\ rpc' = [rpc EXCEPT ![r] = "resolving"]
      /\ UNCHANGED <<docker, cache, slept, desired, alwaysOn, protect, pass, sweep, captured, todo>>
      /\ UNCHANGED <<queue, kind, pc, by, flight>>
  BY SchedulerAssumption DEF BaseInv, Arrive, rows, locks, sweepVars
<1>2. LocksTyped' /\ RestTyped'
  BY <1>1 DEF LocksTyped, RestTyped, Touch
<1>3. ASSUME NEW t \in Svc PROVE Fine(t)'
  <2>1. Fine(t)
    BY DEF BaseInv
  <2>2. /\ activity'[t] = IF t = s THEN "hot" ELSE activity[t]
        /\ \A q \in Req : rpc'[q] = IF q = r THEN "resolving" ELSE rpc[q]
    BY <1>1 DEF LocksTyped, RestTyped, Touch
  <2>3. Awaited(t)' /\ Shape(t)'
    BY <1>1, <2>1, <2>2 DEF Fine, Awaited, Shape, Queued
  <2>4. Undisturbed(t)'
    BY <1>1, <2>1, <2>2 DEF Fine, Undisturbed
  <2> QED BY <2>3, <2>4 DEF Fine
<1> QED BY <1>2, <1>3 DEF BaseInv

LEMMA ResolveKeeps == ASSUME BaseInv, NEW r \in Req, Resolve(r) PROVE BaseInv'
<1> DEFINE s == Target[r]
<1>1. /\ RestTyped /\ LocksTyped /\ s \in Svc /\ rpc[r] = "resolving" /\ Fine(s)
      /\ UNCHANGED <<docker, cache, slept, desired, alwaysOn, activity, protect, pass, sweep, captured, todo>>
      /\ UNCHANGED <<kind, pc, by>>
  BY SchedulerAssumption DEF BaseInv, Resolve, rows, clockVars, sweepVars
<1>2. RestTyped'
  BY <1>1 DEF RestTyped
<1>3. CASE /\ UNCHANGED <<queue, flight>>
           /\ \E to \in {"serving", "none"} :
                 rpc' = [rpc EXCEPT ![r] = to] /\ (to = "serving" => StateOf(s) = "running")
  <2>1. PICK to \in {"serving", "none"} :
                 rpc' = [rpc EXCEPT ![r] = to] /\ (to = "serving" => StateOf(s) = "running")
    BY <1>3
  <2>2. to = "serving" => kind[s] \notin SleepKinds
    BY <2>1 DEF StateOf, Sleeping
  <2>3. LocksTyped'
    BY <1>1, <1>3, <2>1 DEF LocksTyped
  <2>4. ASSUME NEW t \in Svc PROVE Fine(t)'
    <3>1. Fine(t)
      BY DEF BaseInv
    <3>2. \A q \in Req : rpc'[q] = IF q = r THEN to ELSE rpc[q]
      BY <1>1, <2>1 DEF LocksTyped
    <3>3. Awaited(t)' /\ Shape(t)'
      BY <1>1, <1>3, <3>1, <3>2 DEF Fine, Awaited, Shape, Queued
    <3>4. Undisturbed(t)'
      BY <1>1, <2>2, <3>1, <3>2 DEF Fine, Undisturbed
    <3> QED BY <3>3, <3>4 DEF Fine
  <2> QED BY <1>2, <2>3, <2>4 DEF BaseInv
<1>4. CASE /\ rpc' = [rpc EXCEPT ![r] = "wait"]
           /\ IF flight[s] = "no"
              THEN flight' = [flight EXCEPT ![s] = "wake"] /\ Wait(s, "traffic")
              ELSE UNCHANGED <<queue, flight>>
  <2>1. "traffic" \in Ops
    BY DEF Ops
  <2>2. /\ queue' \in [Svc -> Seq(Ops)]
        /\ \A t \in Svc : \A x : Queued(t, x)' <=> Queued(t, x) \/ (flight[s] = "no" /\ t = s /\ x = "traffic")
    <3>1. CASE flight[s] = "no"
      BY <3>1, <1>4, <2>1, <1>1, WaitKeeps
    <3>2. CASE flight[s] # "no"
      BY <3>2, <1>4, <1>1 DEF Queued, LocksTyped
    <3> QED BY <3>1, <3>2
  <2>3. LocksTyped'
    BY <1>1, <1>4, <2>2 DEF LocksTyped
  <2>4. ASSUME NEW t \in Svc PROVE Fine(t)'
    <3>1. Fine(t)
      BY DEF BaseInv
    <3>2. /\ \A q \in Req : rpc'[q] = IF q = r THEN "wait" ELSE rpc[q]
          /\ flight'[t] = IF t = s /\ flight[s] = "no" THEN "wake" ELSE flight[t]
      BY <1>1, <1>4 DEF LocksTyped
    <3>3. Awaited(t)'
      BY <1>1, <2>2, <3>1, <3>2 DEF Fine, Awaited
    <3>4. Shape(t)' /\ Undisturbed(t)'
      BY <1>1, <3>1, <3>2 DEF Fine, Shape, Undisturbed
    <3> QED BY <3>3, <3>4 DEF Fine
  <2> QED BY <1>2, <2>3, <2>4 DEF BaseInv
<1> QED BY <1>3, <1>4 DEF Resolve

LEMMA WokenKeeps == ASSUME BaseInv, NEW r \in Req, Woken(r) \/ Leave(r) PROVE BaseInv'
<1>1. /\ RestTyped /\ LocksTyped /\ rpc[r] # "none"
      /\ \E to \in {"serving", "none"} :
            rpc' = [rpc EXCEPT ![r] = to] /\ (to = "serving" => rpc[r] = "woken")
      /\ UNCHANGED <<docker, cache, slept, desired, alwaysOn, activity, protect, pass, sweep, captured, todo, queue, kind, pc, by, flight>>
  BY DEF BaseInv, Woken, Leave, rows, clockVars, locks, sweepVars
<1>2. PICK to \in {"serving", "none"} :
            rpc' = [rpc EXCEPT ![r] = to] /\ (to = "serving" => rpc[r] = "woken")
  BY <1>1
<1>3. LocksTyped' /\ RestTyped'
  BY <1>1, <1>2 DEF LocksTyped, RestTyped
<1>4. ASSUME NEW t \in Svc PROVE Fine(t)'
  <2>1. Fine(t)
    BY DEF BaseInv
  <2>2. \A q \in Req : rpc'[q] = IF q = r THEN to ELSE rpc[q]
    BY <1>1, <1>2 DEF LocksTyped
  <2>3. Awaited(t)' /\ Shape(t)'
    BY <1>1, <2>1, <2>2 DEF Fine, Awaited, Shape, Queued
  <2>4. Undisturbed(t)'
    BY <1>1, <1>2, <2>1, <2>2 DEF Fine, Undisturbed
  <2> QED BY <2>3, <2>4 DEF Fine
<1> QED BY <1>3, <1>4 DEF BaseInv

\* A setting switches, the clock runs, a container dies and comes back.
LEMMA WorldKeeps ==
    ASSUME BaseInv, NEW s \in Svc,
           SetAlwaysOn(s) \/ Cool(s) \/ ProtectionEnds(s) \/ Crash(s) \/ Recover(s)
    PROVE  BaseInv'
<1>1. /\ RestTyped /\ LocksTyped
      /\ UNCHANGED <<cache, slept, desired, pass, sweep, captured, todo>>
      /\ UNCHANGED <<queue, kind, pc, by, flight, rpc>>
  BY DEF BaseInv, SetAlwaysOn, Cool, ProtectionEnds, Crash, Recover, rows, clockVars, locks, sweepVars
<1>2. /\ alwaysOn' \in [Svc -> BOOLEAN] /\ protect' \in [Svc -> BOOLEAN]
      /\ docker' \in [Svc -> Container]
  BY <1>1 DEF RestTyped, Container, SetAlwaysOn, Cool, ProtectionEnds, Crash, Recover,
              rows, clockVars
<1>3. /\ activity' \in [Svc -> {"hot", "warm", "idle"}]
      /\ \A t \in Svc : activity'[t] \in {activity[t], "hot"} \/ Holders(t) = {}
  BY <1>1 DEF RestTyped, SetAlwaysOn, Cool, ProtectionEnds, Crash, Recover, clockVars
<1>4. RestTyped' /\ LocksTyped'
  BY <1>1, <1>2, <1>3 DEF RestTyped, LocksTyped
<1>5. \A t \in Svc : Fine(t)'
  BY <1>1, <1>3, StillKeeps
<1> QED BY <1>4, <1>5 DEF BaseInv

\* The parts of a sweep that only look.
LEMMA SweepLooksKeeps ==
    ASSUME BaseInv, SweepBegin \/ SweepCollect \/ SweepRefresh PROVE BaseInv'
<1>1. /\ RestTyped /\ LocksTyped
      /\ UNCHANGED <<docker, slept, desired, alwaysOn, activity, protect>>
      /\ UNCHANGED <<queue, kind, pc, by, flight, rpc>>
      /\ Read \/ UNCHANGED cache
      /\ FirstTurn(Sweep) \/ UNCHANGED pass
  BY DEF BaseInv, SweepBegin, SweepCollect, SweepRefresh, rows, clockVars, locks
<1>2. sweep' \in {"off", "stats", "idle", "refresh", "evict"}
  BY DEF SweepBegin, SweepCollect, SweepRefresh
<1>3. captured' \in SUBSET Svc /\ todo' \in SUBSET Svc
  BY <1>1 DEF RestTyped, SweepBegin, SweepCollect, SweepRefresh
<1>4. cache' \in [Svc -> Container \cup {"none"}]
  BY <1>1 DEF RestTyped, Read
<1>5. pass' \in [Svc \cup {Sweep} -> [tried : SUBSET Svc, credit : Int, failed : BOOLEAN]]
  BY <1>1, FirstTurnTyped DEF RestTyped
<1>6. RestTyped' /\ LocksTyped'
  BY <1>1, <1>2, <1>3, <1>4, <1>5 DEF RestTyped, LocksTyped
<1>7. \A t \in Svc : Fine(t)'
  BY <1>1, StillKeeps
<1> QED BY <1>6, <1>7 DEF BaseInv

\* A batch of idle services begins to sleep.
LEMMA BatchBegins ==
    ASSUME BaseInv, SweepBatch
    PROVE  /\ LocksTyped' /\ \A t \in Svc : Fine(t)'
           /\ queue' = queue /\ todo' \in SUBSET Svc
           /\ \A t \in Svc : \/ kind'[t] = kind[t] /\ pc'[t] = pc[t]
                             \/ kind'[t] \in SleepKinds /\ pc'[t] = "read"
<1>1. PICK batch \in SUBSET todo :
         /\ BeginSleeps({s \in batch : IsIdleCandidate(s, s \in captured)}, "idle", Sweep)
         /\ todo' = todo \ batch
  BY DEF SweepBatch
<1> DEFINE S == {s \in batch : IsIdleCandidate(s, s \in captured)}
<1>2. todo \in SUBSET Svc
  BY DEF BaseInv, RestTyped
<1>3. S \in SUBSET Svc /\ "idle" \in SleepKinds
  BY <1>2 DEF SleepKinds
<1>4. \A s \in S : ~Busy(s) /\ activity[s] # "hot"
  BY DEF IsIdleCandidate
<1>5. UNCHANGED <<rpc, activity>>
  BY DEF SweepBatch, clockVars
<1>6. BeginSleeps(S, "idle", Sweep)
  BY <1>1
<1> HIDE DEF S
<1> QED BY <1>1, <1>2, <1>3, <1>4, <1>5, <1>6, SleepsBeginKeeps

LEMMA SweepBatchKeeps == ASSUME BaseInv, SweepBatch PROVE BaseInv'
<1>1. LocksTyped' /\ (\A t \in Svc : Fine(t)') /\ todo' \in SUBSET Svc
  BY BatchBegins
<1>2. RestTyped'
  BY <1>1 DEF BaseInv, RestTyped, SweepBatch, rows, clockVars
<1> QED BY <1>1, <1>2 DEF BaseInv

\* The always-on pass only queues.
LEMMA AlwaysQueues ==
    ASSUME BaseInv, SweepWakes
    PROVE  /\ queue' \in [Svc -> Seq(Ops)]
           /\ \A t \in Svc : \A x : /\ Queued(t, x) => Queued(t, x)'
                                    /\ Queued(t, x)' => Queued(t, x) \/ x = "always"
<1> DEFINE Woke(s) == alwaysOn[s] /\ desired[s] = "running" /\ ~Busy(s) /\ StateOf(s) = "asleep"
<1>1. queue \in [Svc -> Seq(Ops)] /\ "always" \in Ops
  BY DEF BaseInv, LocksTyped, Ops
<1>2. queue' = [s \in Svc |-> IF Woke(s) THEN Append(queue[s], "always") ELSE queue[s]]
  BY DEF SweepWakes
<1> HIDE DEF Woke
<1>3. \A t \in Svc :
         /\ Append(queue[t], "always") \in Seq(Ops)
         /\ \A x : (\E i \in 1 .. Len(Append(queue[t], "always")) : Append(queue[t], "always")[i] = x)
                     <=> x = "always" \/ \E i \in 1 .. Len(queue[t]) : queue[t][i] = x
  BY <1>1, AppendKeeps
<1>4. ASSUME NEW t \in Svc
      PROVE  \A x : /\ Queued(t, x) => Queued(t, x)'
                    /\ Queued(t, x)' => Queued(t, x) \/ x = "always"
  <2>1. CASE Woke(t)
    <3>1. queue'[t] = Append(queue[t], "always")
      BY <2>1, <1>2
    <3> QED BY <3>1, <1>3 DEF Queued
  <2>2. CASE ~Woke(t)
    <3>1. queue'[t] = queue[t]
      BY <2>2, <1>2
    <3> QED BY <3>1 DEF Queued
  <2> QED BY <2>1, <2>2
<1>5. queue' \in [Svc -> Seq(Ops)]
  BY <1>1, <1>2, <1>3
<1> QED BY <1>4, <1>5

LEMMA SweepWakesKeeps == ASSUME BaseInv, SweepWakes PROVE BaseInv'
<1>1. /\ RestTyped /\ LocksTyped /\ captured' = {} /\ sweep' = "refresh"
      /\ UNCHANGED <<docker, cache, slept, desired, alwaysOn, activity, protect, pass, todo>>
      /\ UNCHANGED <<kind, pc, by, flight, rpc>>
  BY DEF BaseInv, SweepWakes, rows, clockVars
<1>2. /\ queue' \in [Svc -> Seq(Ops)]
      /\ \A t \in Svc : Queued(t, "traffic") => Queued(t, "traffic")'
  BY AlwaysQueues
<1>3. LocksTyped' /\ RestTyped'
  BY <1>1, <1>2 DEF LocksTyped, RestTyped
<1>4. ASSUME NEW t \in Svc PROVE Fine(t)'
  <2>1. Fine(t)
    BY DEF BaseInv
  <2>2. Awaited(t)'
    BY <1>1, <1>2, <2>1 DEF Fine, Awaited
  <2>3. Shape(t)' /\ Undisturbed(t)'
    BY <1>1, <2>1 DEF Fine, Shape, Undisturbed
  <2> QED BY <2>2, <2>3 DEF Fine
<1> QED BY <1>3, <1>4 DEF BaseInv

LEMMA SweepEvictKeeps == ASSUME BaseInv, SweepEvict PROVE BaseInv'
<1>1. /\ RestTyped /\ LocksTyped /\ sweep' \in {"off", sweep} /\ Sweep \in Svc \cup {Sweep}
      /\ UNCHANGED <<docker, cache, slept, desired, alwaysOn, activity, protect, captured, todo, rpc>>
  BY DEF BaseInv, SweepEvict, rows, clockVars
<1>2. CASE LastTurn(Sweep) /\ UNCHANGED locks
  <2>1. UNCHANGED <<queue, kind, pc, by, flight>>
    BY <1>2 DEF locks
  <2>2. \A t \in Svc : Fine(t)'
    BY <1>1, <2>1, StillKeeps
  <2>3. LocksTyped' /\ RestTyped'
    BY <1>1, <1>2, <2>1 DEF LocksTyped, RestTyped, LastTurn, NoPass
  <2> QED BY <2>2, <2>3 DEF BaseInv
<1>3. CASE Evict(Sweep)
  <2>1. /\ LocksTyped' /\ \A t \in Svc : Fine(t)'
        /\ pass' \in [Svc \cup {Sweep} -> [tried : SUBSET Svc, credit : Int, failed : BOOLEAN]]
    BY <1>1, <1>3, EvictKeeps
  <2>2. RestTyped'
    BY <1>1, <2>1 DEF RestTyped
  <2> QED BY <2>1, <2>2 DEF BaseInv
<1> QED BY <1>2, <1>3 DEF SweepEvict

-------------------------------------------------------------------------------
\* The base of everything: the locks and the waiters.

LEMMA InitIsBase == Init => BaseInv
<1> SUFFICES ASSUME Init PROVE BaseInv
  OBVIOUS
<1>1. PICK boot \in [Svc -> BootStates] :
        /\ docker = [s \in Svc |-> boot[s].docker]
        /\ cache = [s \in Svc |-> boot[s].docker]
        /\ slept = [s \in Svc |-> boot[s].slept]
        /\ desired = [s \in Svc |-> boot[s].desired]
  BY DEF Init
<1>2. \A s \in Svc : /\ boot[s].docker \in Container /\ boot[s].slept \in BOOLEAN
                     /\ boot[s].desired \in {"running", "stopped", "suspended"}
  <2>1. \A s \in Svc : boot[s] \in BootStates
    OBVIOUS
  <2>2. \A b \in BootStates : /\ b.docker \in Container /\ b.slept \in BOOLEAN
                              /\ b.desired \in {"running", "stopped", "suspended"}
    <3>1. TAKE b \in BootStates
    <3>2. CASE b = [docker |-> "running", slept |-> FALSE, desired |-> "running"]
      BY <3>2 DEF Container
    <3>3. CASE b = [docker |-> "exited", slept |-> TRUE, desired |-> "running"]
      BY <3>3 DEF Container
    <3>4. CASE b = [docker |-> "exited", slept |-> FALSE, desired |-> "stopped"]
      BY <3>4 DEF Container
    <3> QED BY <3>2, <3>3, <3>4 DEF BootStates
  <2> QED BY <2>1, <2>2
<1>3. /\ alwaysOn = [s \in Svc |-> FALSE] /\ activity = [s \in Svc |-> "hot"]
      /\ protect = [s \in Svc |-> FALSE] /\ queue = [s \in Svc |-> <<>>]
      /\ kind = [s \in Svc |-> "none"] /\ pc = [s \in Svc |-> "none"]
      /\ by = [s \in Svc |-> Sweep] /\ flight = [s \in Svc |-> "no"]
      /\ pass = [p \in Svc \cup {Sweep} |-> NoPass] /\ rpc = [r \in Req |-> "none"]
      /\ sweep = "off" /\ captured = {} /\ todo = {}
  BY DEF Init
<1>4. LocksTyped
  BY <1>3 DEF LocksTyped, Place
<1>5. RestTyped
  BY <1>1, <1>2, <1>3 DEF RestTyped, NoPass
<1>6. \A s \in Svc : Fine(s)
  BY <1>3 DEF Fine, Shape, Awaited, Undisturbed, SleepKinds, InlineKinds, WakePc
<1> QED BY <1>4, <1>5, <1>6 DEF BaseInv

LEMMA StepKeepsBase == BaseInv /\ [Next]_vars => BaseInv'
<1> SUFFICES ASSUME BaseInv, [Next]_vars PROVE BaseInv'
  OBVIOUS
<1>1. CASE UNCHANGED vars
  <2>1. /\ UNCHANGED <<docker, cache, slept, desired, alwaysOn, activity, protect, pass, sweep, captured, todo>>
        /\ UNCHANGED <<queue, kind, pc, by, flight, rpc>>
    BY <1>1 DEF vars, rows, clockVars, locks, sweepVars
  <2>2. LocksTyped' /\ RestTyped'
    BY <2>1 DEF BaseInv, LocksTyped, RestTyped
  <2>3. \A t \in Svc : Fine(t)'
    BY <2>1, StillKeeps
  <2> QED BY <2>2, <2>3 DEF BaseInv
<1>2. ASSUME NEW s \in Svc, Operate(s) PROVE BaseInv'
  BY <1>2, OperateKeeps
<1>3. ASSUME NEW s \in Svc,
             SetAlwaysOn(s) \/ Cool(s) \/ ProtectionEnds(s) \/ Crash(s) \/ Recover(s)
      PROVE  BaseInv'
  BY <1>3, WorldKeeps
<1>4. ASSUME NEW s \in Svc, NEW op \in Verbs, Call(s, op) PROVE BaseInv'
  BY <1>4, CallKeeps
<1>5. ASSUME NEW r \in Req, Arrive(r) \/ Resolve(r) \/ Woken(r) \/ Leave(r) PROVE BaseInv'
  BY <1>5, ArriveKeeps, ResolveKeeps, WokenKeeps
<1>6. CASE Sweeping
  BY <1>6, SweepLooksKeeps, SweepBatchKeeps, SweepWakesKeeps, SweepEvictKeeps DEF Sweeping
<1> QED BY <1>1, <1>2, <1>3, <1>4, <1>5, <1>6 DEF Next

LEMMA AlwaysBase == Spec => []BaseInv
BY InitIsBase, StepKeepsBase, PTL DEF Spec

\* The scheduler's state keeps its types, whatever is called and whatever docker does
\* (scheduler.ts).
THEOREM SchedulerTyped == Spec => []TypeOK
<1>1. BaseInv => TypeOK
  BY DEF BaseInv, LocksTyped, RestTyped, TypeOK, Place
<1> QED BY <1>1, AlwaysBase, PTL

\* Whoever waits is in the map, and what is in the map is an operation.
LEMMA BaseLosesNobody == BaseInv => NoLostWaiter
<1> SUFFICES ASSUME BaseInv PROVE NoLostWaiter
  OBVIOUS
<1>1. \A s \in Svc : Awaited(s)
  BY DEF BaseInv, Fine
<1>2. \A r \in Req : Target[r] \in Svc
  BY SchedulerAssumption
<1> QED BY <1>1, <1>2 DEF Awaited, Queued, NoLostWaiter

\* A request that waits for a wake has one in the map, and what is in the map is an operation
\* that has the key or stands in line for it (scheduler.ts, wake and wakeLocked): for any
\* number of requests and services, and docker failing in any way.
THEOREM WaitersTheorem == Spec => []NoLostWaiter
BY AlwaysBase, BaseLosesNobody, PTL

\* No sleep, of the sweep or of an eviction, stops a container that is serving (scheduler.ts,
\* isIdleCandidate and isVictim; router/http.ts, hold): for any number of services that evict
\* each other and any number of clients.
THEOREM QuietTheorem == Spec => NoSleepUnderTraffic
<1>1. BaseInv => [\A s \in Svc : SleptNow(s) => \A r \in Req : Target[r] = s => rpc[r] # "serving"]_vars
  BY DEF BaseInv, Fine, Undisturbed, SleptNow
<1> QED BY <1>1, AlwaysBase, PTL DEF NoSleepUnderTraffic

-------------------------------------------------------------------------------
\* What the developer asked for.

\* A step that does not write the intent keeps it, if what it moves of a service that is not
\* to run is neither the container nor an operation beyond its look.
LEMMA IntentStep ==
    ASSUME IntentInv, desired' = desired,
           \A t \in Compute :
               /\ docker'[t] = docker[t] \/ desired[t] = "running"
               /\ Queued(t, "manage")' => Queued(t, "manage")
               /\ kind'[t] # "manage"
               /\ \/ kind'[t] = kind[t] /\ pc'[t] = pc[t]
                  \/ kind'[t] \notin {"start", "always", "traffic"} /\ pc'[t] # "stop"
                  \/ kind'[t] = "traffic" /\ pc'[t] = "look"
                  \/ desired[t] = "running"
    PROVE  \A t \in Svc : Standing(t)' /\ Wanted(t)'
<1> SUFFICES ASSUME NEW t \in Svc, t \in Compute PROVE Standing(t)' /\ Wanted(t)'
  BY DEF Standing, Wanted
<1>1. Standing(t) /\ Wanted(t)
  BY DEF IntentInv
<1>2. Standing(t)'
  BY <1>1 DEF Standing
<1>3. Wanted(t)'
  BY <1>1 DEF Wanted
<1> QED BY <1>2, <1>3

\* Nothing of the services moved that this is about.
LEMMA AsideKeepsIntent ==
    ASSUME IntentInv, UNCHANGED <<docker, desired, queue, kind, pc>>
    PROVE  \A t \in Svc : Standing(t)' /\ Wanted(t)'
BY DEF IntentInv, Standing, Wanted, Queued

\* A wake past its look is of a service that is to run.
LEMMA WakingIsWanted ==
    ASSUME IntentInv, NEW s \in Svc, s \in Compute, pc[s] \in WakePc,
           pc[s] # "look" \/ kind[s] # "traffic"
    PROVE  desired[s] = "running"
<1>1. Wanted(s) /\ Shape(s)
  BY DEF IntentInv, BaseInv, Fine
<1> QED BY <1>1 DEF Wanted, Shape, InlineKinds

\* A step of a wake: only its own container moves.
LEMMA WakeKeepsIntent ==
    ASSUME IntentInv, NEW s \in Svc, pc[s] \in WakePc, desired' = desired, Warmer,
           docker' = docker \/ docker' = [docker EXCEPT ![s] = "running"],
           \/ EndWake(s, TRUE) \/ EndWake(s, FALSE)
           \/ /\ \E at \in WakePc : Goto(s, at)
              /\ kind[s] = "traffic" /\ pc[s] = "look" /\ s \in Compute => desired[s] = "running",
           pc[s] = "look" => docker' = docker
    PROVE  \A t \in Svc : Standing(t)' /\ Wanted(t)'
<1>1. LocksTyped /\ RestTyped /\ Compute \subseteq Svc /\ BaseInv
  BY SchedulerAssumption DEF IntentInv, BaseInv
<1>2. ASSUME NEW t \in Compute PROVE docker'[t] = docker[t] \/ desired[t] = "running"
  BY <1>1, <1>2, WakingIsWanted DEF RestTyped
<1>3. CASE EndWake(s, TRUE) \/ EndWake(s, FALSE)
  <2>1. /\ queue' = queue
        /\ \A t \in Svc : \/ kind'[t] = kind[t] /\ pc'[t] = pc[t]
                          \/ kind'[t] = "none" /\ pc'[t] = "none"
                          \/ kind[t] = "manage" /\ kind'[t] = "manage"
    BY <1>1, <1>3, EndWakeKeeps
  <2>2. \A t \in Compute : kind[t] # "manage"
    BY <1>1 DEF IntentInv, Wanted
  <2>3. \A t \in Compute : Queued(t, "manage")' => Queued(t, "manage")
    BY <2>1 DEF Queued
  <2>4. \A t \in Compute : \/ kind'[t] = kind[t] /\ pc'[t] = pc[t]
                           \/ kind'[t] = "none" /\ pc'[t] = "none"
    BY <1>1, <2>1, <2>2
  <2> QED BY <1>2, <2>2, <2>3, <2>4, IntentStep
<1>4. CASE /\ \E at \in WakePc : Goto(s, at)
           /\ kind[s] = "traffic" /\ pc[s] = "look" /\ s \in Compute => desired[s] = "running"
  <2>1. /\ kind' = kind /\ queue' = queue
        /\ \A t \in Svc : t # s => pc'[t] = pc[t]
    BY <1>1, <1>4 DEF Goto, LocksTyped
  <2>2. s \in Compute => desired[s] = "running"
    BY <1>4, WakingIsWanted
  <2>3. \A t \in Compute : kind'[t] # "manage"
    BY <1>1, <2>1 DEF IntentInv, Wanted
  <2>4. \A t \in Compute : Queued(t, "manage")' => Queued(t, "manage")
    BY <2>1 DEF Queued
  <2>5. \A t \in Compute : (kind'[t] = kind[t] /\ pc'[t] = pc[t]) \/ desired[t] = "running"
    BY <1>1, <2>1, <2>2
  <2> QED BY <1>2, <2>3, <2>4, <2>5, IntentStep
<1> QED BY <1>3, <1>4

LEMMA LookKeepsIntent ==
    ASSUME IntentInv, NEW s \in Svc, Look(s) PROVE \A t \in Svc : Standing(t)' /\ Wanted(t)'
<1>1. /\ pc[s] = "look" /\ pc[s] \in WakePc /\ UNCHANGED <<docker, desired>> /\ Warmer
  BY DEF Look, ReadUnlessRefused, rows, clockVars, WakePc, Warmer
<1>2. docker[s] \in {"running", "restarting", "paused", "exited"}
  BY DEF IntentInv, BaseInv, RestTyped, Container
<1>3. \/ EndWake(s, FALSE)
      \/ ~Refuses(s, kind[s]) /\ (Goto(s, "probe") \/ Goto(s, "ready") \/ Goto(s, "evict") \/ Goto(s, "unpause"))
  BY <1>2 DEF Look, ReadUnlessRefused
<1>4. {"probe", "ready", "evict", "unpause"} \subseteq WakePc
  BY DEF WakePc
<1>5. ~Refuses(s, kind[s]) => (kind[s] = "traffic" /\ pc[s] = "look" /\ s \in Compute => desired[s] = "running")
  BY DEF Refuses
<1> QED BY <1>1, <1>3, <1>4, <1>5, WakeKeepsIntent

LEMMA WakesKeepIntent ==
    ASSUME IntentInv, NEW s \in Svc, Probe(s) \/ Unpause(s) \/ StartContainer(s) \/ AwaitReady(s)
    PROVE  \A t \in Svc : Standing(t)' /\ Wanted(t)'
<1>1. /\ pc[s] \in WakePc /\ pc[s] # "look" /\ desired' = desired
      /\ docker' = docker \/ docker' = [docker EXCEPT ![s] = "running"]
  BY DEF Probe, Unpause, StartContainer, AwaitReady, rows, WakePc
<1>2. Goto(s, "ready") \/ EndWake(s, TRUE) \/ EndWake(s, FALSE)
  BY DEF Probe, Unpause, StartContainer, AwaitReady
<1>3. "ready" \in WakePc
  BY DEF WakePc
<1>4. Warmer
  <2>1. activity' = activity \/ activity' = [activity EXCEPT ![s] = "hot"]
    BY DEF Probe, Unpause, StartContainer, AwaitReady, clockVars, Touch, OnUp
  <2> QED BY <2>1 DEF Warmer, IntentInv, BaseInv, RestTyped
<1> QED BY <1>1, <1>2, <1>3, <1>4, WakeKeepsIntent

\* Services begin to sleep: none of them is stopped yet.
LEMMA SleepsKeepIntent ==
    ASSUME IntentInv, UNCHANGED <<docker, desired, queue>>,
           \A t \in Svc : \/ kind'[t] = kind[t] /\ pc'[t] = pc[t]
                          \/ kind'[t] \in SleepKinds /\ pc'[t] = "read"
    PROVE  \A t \in Svc : Standing(t)' /\ Wanted(t)'
<1>1. ASSUME NEW t \in Compute
      PROVE  /\ kind'[t] # "manage"
             /\ \/ kind'[t] = kind[t] /\ pc'[t] = pc[t]
                \/ kind'[t] \notin {"start", "always", "traffic"} /\ pc'[t] # "stop"
  <2>1. t \in Svc /\ Wanted(t)
    BY SchedulerAssumption DEF IntentInv
  <2> QED BY <2>1 DEF Wanted, SleepKinds
<1>2. \A t \in Compute : Queued(t, "manage")' => Queued(t, "manage")
  BY DEF Queued
<1> QED BY <1>1, <1>2, IntentStep

LEMMA MakeRoomKeepsIntent ==
    ASSUME IntentInv, NEW s \in Svc, MakeRoom(s) PROVE \A t \in Svc : Standing(t)' /\ Wanted(t)'
<1>1. /\ pc[s] = "evict" /\ pc[s] \in WakePc /\ UNCHANGED <<docker, desired, activity>> /\ Warmer
      /\ BaseInv
  BY DEF MakeRoom, rows, clockVars, WakePc, Warmer, IntentInv
<1>2. CASE EndWake(s, FALSE) \/ Goto(s, "start")
  <2>1. "start" \in WakePc
    BY DEF WakePc
  <2> QED BY <1>1, <1>2, <2>1, WakeKeepsIntent
<1>3. CASE Evict(s) /\ UNCHANGED rpc
  BY <1>1, <1>3, EvictKeeps, SleepsKeepIntent
<1> QED BY <1>2, <1>3 DEF MakeRoom

LEMMA GrantKeepsIntent ==
    ASSUME IntentInv, NEW s \in Svc, Grant(s) PROVE \A t \in Svc : Standing(t)' /\ Wanted(t)'
<1> DEFINE op == Head(queue[s])
<1>1. LocksTyped /\ RestTyped /\ Compute \subseteq Svc
  BY SchedulerAssumption DEF IntentInv, BaseInv
<1>2. /\ kind[s] = "none" /\ queue[s] # <<>> /\ queue' = [queue EXCEPT ![s] = Tail(@)]
      /\ docker' = docker
  BY DEF Grant
<1>3. queue[s] \in Seq(Ops)
  BY <1>1 DEF LocksTyped
<1>4. \A x : Queued(s, x) <=> x = op \/ \E i \in 1 .. Len(Tail(queue[s])) : Tail(queue[s])[i] = x
  BY <1>2, <1>3, TailKeeps DEF Queued
<1>5. queue'[s] = Tail(queue[s]) /\ \A t \in Svc : t # s => queue'[t] = queue[t]
  BY <1>1, <1>2 DEF LocksTyped
<1>6. \A t \in Svc : Queued(t, "manage")' => Queued(t, "manage")
  BY <1>4, <1>5 DEF Queued
<1>7. s \in Compute => op # "manage"
  BY <1>4 DEF IntentInv, Wanted
<1>8. CASE op = "start"
  <2>1. /\ desired' = [desired EXCEPT ![s] = "running"]
        /\ kind' = [kind EXCEPT ![s] = "start"] /\ pc' = [pc EXCEPT ![s] = "hint"]
    BY <1>8 DEF Grant, Begin
  <2>2. ASSUME NEW t \in Svc PROVE Standing(t)' /\ Wanted(t)'
    <3>1. Standing(t) /\ Wanted(t)
      BY DEF IntentInv
    <3>2. CASE t = s
      <4>1. desired'[s] = "running" /\ kind'[s] = "start"
        BY <1>1, <2>1 DEF LocksTyped, RestTyped
      <4> QED BY <4>1, <3>1, <3>2, <1>6 DEF Standing, Wanted
    <3>3. CASE t # s
      <4>1. desired'[t] = desired[t] /\ kind'[t] = kind[t] /\ pc'[t] = pc[t]
        BY <3>3, <1>1, <2>1 DEF LocksTyped, RestTyped
      <4> QED BY <4>1, <3>1, <1>2, <1>6 DEF Standing, Wanted
    <3> QED BY <3>2, <3>3
  <2> QED BY <2>2
<1>9. CASE op # "start"
  <2>1. /\ desired' = desired
        /\ \/ op = "traffic" /\ kind' = [kind EXCEPT ![s] = op] /\ pc' = [pc EXCEPT ![s] = "look"]
           \/ op \in {"stop", "suspend"} /\ kind' = [kind EXCEPT ![s] = op] /\ pc' = [pc EXCEPT ![s] = "act"]
           \/ op = "manage" /\ kind' = [kind EXCEPT ![s] = op] /\ pc' = [pc EXCEPT ![s] = "look"]
           \/ /\ op = "always" /\ desired[s] = "running"
              /\ kind' = [kind EXCEPT ![s] = op] /\ pc' = [pc EXCEPT ![s] = "look"]
           \/ UNCHANGED <<kind, pc>>
    BY <1>9 DEF Grant, Begin
  <2>2. ASSUME NEW t \in Compute
        PROVE  /\ kind'[t] # "manage"
               /\ \/ kind'[t] = kind[t] /\ pc'[t] = pc[t]
                  \/ kind'[t] \notin {"start", "always", "traffic"} /\ pc'[t] # "stop"
                  \/ kind'[t] = "traffic" /\ pc'[t] = "look"
                  \/ desired[t] = "running"
    <3>1. Wanted(t) /\ t \in Svc
      BY <1>1 DEF IntentInv
    <3>2. CASE t # s
      <4>1. kind'[t] = kind[t] /\ pc'[t] = pc[t]
        BY <3>1, <3>2, <2>1, <1>1 DEF LocksTyped
      <4> QED BY <4>1, <3>1 DEF Wanted
    <3>3. CASE t = s /\ UNCHANGED <<kind, pc>>
      BY <3>3, <1>2
    <3>4. CASE t = s /\ kind'[s] = op
      <4>1. pc'[s] = IF op \in {"stop", "suspend"} THEN "act" ELSE "look"
        <5>1. pc \in [Svc -> Place] /\ kind \in [Svc -> Ops \cup SleepKinds \cup {"none"}]
          BY <1>1 DEF LocksTyped
        <5>2. ~UNCHANGED <<kind, pc>> \/ op = "none"
          BY <3>4, <1>2
        <5>3. op # "none"
          BY <1>2, <1>3, TailKeeps DEF Ops
        <5> QED BY <2>1, <5>1, <5>2, <5>3
      <4> QED BY <2>1, <3>1, <3>4, <4>1, <1>1, <1>2, <1>7 DEF LocksTyped
    <3> QED BY <2>1, <3>2, <3>3, <3>4, <1>1 DEF LocksTyped
  <2> QED BY <1>1, <1>2, <1>6, <2>1, <2>2, IntentStep
<1> QED BY <1>8, <1>9

\* The developer's stop and suspend: what is written is what docker did.
LEMMA StopKeepsIntent ==
    ASSUME "stop" \notin Faults, IntentInv, NEW s \in Svc, Stop(s) \/ Suspend(s)
    PROVE  \A t \in Svc : Standing(t)' /\ Wanted(t)'
<1>1. LocksTyped /\ RestTyped
  BY DEF IntentInv, BaseInv
<1>2. /\ kind' = [kind EXCEPT ![s] = "none"] /\ pc' = [pc EXCEPT ![s] = "none"] /\ queue' = queue
      /\ \/ docker' = [docker EXCEPT ![s] = "exited"] /\ desired' = [desired EXCEPT ![s] = "stopped"]
         \/ docker' = [docker EXCEPT ![s] = "paused"] /\ desired' = [desired EXCEPT ![s] = "suspended"]
         \/ UNCHANGED <<docker, desired>>
  BY DEF Stop, Suspend, End
<1> SUFFICES ASSUME NEW t \in Svc PROVE Standing(t)' /\ Wanted(t)'
  OBVIOUS
<1>3. Standing(t) /\ Wanted(t)
  BY DEF IntentInv
<1>4. CASE t # s
  <2>1. docker'[t] = docker[t] /\ desired'[t] = desired[t] /\ kind'[t] = kind[t] /\ pc'[t] = pc[t]
    BY <1>1, <1>2, <1>4 DEF LocksTyped, RestTyped
  <2> QED BY <2>1, <1>2, <1>3 DEF Standing, Wanted, Queued
<1>5. CASE t = s
  <2>1. kind'[s] = "none" /\ pc'[s] = "none"
    BY <1>1, <1>2 DEF LocksTyped
  <2>2. \/ docker'[s] = "exited" /\ desired'[s] = "stopped"
        \/ docker'[s] = "paused" /\ desired'[s] = "suspended"
        \/ docker'[s] = docker[s] /\ desired'[s] = desired[s]
    BY <1>1, <1>2 DEF RestTyped
  <2>3. Standing(s)'
    BY <2>2, <1>3, <1>5 DEF Standing
  <2>4. Wanted(s)'
    BY <2>1, <1>2, <1>3, <1>5 DEF Wanted, Queued
  <2> QED BY <2>3, <2>4, <1>5
<1> QED BY <1>4, <1>5

\* The other steps of the holder of a key.
LEMMA HolderKeepsIntent ==
    ASSUME IntentInv, NEW s \in Svc, Hint(s) \/ Query(s) \/ SleepRead(s) \/ SleepStop(s)
    PROVE  \A t \in Svc : Standing(t)' /\ Wanted(t)'
<1>1. /\ LocksTyped /\ RestTyped /\ Shape(s) /\ Standing(s) /\ Wanted(s) /\ Compute \subseteq Svc
      /\ desired' = desired /\ queue' = queue
  BY SchedulerAssumption
  DEF IntentInv, BaseInv, Fine, Hint, Query, SleepRead, SleepStop, rows, Goto, EndSleep
<1>2. /\ \/ kind' = kind
         \/ kind' = [kind EXCEPT ![s] = "none"] /\ pc' = [pc EXCEPT ![s] = "none"]
      /\ pc' = [pc EXCEPT ![s] = pc'[s]]
      /\ docker' = [docker EXCEPT ![s] = docker'[s]]
  BY <1>1 DEF LocksTyped, RestTyped, Hint, Query, SleepRead, SleepStop, Goto, EndSleep, End
<1>3. s \in Compute => \/ desired[s] = "running"
                       \/ docker' = docker /\ kind'[s] = "none" /\ pc'[s] = "none"
  <2>1. CASE Hint(s) \/ SleepStop(s)
    <3>1. kind[s] = "start" \/ pc[s] = "stop"
      BY <2>1, <1>1 DEF Hint, SleepStop, Shape
    <3> QED BY <3>1, <1>1 DEF Wanted
  <2>2. CASE Query(s)
    <3>1. kind[s] = "manage"
      BY <2>2, <1>1 DEF Query, Shape
    <3> QED BY <3>1, <1>1 DEF Wanted
  <2>3. CASE SleepRead(s)
    <3>1. docker' = docker /\ (docker[s] = "running" \/ \E bad \in BOOLEAN : EndSleep(s, 0, bad))
      BY <2>3 DEF SleepRead
    <3>2. CASE docker[s] = "running"
      BY <3>2, <1>1 DEF Standing
    <3>3. CASE \E bad \in BOOLEAN : EndSleep(s, 0, bad)
      BY <3>1, <3>3, <1>1 DEF EndSleep, End, LocksTyped
    <3> QED BY <3>1, <3>2, <3>3
  <2> QED BY <2>1, <2>2, <2>3
<1>4. ASSUME NEW t \in Compute
      PROVE  /\ docker'[t] = docker[t] \/ desired[t] = "running"
             /\ kind'[t] # "manage"
             /\ \/ kind'[t] = kind[t] /\ pc'[t] = pc[t]
                \/ kind'[t] \notin {"start", "always", "traffic"} /\ pc'[t] # "stop"
                \/ desired[t] = "running"
  <2>1. t \in Svc /\ kind[t] # "manage"
    BY <1>1 DEF IntentInv, Wanted
  <2>2. CASE t # s
    <3>1. docker'[t] = docker[t] /\ kind'[t] = kind[t] /\ pc'[t] = pc[t]
      BY <2>1, <2>2, <1>1, <1>2 DEF LocksTyped, RestTyped
    <3> QED BY <3>1, <2>1
  <2>3. CASE t = s
    <3>1. kind'[s] \in {kind[s], "none"}
      BY <1>1, <1>2 DEF LocksTyped
    <3> QED BY <3>1, <2>1, <2>3, <1>3
  <2> QED BY <2>2, <2>3
<1>5. \A t \in Compute : Queued(t, "manage")' => Queued(t, "manage")
  BY <1>1 DEF Queued
<1> QED BY <1>1, <1>4, <1>5, IntentStep

\* Operations that queue up: only the manager of a database's service is one of "manage".
LEMMA QueueKeepsIntent ==
    ASSUME IntentInv, UNCHANGED <<docker, desired, kind, pc>>,
           \A t \in Compute : Queued(t, "manage")' => Queued(t, "manage")
    PROVE  \A t \in Svc : Standing(t)' /\ Wanted(t)'
<1>1. \A t \in Compute : kind'[t] # "manage"
  BY SchedulerAssumption DEF IntentInv, Wanted
<1> QED BY <1>1, IntentStep

LEMMA CallersKeepIntent ==
    ASSUME IntentInv,
           \/ \E s \in Svc : \E op \in Verbs : Call(s, op)
           \/ \E r \in Req : Resolve(r)
           \/ SweepWakes
    PROVE  \A t \in Svc : Standing(t)' /\ Wanted(t)'
<1>1. BaseInv /\ Compute \subseteq Svc
  BY SchedulerAssumption DEF IntentInv
<1>2. UNCHANGED <<docker, desired, kind, pc>>
  BY DEF Call, Resolve, SweepWakes, rows
<1>3. CASE \E s \in Svc : \E op \in Verbs : Call(s, op)
  <2>1. PICK s \in Svc : \E op \in Verbs : Call(s, op)
    BY <1>3
  <2>2. PICK op \in Verbs : Call(s, op)
    BY <2>1
  <2>3. op \in Ops /\ Wait(s, op) /\ (op = "manage" => s \notin Compute)
    BY <2>2, SchedulerAssumption DEF Call, Ops
  <2>4. \A t \in Svc : \A x : Queued(t, x)' <=> Queued(t, x) \/ (t = s /\ x = op)
    BY <1>1, <2>3, WaitKeeps
  <2>5. \A t \in Compute : Queued(t, "manage")' => Queued(t, "manage")
    BY <1>1, <2>3, <2>4
  <2> QED BY <1>2, <2>5, QueueKeepsIntent
<1>4. CASE \E r \in Req : Resolve(r)
  <2>1. PICK r \in Req : Resolve(r)
    BY <1>4
  <2>2. Target[r] \in Svc /\ "traffic" \in Ops
    BY SchedulerAssumption DEF Ops
  <2>3. queue' = queue \/ Wait(Target[r], "traffic")
    BY <2>1 DEF Resolve
  <2>4. CASE queue' = queue
    <3>1. \A t \in Compute : Queued(t, "manage")' => Queued(t, "manage")
      BY <2>4 DEF Queued
    <3> QED BY <1>2, <3>1, QueueKeepsIntent
  <2>5. CASE Wait(Target[r], "traffic")
    <3>1. \A t \in Svc : \A x : Queued(t, x)' <=> Queued(t, x) \/ (t = Target[r] /\ x = "traffic")
      BY <1>1, <2>2, <2>5, WaitKeeps
    <3>2. \A t \in Compute : Queued(t, "manage")' => Queued(t, "manage")
      BY <1>1, <3>1
    <3> QED BY <1>2, <3>2, QueueKeepsIntent
  <2> QED BY <2>3, <2>4, <2>5
<1>5. CASE SweepWakes
  <2>1. \A t \in Svc : \A x : Queued(t, x)' => Queued(t, x) \/ x = "always"
    BY <1>1, <1>5, AlwaysQueues
  <2>2. \A t \in Compute : Queued(t, "manage")' => Queued(t, "manage")
    BY <1>1, <2>1
  <2> QED BY <1>2, <2>2, QueueKeepsIntent
<1> QED BY <1>3, <1>4, <1>5

\* A container that runs, or is being restarted, is of a service that is to run.
LEMMA CrashKeepsIntent ==
    ASSUME IntentInv, NEW s \in Svc, Crash(s) \/ Recover(s)
    PROVE  \A t \in Svc : Standing(t)' /\ Wanted(t)'
<1>1. /\ docker[s] \in {"running", "restarting"} /\ UNCHANGED <<desired, queue, kind, pc>>
      /\ \E d \in Container : docker' = [docker EXCEPT ![s] = d]
  BY DEF Crash, Recover, rows, locks, Container
<1>2. s \in Compute => desired[s] = "running"
  BY <1>1 DEF IntentInv, Standing
<1>3. \A t \in Compute : docker'[t] = docker[t] \/ desired[t] = "running"
  BY <1>1, <1>2, SchedulerAssumption DEF IntentInv, BaseInv, RestTyped
<1>4. \A t \in Compute : kind'[t] # "manage" /\ (Queued(t, "manage")' => Queued(t, "manage"))
  BY <1>1, SchedulerAssumption DEF IntentInv, Wanted, Queued
<1> QED BY <1>1, <1>3, <1>4, IntentStep

LEMMA StepKeepsIntent ==
    ASSUME "stop" \notin Faults PROVE IntentInv /\ [Next]_vars => IntentInv'
<1> SUFFICES ASSUME IntentInv, [Next]_vars PROVE \A t \in Svc : Standing(t)' /\ Wanted(t)'
  BY StepKeepsBase DEF IntentInv
<1>1. CASE UNCHANGED vars
  <2>1. UNCHANGED <<docker, desired, queue, kind, pc>>
    BY <1>1 DEF vars, rows, locks
  <2> QED BY <2>1, AsideKeepsIntent
<1>2. ASSUME NEW s \in Svc, Operate(s) PROVE \A t \in Svc : Standing(t)' /\ Wanted(t)'
  BY <1>2, GrantKeepsIntent, LookKeepsIntent, WakesKeepIntent, MakeRoomKeepsIntent,
     StopKeepsIntent, HolderKeepsIntent DEF Operate
<1>3. ASSUME NEW s \in Svc, SetAlwaysOn(s) \/ Cool(s) \/ ProtectionEnds(s)
      PROVE  \A t \in Svc : Standing(t)' /\ Wanted(t)'
  <2>1. UNCHANGED <<docker, desired, queue, kind, pc>>
    BY <1>3 DEF SetAlwaysOn, Cool, ProtectionEnds, rows, locks
  <2> QED BY <2>1, AsideKeepsIntent
<1>4. ASSUME NEW s \in Svc, Crash(s) \/ Recover(s) PROVE \A t \in Svc : Standing(t)' /\ Wanted(t)'
  BY <1>4, CrashKeepsIntent
<1>5. ASSUME NEW s \in Svc, NEW op \in Verbs, Call(s, op)
      PROVE  \A t \in Svc : Standing(t)' /\ Wanted(t)'
  BY <1>5, CallersKeepIntent
<1>6. ASSUME NEW r \in Req, Resolve(r) PROVE \A t \in Svc : Standing(t)' /\ Wanted(t)'
  BY <1>6, CallersKeepIntent
<1>7. ASSUME NEW r \in Req, Arrive(r) \/ Woken(r) \/ Leave(r)
      PROVE  \A t \in Svc : Standing(t)' /\ Wanted(t)'
  <2>1. UNCHANGED <<docker, desired, queue, kind, pc>>
    BY <1>7 DEF Arrive, Woken, Leave, rows, locks
  <2> QED BY <2>1, AsideKeepsIntent
<1>8. CASE SweepBegin \/ SweepCollect \/ SweepRefresh
  <2>1. UNCHANGED <<docker, desired, queue, kind, pc>>
    BY <1>8 DEF SweepBegin, SweepCollect, SweepRefresh, rows, locks
  <2> QED BY <2>1, AsideKeepsIntent
<1>9. CASE SweepWakes
  BY <1>9, CallersKeepIntent
<1>10. CASE SweepBatch
  <2>1. BaseInv /\ UNCHANGED <<docker, desired>>
    BY <1>10 DEF SweepBatch, rows, IntentInv
  <2> QED BY <1>10, <2>1, BatchBegins, SleepsKeepIntent
<1>11. CASE SweepEvict
  <2>1. BaseInv /\ UNCHANGED <<docker, desired, rpc, activity>> /\ Sweep \in Svc \cup {Sweep}
    BY <1>11 DEF SweepEvict, rows, clockVars, IntentInv
  <2>2. CASE UNCHANGED locks
    <3>1. UNCHANGED <<queue, kind, pc>>
      BY <2>2 DEF locks
    <3> QED BY <2>1, <3>1, AsideKeepsIntent
  <2>3. CASE Evict(Sweep)
    BY <2>1, <2>3, EvictKeeps, SleepsKeepIntent
  <2> QED BY <1>11, <2>2, <2>3 DEF SweepEvict
<1> QED BY <1>1, <1>2, <1>3, <1>4, <1>5, <1>6, <1>7, <1>8, <1>9, <1>10, <1>11 DEF Next, Sweeping

LEMMA InitIsIntended == Init => IntentInv
<1> SUFFICES ASSUME Init PROVE \A s \in Svc : Standing(s) /\ Wanted(s)
  BY InitIsBase DEF IntentInv
<1>1. PICK boot \in [Svc -> BootStates] :
        /\ docker = [s \in Svc |-> boot[s].docker]
        /\ desired = [s \in Svc |-> boot[s].desired]
  BY DEF Init
<1>2. /\ queue = [s \in Svc |-> <<>>] /\ kind = [s \in Svc |-> "none"]
      /\ pc = [s \in Svc |-> "none"]
  BY DEF Init
<1>3. ASSUME NEW s \in Svc PROVE Standing(s)
  BY <1>1 DEF Standing, BootStates
<1>4. ASSUME NEW s \in Svc PROVE Wanted(s)
  BY <1>2 DEF Wanted, Queued
<1> QED BY <1>3, <1>4

\* Where a docker stop does not fail after it took effect, a service the developer stopped or
\* suspended stays down, and no request's wake is lost: for any number of services, any queue
\* of verbs, wakes and sleeps, crashes, and any other failure (engine.ts, lifecycleLocked;
\* scheduler.ts, wakeLocked).
THEOREM ForgottenTheorem == ASSUME "stop" \notin Faults PROVE Spec => []NothingForgotten
<1>1. IntentInv => NothingForgotten
  <2> SUFFICES ASSUME IntentInv PROVE NothingForgotten
    OBVIOUS
  <2>1. NoLostWaiter
    BY BaseLosesNobody DEF IntentInv
  <2>2. IntentHonoured
    BY SchedulerAssumption DEF IntentInv, Standing, IntentHonoured
  <2> QED BY <2>1, <2>2 DEF NothingForgotten
<1> QED BY <1>1, InitIsIntended, StepKeepsIntent, PTL DEF Spec

-------------------------------------------------------------------------------
\* A compute group: what an operation on it is.

GroupPcs == {"queued", "adding", "deploying", "reassert", "bytes", "updating", "starting", "fork",
             "unwind"}
Keys == Branch \X {"branch", "group"}

GroupOps == [verb : Verb, on : Branch, arg : Image \cup Ceiling \cup {None}, keys : SUBSET Keys,
             pc : GroupPcs, round : Nat, tries : Nat, image : Image \cup {None},
             mount : Volume \cup {None}, ceiling : Ceiling \cup {None}, todo : SUBSET Branch,
             volume : Volume \cup {None}, failed : BOOLEAN, changed : BOOLEAN]

Begun(op) == op.pc \notin {"queued", "adding"}

\* It works on the group of one branch.
AtWork(op) == op.pc \in {"deploying", "reassert", "bytes", "starting", "fork", "unwind"}

Deployers == {"deploy", "restart", "merge", "clone", "detach"}
OneBranch == {"deploy", "restart", "start", "stop", "suspend", "delete", "clone"}

\* Where an operation of each kind can be, and the keys it has there.
Formed(op) ==
    /\ op.pc \in {"deploying", "reassert"} => op.verb \in Deployers
    /\ op.pc = "deploying" => op.image \in Image
    /\ op.pc = "bytes" => op.verb = "detach"
    /\ op.pc = "starting" => op.verb = "start"
    /\ op.pc = "updating" => op.verb = "resize"
    /\ op.pc \in {"fork", "unwind"} => op.verb = "clone"
    /\ op.pc = "adding" => op.verb = "merge"
    /\ op.verb \in {"deploy", "merge"} => op.arg \in Image
    /\ op.verb = "resize" => op.arg \in Ceiling
    /\ op.verb \in {"attach", "detach", "clone"} => <<Main, "branch">> \in op.keys
    /\ op.verb \in OneBranch \/ (op.verb = "merge" /\ op.pc # "adding") => <<op.on, "branch">> \in op.keys
    /\ op.verb \in {"clone", "delete"} => op.on # Main
    /\ op.volume # None <=> op.verb = "detach" /\ Begun(op)

\* One operation and a later one in the line.
Behind(a, o) ==
    /\ Begun(o) => a.keys \cap o.keys = {}
    /\ ~(a.verb = "clone" /\ o.verb = "clone" /\ a.on = o.on)

GroupLine ==
    /\ line \in Seq(GroupOps)
    /\ \A i \in DOMAIN line : Formed(line[i])
    /\ \A i, j \in DOMAIN line : i < j => Behind(line[i], line[j])

InGroupLine(o) == \E i \in DOMAIN line : line[i] = o
Apart(i, o) == \E j \in DOMAIN line : j # i /\ line[j] = o

-------------------------------------------------------------------------------
\* What an operation may rely on.

\* The container of b has v, or the group has written to it there.
UsedOn(b, v) ==
    \/ <<b, v>> \in bytes
    \/ apps[b] # None /\ boxes[b] # None /\ boxes[b].mount = v

\* Its branch is there, and a clone's is not before its turn.
BranchStands(op) ==
    /\ AtWork(op) => op.on \in live /\ <<op.on, "branch">> \in op.keys
    /\ op.verb = "clone" /\ op.pc = "queued" => op.on \notin live

\* What it deploys is what the branch runs, or has not run yet, on the volume on record.
DeployStands(op) ==
    /\ op.pc = "deploying" /\ op.verb # "detach" => op.mount \in {None, record}
    /\ op.pc = "deploying" /\ op.verb \in {"restart", "detach"} =>
          apps[op.on] # None /\ apps[op.on].image = op.image
    /\ op.pc \in {"fork", "deploying"} /\ op.verb = "clone" => apps[op.on] = None
    /\ op.pc = "fork" => \A v \in Volume : <<op.on, v>> \notin bytes
    /\ op.pc = "reassert" => apps[op.on] # None /\ boxes[op.on] # None
    /\ op.pc = "starting" => apps[op.on] # None /\ apps[op.on].intent = "running"

\* A removal has everything that runs the group, and what has not failed is left without the
\* volume behind it.
RemovalStands(op) ==
    op.verb = "detach" /\ Begun(op) =>
        /\ record = None /\ op.mount = None
        /\ \A b \in live : <<b, "branch">> \in op.keys
        /\ \A b \in op.todo : b \in live /\ apps[b] # None
        /\ op.pc \in {"reassert", "bytes"} /\ boxes[op.on] # None => boxes[op.on].mount = None
        /\ ~op.failed => \A b \in live : UsedOn(b, op.volume) => b \in op.todo \/ b = op.on

Stands(op) == BranchStands(op) /\ DeployStands(op) /\ RemovalStands(op)

-------------------------------------------------------------------------------
\* The state.

GroupStore ==
    /\ live \subseteq Branch /\ Main \in live
    /\ record \in Volume \cup {None} /\ stored \in Ceiling \cup {None}
    /\ apps \in [Branch -> Apps \cup {None}] /\ boxes \in [Branch -> Boxes \cup {None}]
    /\ bytes \subseteq Branch \X Volume /\ told \subseteq live

\* v is on record, or with the removal that took it from there.
VolumeNamed(v) == record = v \/ \E o \in GroupOps : InGroupLine(o) /\ o.volume = v

Cloned(b) == \E o \in GroupOps : InGroupLine(o) /\ o.verb = "clone" /\ Begun(o) /\ o.on = b
Reasserted(b) == \E o \in GroupOps : InGroupLine(o) /\ o.pc = "reassert" /\ o.on = b

AllNamed == \A b \in Branch, v \in Volume : UsedOn(b, v) => VolumeNamed(v)

\* A branch that is not there has nothing; bytes have a group; no intent is passed over.
BranchFine(b) ==
    /\ b \notin live => apps[b] = None /\ boxes[b] = None /\ \A v \in Volume : <<b, v>> \notin bytes
    /\ \A v \in Volume : <<b, v>> \in bytes => apps[b] # None \/ Cloned(b)
    /\ b \in live /\ boxes[b] # None /\ boxes[b].state = "up" /\ Intent(b) # "running" =>
          b \in told \/ Reasserted(b)

GroupInv ==
    /\ GroupLine /\ GroupStore /\ AllNamed
    /\ \A o \in GroupOps : InGroupLine(o) => Stands(o)
    /\ \A b \in Branch : BranchFine(b)
-------------------------------------------------------------------------------
\* The line.

\* A new operation at the end.
LEMMA EntryKeepsLine ==
    ASSUME GroupLine, NEW n \in GroupOps, Enter(n), Formed(n),
           \A i \in DOMAIN line : Behind(line[i], n)
    PROVE  GroupLine' /\ \A o : InGroupLine(o)' <=> o = n \/ InGroupLine(o)
<1>1. line' = Append(line, n) /\ line \in Seq(GroupOps)
  BY DEF Enter, GroupLine
<1>2. /\ line' \in Seq(GroupOps) /\ Len(line') = Len(line) + 1 /\ Len(line) \in Nat
      /\ DOMAIN line = 1 .. Len(line) /\ DOMAIN line' = 1 .. Len(line) + 1
      /\ line'[Len(line) + 1] = n /\ \A i \in 1 .. Len(line) : line'[i] = line[i]
  BY <1>1
<1>3. \A i \in DOMAIN line' : Formed(line'[i])
  BY <1>2 DEF GroupLine
<1>4. \A i, j \in DOMAIN line' : i < j => Behind(line'[i], line'[j])
  <2> TAKE i, j \in DOMAIN line'
  <2>1. CASE i < j /\ j \in DOMAIN line
    BY <1>2, <2>1 DEF GroupLine
  <2>2. CASE i < j /\ j = Len(line) + 1
    BY <1>2, <2>2
  <2> QED BY <1>2, <2>1, <2>2
<1>5. \A o : InGroupLine(o)' <=> o = n \/ InGroupLine(o)
  BY <1>2 DEF InGroupLine
<1> QED BY <1>2, <1>3, <1>4, <1>5 DEF GroupLine

\* One that is over.
LEMMA RemovalKeepsGroupLine ==
    ASSUME GroupLine, NEW i \in DOMAIN line, NEW q, q = RemoveAt(line, i)
    PROVE  /\ q \in Seq(GroupOps) /\ Len(q) = Len(line) - 1
           /\ \A k \in DOMAIN q : Formed(q[k])
           /\ \A k, m \in DOMAIN q : k < m => Behind(q[k], q[m])
           /\ \A o : (\E k \in DOMAIN q : q[k] = o) <=> Apart(i, o)
<1>1. line \in Seq(GroupOps) /\ DOMAIN line = 1 .. Len(line) /\ Len(line) \in Nat /\ i \in 1 .. Len(line)
  BY DEF GroupLine
<1>2. /\ q \in Seq(GroupOps) /\ Len(q) = Len(line) - 1 /\ DOMAIN q = 1 .. Len(line) - 1
      /\ \A k \in 1 .. Len(line) - 1 : q[k] = IF k < i THEN line[k] ELSE line[k + 1]
  <2>1. PICK x : x = SubSeq(line, 1, i - 1)
    OBVIOUS
  <2>2. PICK y : y = SubSeq(line, i + 1, Len(line))
    OBVIOUS
  <2>3. x \in Seq(GroupOps) /\ Len(x) = i - 1 /\ \A k \in 1 .. i - 1 : x[k] = line[k]
    BY <1>1, <2>1
  <2>4. /\ y \in Seq(GroupOps) /\ Len(y) = Len(line) - i
        /\ \A k \in 1 .. Len(line) - i : y[k] = line[i + k]
    BY <1>1, <2>2
  <2>5. q = x \o y
    BY <2>1, <2>2 DEF RemoveAt
  <2>6. /\ q \in Seq(GroupOps) /\ Len(q) = Len(x) + Len(y)
        /\ \A k \in 1 .. Len(x) + Len(y) : q[k] = IF k <= Len(x) THEN x[k] ELSE y[k - Len(x)]
    <3>1. /\ x \o y \in Seq(GroupOps) /\ Len(x \o y) = Len(x) + Len(y)
          /\ \A k \in 1 .. Len(x) + Len(y) :
                (x \o y)[k] = IF k <= Len(x) THEN x[k] ELSE y[k - Len(x)]
      BY <2>3, <2>4, ConcatProperties, Zenon
    <3> QED BY <2>5, <3>1, Zenon
  <2>7. Len(q) = Len(line) - 1 /\ DOMAIN q = 1 .. Len(line) - 1
    BY <1>1, <2>3, <2>4, <2>6
  <2>8. ASSUME NEW k \in 1 .. Len(line) - 1
        PROVE  q[k] = IF k < i THEN line[k] ELSE line[k + 1]
    <3>1. /\ k \in Nat /\ Len(x) = i - 1 /\ k \in 1 .. Len(x) + Len(y)
          /\ i \in Nat /\ k <= Len(x) <=> k < i
      BY <1>1, <2>3, <2>4, <2>8
    <3>2. CASE k < i
      BY <2>3, <2>6, <3>1, <3>2
    <3>3. CASE ~(k < i)
      <4>1. k - Len(x) \in 1 .. Len(line) - i /\ i + (k - Len(x)) = k + 1
        BY <1>1, <2>8, <3>1, <3>3
      <4>2. q[k] = y[k - Len(x)]
        BY <2>6, <3>1, <3>3
      <4> QED BY <2>4, <3>3, <4>1, <4>2
    <3> QED BY <3>2, <3>3
  <2> QED BY <2>6, <2>7, <2>8
<1>3. \A k \in DOMAIN q : Formed(q[k])
  <2> TAKE k \in DOMAIN q
  <2>1. \E m \in DOMAIN line : q[k] = line[m]
    <3>1. CASE k < i
      BY <1>1, <1>2, <3>1
    <3>2. CASE ~(k < i)
      BY <1>1, <1>2, <3>2
    <3> QED BY <3>1, <3>2
  <2> QED BY <2>1 DEF GroupLine
<1>4. \A k, m \in DOMAIN q : k < m => Behind(q[k], q[m])
  <2> SUFFICES ASSUME NEW k \in DOMAIN q, NEW m \in DOMAIN q, k < m PROVE Behind(q[k], q[m])
    OBVIOUS
  <2>1. \E x, y \in DOMAIN line : x < y /\ q[k] = line[x] /\ q[m] = line[y]
    <3>1. CASE m < i
      BY <1>1, <1>2, <3>1
    <3>2. CASE k < i /\ ~(m < i)
      BY <1>1, <1>2, <3>2
    <3>3. CASE ~(k < i)
      BY <1>1, <1>2, <3>3
    <3> QED BY <3>1, <3>2, <3>3
  <2> QED BY <2>1 DEF GroupLine
<1>5. ASSUME NEW o PROVE (\E k \in DOMAIN q : q[k] = o) <=> Apart(i, o)
  <2>1. ASSUME NEW k \in DOMAIN q, q[k] = o PROVE Apart(i, o)
    BY <1>1, <1>2, <2>1 DEF Apart
  <2>2. ASSUME NEW j \in DOMAIN line, j # i, line[j] = o PROVE \E k \in DOMAIN q : q[k] = o
    <3>1. CASE j < i
      BY <1>1, <1>2, <2>2, <3>1
    <3>2. CASE j > i
      <4>1. j - 1 \in DOMAIN q /\ q[j - 1] = o
        BY <1>1, <1>2, <2>2, <3>2
      <4> QED BY <4>1
    <3> QED BY <1>1, <2>2, <3>1, <3>2
  <2> QED BY <2>1, <2>2 DEF Apart
<1> QED BY <1>2, <1>3, <1>4, <1>5

LEMMA ReturnKeepsLine ==
    ASSUME GroupLine, NEW i \in DOMAIN line, Return(i)
    PROVE  GroupLine' /\ \A o : InGroupLine(o)' <=> Apart(i, o)
<1>1. PICK q : q = RemoveAt(line, i)
  OBVIOUS
<1>2. line' = q
  BY <1>1 DEF Return
<1> QED BY <1>1, <1>2, RemovalKeepsGroupLine DEF GroupLine, InGroupLine

\* One that goes back to the end.
LEMMA RequeueKeepsGroupLine ==
    ASSUME GroupLine, NEW i \in DOMAIN line, NEW n \in GroupOps, Formed(n), ~Begun(n),
           n.verb = line[i].verb, n.on = line[i].on,
           line' = Append(RemoveAt(line, i), n)
    PROVE  GroupLine' /\ \A o : InGroupLine(o)' <=> o = n \/ Apart(i, o)
<1>1. PICK q : q = RemoveAt(line, i)
  OBVIOUS
<1>2. /\ q \in Seq(GroupOps) /\ Len(q) = Len(line) - 1
      /\ \A k \in DOMAIN q : Formed(q[k])
      /\ \A k, m \in DOMAIN q : k < m => Behind(q[k], q[m])
      /\ \A o : (\E k \in DOMAIN q : q[k] = o) <=> Apart(i, o)
  BY <1>1, RemovalKeepsGroupLine
<1>3. line' = Append(q, n)
  BY <1>1
<1>4. /\ line' \in Seq(GroupOps) /\ Len(line') = Len(q) + 1 /\ Len(q) \in Nat
      /\ DOMAIN q = 1 .. Len(q) /\ DOMAIN line' = 1 .. Len(q) + 1
      /\ line'[Len(q) + 1] = n /\ \A k \in 1 .. Len(q) : line'[k] = q[k]
  BY <1>2, <1>3
<1>5. \A k \in DOMAIN q : Behind(q[k], n)
  <2> TAKE k \in DOMAIN q
  <2>1. PICK j \in DOMAIN line : j # i /\ line[j] = q[k]
    BY <1>2 DEF Apart
  <2>2. ~(line[i].verb = "clone" /\ line[j].verb = "clone" /\ line[i].on = line[j].on)
    <3>1. CASE i < j
      BY <3>1 DEF GroupLine, Behind
    <3>2. CASE j < i
      BY <3>2 DEF GroupLine, Behind
    <3> QED BY <2>1, <3>1, <3>2 DEF GroupLine
  <2> QED BY <2>1, <2>2 DEF Behind
<1>6. \A k \in DOMAIN line' : Formed(line'[k])
  BY <1>2, <1>4
<1>7. \A k, m \in DOMAIN line' : k < m => Behind(line'[k], line'[m])
  <2> TAKE k, m \in DOMAIN line'
  <2>1. CASE k < m /\ m \in DOMAIN q
    BY <1>2, <1>4, <2>1
  <2>2. CASE k < m /\ m = Len(q) + 1
    BY <1>4, <1>5, <2>2
  <2> QED BY <1>4, <2>1, <2>2
<1>8. \A o : InGroupLine(o)' <=> o = n \/ Apart(i, o)
  <2> TAKE o
  <2>1. InGroupLine(o)' <=> o = n \/ \E k \in DOMAIN q : q[k] = o
    BY <1>4 DEF InGroupLine
  <2> QED BY <2>1, <1>2
<1> QED BY <1>4, <1>6, <1>7, <1>8 DEF GroupLine

\* What an operation that has its keys may take of the others.
LEMMA ApartFacts ==
    ASSUME GroupLine, NEW i \in DOMAIN line, NEW o, Apart(i, o)
    PROVE  /\ o \in GroupOps /\ Formed(o)
           /\ (Begun(line[i]) \/ Granted(i)) /\ Begun(o) => line[i].keys \cap o.keys = {}
           /\ ~(line[i].verb = "clone" /\ o.verb = "clone" /\ line[i].on = o.on)
<1>1. PICK j \in DOMAIN line : j # i /\ line[j] = o
  BY DEF Apart
<1>2. line \in Seq(GroupOps) /\ DOMAIN line = 1 .. Len(line) /\ Len(line) \in Nat
  BY DEF GroupLine
<1>3. o \in GroupOps /\ Formed(o)
  BY <1>1, <1>2 DEF GroupLine
<1>4. CASE j < i
  <2>1. Behind(o, line[i])
    BY <1>1, <1>4 DEF GroupLine
  <2>2. Granted(i) => line[i].keys \cap o.keys = {}
    BY <1>1, <1>2, <1>4 DEF Granted
  <2> QED BY <1>3, <2>1, <2>2 DEF Behind
<1>5. CASE i < j
  <2>1. Behind(line[i], o)
    BY <1>1, <1>5 DEF GroupLine
  <2> QED BY <1>3, <2>1 DEF Behind
<1> QED BY <1>1, <1>2, <1>4, <1>5

\* One that moves on under its keys.
LEMMA BecomeKeepsLine ==
    ASSUME GroupLine, NEW i \in DOMAIN line, Begun(line[i]) \/ Granted(i),
           NEW n \in GroupOps, Formed(n), Become(i, n),
           n.verb = line[i].verb, n.keys = line[i].keys, n.verb = "clone" => n.on = line[i].on
    PROVE  GroupLine' /\ \A o : InGroupLine(o)' <=> o = n \/ Apart(i, o)
<1>1. /\ line \in Seq(GroupOps) /\ DOMAIN line = 1 .. Len(line) /\ Len(line) \in Nat
      /\ line' \in Seq(GroupOps) /\ DOMAIN line' = DOMAIN line /\ Len(line') = Len(line)
      /\ line'[i] = n /\ \A j \in DOMAIN line : j # i => line'[j] = line[j]
  BY DEF GroupLine, Become
<1>2. \A j \in DOMAIN line' : Formed(line'[j])
  BY <1>1 DEF GroupLine
<1>3. ASSUME NEW j \in DOMAIN line, j # i
      PROVE  /\ j < i => Behind(line[j], n)
             /\ i < j => Behind(n, line[j])
  <2>1. Apart(i, line[j])
    BY <1>3 DEF Apart
  <2>2. /\ (Begun(line[i]) \/ Granted(i)) /\ Begun(line[j]) => line[i].keys \cap line[j].keys = {}
        /\ ~(line[i].verb = "clone" /\ line[j].verb = "clone" /\ line[i].on = line[j].on)
    BY <2>1, ApartFacts, Zenon
  <2>3. j < i => line[j].keys \cap line[i].keys = {}
    <3>1. CASE Begun(line[i])
      BY <1>3, <3>1 DEF GroupLine, Behind
    <3>2. CASE Granted(i)
      BY <1>1, <1>3, <3>2 DEF Granted
    <3> QED BY <3>1, <3>2
  <2> QED BY <2>2, <2>3 DEF Behind
<1>4. \A j, k \in DOMAIN line' : j < k => Behind(line'[j], line'[k])
  <2> TAKE j, k \in DOMAIN line'
  <2>1. CASE j < k /\ j = i
    BY <1>1, <1>3, <2>1
  <2>2. CASE j < k /\ k = i
    BY <1>1, <1>3, <2>2
  <2>3. CASE j < k /\ j # i /\ k # i
    BY <1>1, <2>3 DEF GroupLine
  <2> QED BY <2>1, <2>2, <2>3
<1>5. \A o : InGroupLine(o)' <=> o = n \/ Apart(i, o)
  BY <1>1 DEF InGroupLine, Apart
<1> QED BY <1>1, <1>2, <1>4, <1>5 DEF GroupLine
-------------------------------------------------------------------------------
\* What a step leaves to the others.

\* Nothing happens to the group of b but that its ceiling may change.
Same(b) ==
    /\ b \in live' <=> b \in live
    /\ b \in told' <=> b \in told
    /\ apps'[b] = apps[b]
    /\ boxes'[b] = None <=> boxes[b] = None
    /\ boxes[b] # None => boxes'[b].mount = boxes[b].mount /\ boxes'[b].state = boxes[b].state
    /\ \A v \in Volume : <<b, v>> \in bytes' <=> <<b, v>> \in bytes

\* A step touches one branch, under its key; the record under all keys, or where there is none.
Tidy(i) ==
    /\ \A b \in Branch : b # line[i].on \/ <<b, "branch">> \notin line[i].keys => Same(b)
    /\ record' # record =>
          /\ <<Main, "branch">> \in line[i].keys
          /\ record = None \/ \A b \in live : <<b, "branch">> \in line[i].keys
    /\ \A b \in live' : b \notin live => line[i].verb = "clone" /\ b = line[i].on

LEMMA SameIsUsed ==
    ASSUME NEW b, NEW v \in Volume, Same(b)
    PROVE  UsedOn(b, v)' <=> UsedOn(b, v)
BY DEF Same, UsedOn

LEMMA OthersStand ==
    ASSUME GroupInv, NEW i \in DOMAIN line, Begun(line[i]) \/ Granted(i), Tidy(i), live' \subseteq Branch,
           NEW o, Apart(i, o)
    PROVE  o \in GroupOps /\ Stands(o)'
<1>1. /\ o \in GroupOps /\ Formed(o) /\ Formed(line[i])
      /\ Begun(o) => line[i].keys \cap o.keys = {}
      /\ ~(line[i].verb = "clone" /\ o.verb = "clone" /\ line[i].on = o.on)
  BY ApartFacts DEF GroupInv, GroupLine
<1>2. BranchStands(o) /\ DeployStands(o) /\ RemovalStands(o)
  BY <1>1 DEF GroupInv, Apart, InGroupLine, Stands
<1>3. /\ live \subseteq Branch /\ Main \in live /\ Main \in Branch /\ o.on \in Branch
      /\ o.volume \in Volume \cup {None}
  BY <1>1, GroupAssumption DEF GroupInv, GroupStore, GroupOps
<1>4. ASSUME AtWork(o)
      PROVE  Same(o.on) /\ o.on \in live /\ <<o.on, "branch">> \in o.keys
  <2>1. Begun(o) /\ o.on \in live /\ <<o.on, "branch">> \in o.keys
    BY <1>2, <1>4 DEF BranchStands, AtWork, Begun
  <2>2. <<o.on, "branch">> \notin line[i].keys
    BY <1>1, <2>1
  <2> QED BY <1>3, <2>1, <2>2 DEF Tidy
<1>5. BranchStands(o)'
  <2>1. AtWork(o) => o.on \in live' /\ <<o.on, "branch">> \in o.keys
    BY <1>4 DEF Same
  <2>2. o.verb = "clone" /\ o.pc = "queued" => o.on \notin live'
    BY <1>1, <1>2 DEF BranchStands, Tidy
  <2> QED BY <2>1, <2>2 DEF BranchStands, AtWork
<1>6. DeployStands(o)'
  <2>1. ASSUME o.pc = "deploying", o.verb # "detach" PROVE o.mount \in {None, record'}
    <3>1. AtWork(o) /\ Begun(o) /\ o.mount \in {None, record}
      BY <1>2, <2>1 DEF AtWork, Begun, DeployStands
    <3>2. record' # record => record = None
      BY <1>1, <1>4, <3>1 DEF Tidy
    <3> QED BY <3>1, <3>2
  <2>2. /\ o.pc \in {"deploying", "fork", "reassert", "starting"} =>
              /\ apps'[o.on] = apps[o.on]
              /\ boxes[o.on] # None => boxes'[o.on] # None
              /\ \A v \in Volume : <<o.on, v>> \in bytes' <=> <<o.on, v>> \in bytes
    BY <1>4 DEF AtWork, Same
  <2> QED BY <1>2, <2>1, <2>2 DEF DeployStands
<1>7. RemovalStands(o)'
  <2> SUFFICES ASSUME o.verb = "detach", Begun(o)
               PROVE  /\ record' = None /\ o.mount = None
                      /\ \A b \in live' : <<b, "branch">> \in o.keys
                      /\ \A b \in o.todo : b \in live' /\ apps'[b] # None
                      /\ o.pc \in {"reassert", "bytes"} /\ boxes'[o.on] # None => boxes'[o.on].mount = None
                      /\ ~o.failed => \A b \in live' : UsedOn(b, o.volume)' => b \in o.todo \/ b = o.on
    BY DEF RemovalStands, Begun
  <2>1. /\ record = None /\ o.mount = None
        /\ \A b \in live : <<b, "branch">> \in o.keys
        /\ \A b \in o.todo : b \in live /\ apps[b] # None
        /\ o.pc \in {"reassert", "bytes"} /\ boxes[o.on] # None => boxes[o.on].mount = None
        /\ ~o.failed => \A b \in live : UsedOn(b, o.volume) => b \in o.todo \/ b = o.on
    BY <1>2 DEF RemovalStands
  <2>2. \A b \in live : <<b, "branch">> \notin line[i].keys /\ Same(b)
    BY <1>1, <1>3, <2>1 DEF Tidy
  <2>3. <<Main, "branch">> \notin line[i].keys
    BY <1>3, <2>2
  <2>4. record' = None
    BY <2>1, <2>3 DEF Tidy
  <2>5. \A b \in live' : b \in live
    BY <1>1, <2>3 DEF Tidy, Formed
  <2>6. o.volume \in Volume
    BY <1>1, <1>3 DEF Formed
  <2>7. \A b \in live' : UsedOn(b, o.volume)' => UsedOn(b, o.volume)
    BY <2>2, <2>5, <2>6, SameIsUsed
  <2>8. \A b \in o.todo : b \in live' /\ apps'[b] # None
    BY <2>1, <2>2 DEF Same
  <2>9. o.pc \in {"reassert", "bytes"} /\ boxes'[o.on] # None => boxes'[o.on].mount = None
    BY <1>4, <2>1 DEF AtWork, Same
  <2> QED BY <2>1, <2>4, <2>5, <2>7, <2>8, <2>9
<1> QED BY <1>1, <1>5, <1>6, <1>7 DEF Stands

\* The line moves and nothing else does.
LEMMA LineStepKeeps ==
    ASSUME GroupInv, UNCHANGED <<live, record, stored, apps, boxes, bytes, told>>, GroupLine',
           NEW N, \A n \in N : n \in GroupOps => Stands(n)',
           \A o : InGroupLine(o)' => o \in N \/ InGroupLine(o),
           \A o : InGroupLine(o) /\ Begun(o) => InGroupLine(o)'
    PROVE  GroupInv'
<1>1. GroupStore'
  BY DEF GroupInv, GroupStore
<1>2. \A o \in GroupOps : InGroupLine(o)' => Stands(o)'
  <2> SUFFICES ASSUME NEW o \in GroupOps, InGroupLine(o)' PROVE Stands(o)'
    OBVIOUS
  <2>1. CASE o \in N
    BY <2>1
  <2>2. CASE InGroupLine(o)
    <3>1. Stands(o)
      BY <2>2 DEF GroupInv
    <3> QED BY <3>1 DEF Stands, BranchStands, DeployStands, RemovalStands, AtWork, Begun, UsedOn
  <2> QED BY <2>1, <2>2
<1>3. \A v : VolumeNamed(v) => v = None \/ VolumeNamed(v)'
  <2> SUFFICES ASSUME NEW v, v # None, NEW o \in GroupOps, InGroupLine(o), o.volume = v PROVE InGroupLine(o)'
    BY DEF VolumeNamed
  <2>1. Formed(o)
    BY DEF GroupInv, GroupLine, InGroupLine
  <2> QED BY <2>1 DEF Formed
<1>4. AllNamed'
  <2>1. AllNamed
    BY DEF GroupInv
  <2> QED BY <1>3, <2>1, GroupAssumption DEF AllNamed, UsedOn
<1>5. ASSUME NEW b \in Branch PROVE BranchFine(b)'
  <2>1. BranchFine(b)
    BY DEF GroupInv
  <2>2. Cloned(b) => Cloned(b)'
    BY DEF Cloned, Begun
  <2>3. Reasserted(b) => Reasserted(b)'
    BY DEF Reasserted, Begun
  <2> QED BY <2>1, <2>2, <2>3 DEF BranchFine, Intent
<1> QED BY <1>1, <1>2, <1>4, <1>5 DEF GroupInv

\* What a step of an operation that has its keys has to show.
LEMMA WorkKeeps ==
    ASSUME GroupInv, NEW i \in DOMAIN line, Begun(line[i]) \/ Granted(i), Tidy(i),
           NEW at, at = line[i].on, NEW N, GroupLine', \A o : InGroupLine(o)' <=> o \in N \/ Apart(i, o),
           \A n \in N : n \in GroupOps => Stands(n)',
           GroupStore', AllNamed', BranchFine(at)'
    PROVE  GroupInv'
<1>1. \A o \in GroupOps : InGroupLine(o)' => Stands(o)'
  BY OthersStand DEF GroupStore
<1>2. ASSUME NEW b \in Branch, b # at PROVE BranchFine(b)'
  <2>1. BranchFine(b) /\ Same(b)
    BY <1>2 DEF GroupInv, Tidy
  <2>2. Cloned(b) => Cloned(b)'
    <3> SUFFICES ASSUME NEW o \in GroupOps, InGroupLine(o), o.verb = "clone", Begun(o), o.on = b
                 PROVE  InGroupLine(o)'
      BY DEF Cloned, Begun
    <3>1. o # line[i]
      BY <1>2
    <3> QED BY <3>1 DEF InGroupLine, Apart
  <2>3. Reasserted(b) => Reasserted(b)'
    <3> SUFFICES ASSUME NEW o \in GroupOps, InGroupLine(o), o.pc = "reassert", o.on = b
                 PROVE  InGroupLine(o)'
      BY DEF Reasserted
    <3>1. o # line[i]
      BY <1>2
    <3> QED BY <3>1 DEF InGroupLine, Apart
  <2> QED BY <2>1, <2>2, <2>3 DEF BranchFine, Same, Intent
<1> QED BY <1>1, <1>2 DEF GroupInv

\* One that leaves the volumes with what names them.
LEMMA PlainStepKeeps ==
    ASSUME GroupInv, NEW i \in DOMAIN line, Begun(line[i]) \/ Granted(i), Tidy(i),
           NEW at, at = line[i].on, NEW N, GroupLine', \A o : InGroupLine(o)' <=> o \in N \/ Apart(i, o),
           \A n \in N : n \in GroupOps => Stands(n)',
           GroupStore', BranchFine(at)',
           \/ line[i].volume = None
           \/ \E n \in N : n \in GroupOps /\ n.volume = line[i].volume,
           record' = record \/ record = None,
           \A v \in Volume : UsedOn(at, v)' => UsedOn(at, v) \/ VolumeNamed(v)
    PROVE  GroupInv'
<1>1. \A v \in Volume : VolumeNamed(v) => VolumeNamed(v)'
  <2> SUFFICES ASSUME NEW v \in Volume, VolumeNamed(v) PROVE VolumeNamed(v)'
    OBVIOUS
  <2>1. CASE record = v
    BY <2>1, GroupAssumption DEF VolumeNamed
  <2>2. ASSUME NEW o \in GroupOps, InGroupLine(o), o.volume = v PROVE VolumeNamed(v)'
    <3>1. CASE o # line[i]
      <4>1. InGroupLine(o)'
        BY <2>2, <3>1 DEF InGroupLine, Apart
      <4> QED BY <2>2, <4>1 DEF VolumeNamed
    <3>2. CASE o = line[i]
      <4>1. PICK n \in N : n \in GroupOps /\ n.volume = v
        BY <2>2, <3>2, GroupAssumption
      <4>2. InGroupLine(n)'
        BY <4>1
      <4> QED BY <4>1, <4>2 DEF VolumeNamed
    <3> QED BY <3>1, <3>2
  <2> QED BY <2>1, <2>2 DEF VolumeNamed
<1>2. AllNamed'
  <2> SUFFICES ASSUME NEW b \in Branch, NEW v \in Volume, UsedOn(b, v)' PROVE VolumeNamed(v)'
    BY DEF AllNamed
  <2>1. CASE b = at
    BY <1>1, <2>1 DEF GroupInv, AllNamed
  <2>2. CASE b # at
    BY <1>1, <2>2, SameIsUsed DEF GroupInv, AllNamed, Tidy
  <2> QED BY <2>1, <2>2
<1> QED BY <1>2, WorkKeeps
-------------------------------------------------------------------------------
\* The calls.

LEMMA KeysTyped ==
    ASSUME GroupInv
    PROVE  /\ \A b \in Branch : KeysOf(b) \subseteq Keys /\ CloneKeys(b) \subseteq Keys
           /\ \A b \in Branch : <<b, "branch">> \in KeysOf(b) /\ {<<b, "branch">>, <<Main, "branch">>} \subseteq CloneKeys(b)
           /\ AllKeys \subseteq Keys /\ \A b \in live : <<b, "branch">> \in AllKeys
           /\ GroupKeys(live) \subseteq Keys
BY GroupAssumption DEF GroupInv, GroupStore, Keys, KeysOf, CloneKeys, AllKeys, GroupKeys

LEMMA EntryKeeps ==
    ASSUME GroupInv, UNCHANGED <<live, record, stored, apps, boxes, bytes, told>>,
           NEW n \in GroupOps, Enter(n), Formed(n), ~Begun(n),
           n.verb = "clone" =>
               /\ n.on \notin live
               /\ \A i \in DOMAIN line : ~(line[i].verb = "clone" /\ line[i].on = n.on)
    PROVE  GroupInv'
<1>1. GroupLine
  BY DEF GroupInv
<1>2. \A i \in DOMAIN line : Behind(line[i], n)
  BY DEF Behind
<1>3. GroupLine' /\ \A o : InGroupLine(o)' <=> o = n \/ InGroupLine(o)
  BY <1>1, <1>2, EntryKeepsLine
<1>4. Stands(n)'
  BY DEF Stands, BranchStands, DeployStands, RemovalStands, AtWork, Begun
<1> DEFINE N == {n}
<1>5. \A o \in N : o \in GroupOps => Stands(o)'
  BY <1>4
<1>6. \A o : InGroupLine(o)' => o \in N \/ InGroupLine(o)
  BY <1>3
<1>7. \A o : InGroupLine(o) /\ Begun(o) => InGroupLine(o)'
  BY <1>3
<1> HIDE DEF N
<1> QED BY <1>3, <1>5, <1>6, <1>7, LineStepKeeps

LEMMA AskKeeps == ASSUME GroupInv, NEW verb \in Verb, NEW b \in Branch, Ask(verb, b) PROVE GroupInv'
<1>1. UNCHANGED <<live, record, stored, apps, boxes, bytes, told>>
  BY DEF Ask
<1>2. GroupStore /\ Main \in Branch
  BY GroupAssumption DEF GroupInv
<1>3. ASSUME verb = "clone", b \notin live, \A i \in DOMAIN line : ~(line[i].verb = "clone" /\ line[i].on = b),
             Enter([Idle EXCEPT !.verb = verb, !.on = b, !.keys = CloneKeys(b)])
      PROVE  GroupInv'
  <2> DEFINE n == [Idle EXCEPT !.verb = verb, !.on = b, !.keys = CloneKeys(b)]
  <2>1. /\ n \in GroupOps /\ n.verb = verb /\ n.on = b /\ n.keys = CloneKeys(b) /\ n.pc = "queued"
        /\ n.volume = None
    BY <1>2, KeysTyped DEF Idle, GroupOps, GroupPcs
  <2>2. b # Main
    BY <1>2, <1>3 DEF GroupStore
  <2>3. Formed(n) /\ ~Begun(n)
    BY <1>3, <2>1, <2>2, KeysTyped DEF Formed, Begun, OneBranch
  <2> QED BY <1>1, <1>3, <2>1, <2>3, EntryKeeps
<1>4. ASSUME verb \in {"attach", "detach"}, Enter([Idle EXCEPT !.verb = verb, !.keys = AllKeys])
      PROVE  GroupInv'
  <2> DEFINE n == [Idle EXCEPT !.verb = verb, !.keys = AllKeys]
  <2>1. n \in GroupOps /\ n.verb = verb /\ n.keys = AllKeys /\ n.pc = "queued" /\ n.volume = None
    BY <1>2, KeysTyped DEF Idle, GroupOps, GroupPcs
  <2>2. Formed(n) /\ ~Begun(n)
    BY <1>2, <1>4, <2>1, KeysTyped DEF Formed, Begun, OneBranch, GroupStore
  <2> QED BY <1>1, <1>4, <2>1, <2>2, EntryKeeps
<1>5. ASSUME verb = "deploy", NEW image \in Image,
             Enter([Idle EXCEPT !.verb = verb, !.on = b, !.arg = image, !.keys = KeysOf(b)])
      PROVE  GroupInv'
  <2> DEFINE n == [Idle EXCEPT !.verb = verb, !.on = b, !.arg = image, !.keys = KeysOf(b)]
  <2>1. /\ n \in GroupOps /\ n.verb = verb /\ n.on = b /\ n.arg = image /\ n.keys = KeysOf(b)
        /\ n.pc = "queued" /\ n.volume = None
    BY <1>2, KeysTyped DEF Idle, GroupOps, GroupPcs
  <2>2. Formed(n) /\ ~Begun(n)
    BY <1>5, <2>1, KeysTyped DEF Formed, Begun, OneBranch
  <2> QED BY <1>1, <1>5, <2>1, <2>2, EntryKeeps
<1>6. ASSUME verb \in {"restart", "start", "stop", "suspend"}, apps[b] # None,
             Enter([Idle EXCEPT !.verb = verb, !.on = b, !.arg = apps[b].image, !.keys = KeysOf(b)])
      PROVE  GroupInv'
  <2> DEFINE n == [Idle EXCEPT !.verb = verb, !.on = b, !.arg = apps[b].image, !.keys = KeysOf(b)]
  <2>1. apps[b].image \in Image
    BY <1>2, <1>6 DEF GroupStore, Apps
  <2>2. /\ n \in GroupOps /\ n.verb = verb /\ n.on = b /\ n.keys = KeysOf(b)
        /\ n.pc = "queued" /\ n.volume = None
    BY <1>2, <2>1, KeysTyped DEF Idle, GroupOps, GroupPcs
  <2>3. Formed(n) /\ ~Begun(n)
    BY <1>6, <2>2, KeysTyped DEF Formed, Begun, OneBranch
  <2> QED BY <1>1, <1>6, <2>2, <2>3, EntryKeeps
<1>7. ASSUME verb = "delete", b # Main, Enter([Idle EXCEPT !.verb = verb, !.on = b, !.keys = KeysOf(b)])
      PROVE  GroupInv'
  <2> DEFINE n == [Idle EXCEPT !.verb = verb, !.on = b, !.keys = KeysOf(b)]
  <2>1. /\ n \in GroupOps /\ n.verb = verb /\ n.on = b /\ n.keys = KeysOf(b)
        /\ n.pc = "queued" /\ n.volume = None
    BY <1>2, KeysTyped DEF Idle, GroupOps, GroupPcs
  <2>2. Formed(n) /\ ~Begun(n)
    BY <1>7, <2>1, KeysTyped DEF Formed, Begun, OneBranch
  <2> QED BY <1>1, <1>7, <2>1, <2>2, EntryKeeps
<1> QED BY <1>3, <1>4, <1>5, <1>6, <1>7 DEF Ask

LEMMA AskResizeKeeps == ASSUME GroupInv, NEW c \in Ceiling, AskResize(c) PROVE GroupInv'
<1> DEFINE n == [Idle EXCEPT !.verb = "resize", !.arg = c, !.keys = GroupKeys(live), !.todo = live,
                             !.changed = stored # c]
<1>1. GroupStore /\ Main \in Branch
  BY GroupAssumption DEF GroupInv
<1>2. /\ n \in GroupOps /\ n.verb = "resize" /\ n.arg = c /\ n.pc = "queued" /\ n.volume = None
  BY <1>1, KeysTyped DEF Idle, GroupOps, GroupPcs, GroupStore, Verb
<1>3. Formed(n) /\ ~Begun(n)
  BY <1>2 DEF Formed, Begun, OneBranch
<1> QED BY <1>2, <1>3, EntryKeeps DEF AskResize

LEMMA AskMergeKeeps == ASSUME GroupInv, NEW b \in Branch, AskMerge(b) PROVE GroupInv'
<1> DEFINE n == [Idle EXCEPT !.verb = "merge", !.on = b, !.arg = apps[Main].image, !.pc = "adding"]
<1>1. GroupStore /\ Main \in Branch
  BY GroupAssumption DEF GroupInv
<1>2. apps[Main].image \in Image
  BY <1>1 DEF AskMerge, GroupStore, Apps
<1>3. /\ n \in GroupOps /\ n.verb = "merge" /\ n.arg \in Image /\ n.pc = "adding" /\ n.volume = None
  BY <1>1, <1>2 DEF Idle, GroupOps, GroupPcs, Verb
<1>4. Formed(n) /\ ~Begun(n)
  BY <1>3 DEF Formed, Begun, OneBranch
<1> QED BY <1>3, <1>4, EntryKeeps DEF AskMerge

\* What goes back to the line, or leaves it before its turn, leaves the rest alone.
LEMMA RequeueKeeps ==
    ASSUME GroupInv, UNCHANGED <<live, record, stored, apps, boxes, bytes, told>>,
           NEW i \in DOMAIN line, ~Begun(line[i]),
           NEW n \in GroupOps, Formed(n), n.pc = "queued", n.verb = line[i].verb, n.on = line[i].on,
           n.verb = "clone" => n.on \notin live,
           line' = Append(RemoveAt(line, i), n)
    PROVE  GroupInv'
<1>1. GroupLine' /\ \A o : InGroupLine(o)' <=> o = n \/ Apart(i, o)
  BY RequeueKeepsGroupLine DEF GroupInv, Begun
<1>2. Stands(n)'
  BY DEF Stands, BranchStands, DeployStands, RemovalStands, AtWork, Begun
<1> DEFINE N == {n}
<1>3. \A o \in N : o \in GroupOps => Stands(o)'
  BY <1>2
<1>4. \A o : InGroupLine(o)' => o \in N \/ InGroupLine(o)
  BY <1>1 DEF InGroupLine, Apart
<1>5. \A o : InGroupLine(o) /\ Begun(o) => InGroupLine(o)'
  BY <1>1 DEF InGroupLine, Apart
<1> HIDE DEF N
<1> QED BY <1>1, <1>3, <1>4, <1>5, LineStepKeeps

LEMMA NothingDoneKeeps ==
    ASSUME GroupInv, UNCHANGED <<live, record, stored, apps, boxes, bytes, told>>,
           NEW i \in DOMAIN line, ~Begun(line[i]), Return(i)
    PROVE  GroupInv'
<1>1. GroupLine' /\ \A o : InGroupLine(o)' <=> Apart(i, o)
  BY ReturnKeepsLine DEF GroupInv
<1> DEFINE N == {}
<1>2. \A o \in N : o \in GroupOps => Stands(o)'
  OBVIOUS
<1>3. \A o : InGroupLine(o)' => o \in N \/ InGroupLine(o)
  BY <1>1 DEF InGroupLine, Apart
<1>4. \A o : InGroupLine(o) /\ Begun(o) => InGroupLine(o)'
  BY <1>1 DEF InGroupLine, Apart
<1> HIDE DEF N
<1> QED BY <1>1, <1>2, <1>3, <1>4, LineStepKeeps

\* One that begins.
LEMMA BeginKeeps ==
    ASSUME GroupInv, UNCHANGED <<live, record, stored, apps, boxes, bytes, told>>,
           NEW i \in DOMAIN line, ~Begun(line[i]), Granted(i),
           NEW n \in GroupOps, Formed(n), n.verb = line[i].verb, n.keys = line[i].keys,
           n.verb = "clone" => n.on = line[i].on, Become(i, n), Stands(n)'
    PROVE  GroupInv'
<1>1. GroupLine' /\ \A o : InGroupLine(o)' <=> o = n \/ Apart(i, o)
  BY BecomeKeepsLine DEF GroupInv
<1> DEFINE N == {n}
<1>2. \A o \in N : o \in GroupOps => Stands(o)'
  OBVIOUS
<1>3. \A o : InGroupLine(o)' => o \in N \/ InGroupLine(o)
  BY <1>1 DEF InGroupLine, Apart
<1>4. \A o : InGroupLine(o) /\ Begun(o) => InGroupLine(o)'
  BY <1>1 DEF InGroupLine, Apart
<1> HIDE DEF N
<1> QED BY <1>1, <1>2, <1>3, <1>4, LineStepKeeps

LEMMA MergeDeploysKeeps == ASSUME GroupInv, NEW i \in DOMAIN line, MergeDeploys(i) PROVE GroupInv'
<1> DEFINE n == [line[i] EXCEPT !.pc = "queued", !.keys = KeysOf(line[i].on)]
<1>1. line[i] \in GroupOps /\ Formed(line[i]) /\ line[i].verb = "merge" /\ line[i].pc = "adding"
  BY DEF GroupInv, GroupLine, MergeDeploys, At
<1>2. KeysOf(line[i].on) \subseteq Keys /\ <<line[i].on, "branch">> \in KeysOf(line[i].on)
  BY <1>1, KeysTyped DEF GroupOps
<1>3. /\ n \in GroupOps /\ n.verb = "merge" /\ n.on = line[i].on /\ n.keys = KeysOf(line[i].on)
      /\ n.pc = "queued" /\ n.volume = line[i].volume /\ n.arg = line[i].arg
  BY <1>1, <1>2 DEF GroupOps, GroupPcs
<1>4. Formed(n) /\ ~Begun(line[i])
  BY <1>1, <1>2, <1>3 DEF Formed, Begun, OneBranch
<1> QED BY <1>1, <1>3, <1>4, RequeueKeeps DEF MergeDeploys
-------------------------------------------------------------------------------
\* A branch and the operation that has its key.

LEMMA OpFacts ==
    ASSUME GroupInv, NEW i \in DOMAIN line
    PROVE  /\ line[i] \in GroupOps /\ Formed(line[i]) /\ Stands(line[i])
           /\ line[i].on \in Branch /\ GroupStore /\ BranchFine(line[i].on)
           /\ Main \in Branch /\ Main \in live /\ None \notin Apps \cup Boxes \cup Volume
<1>1. line[i] \in GroupOps
  BY DEF GroupInv, GroupLine
<1>2. Formed(line[i]) /\ Stands(line[i])
  BY <1>1 DEF GroupInv, GroupLine, InGroupLine
<1> QED BY <1>1, <1>2, GroupAssumption DEF GroupInv, GroupStore, GroupOps

LEMMA MineAlone ==
    ASSUME GroupInv, NEW i \in DOMAIN line, Begun(line[i]) \/ Granted(i),
           NEW b \in Branch, <<b, "branch">> \in line[i].keys
    PROVE  /\ \A v \in Volume : <<b, v>> \in bytes =>
                  apps[b] # None \/ (line[i].verb = "clone" /\ Begun(line[i]) /\ line[i].on = b)
           /\ b \in live /\ boxes[b] # None /\ boxes[b].state = "up" /\ Intent(b) # "running" =>
                  b \in told \/ line[i].pc = "reassert"
<1>1. BranchFine(b)
  BY DEF GroupInv
<1>2. ASSUME NEW o \in GroupOps, InGroupLine(o), o # line[i] PROVE ~(AtWork(o) /\ o.on = b)
  <2>1. Apart(i, o)
    BY <1>2 DEF InGroupLine, Apart
  <2>2. Begun(o) => line[i].keys \cap o.keys = {}
    BY <2>1, ApartFacts DEF GroupInv
  <2>3. AtWork(o) => Begun(o) /\ <<o.on, "branch">> \in o.keys
    BY <1>2 DEF AtWork, Begun, GroupInv, Stands, BranchStands
  <2> QED BY <2>2, <2>3
<1>3. ASSUME Cloned(b) PROVE line[i].verb = "clone" /\ Begun(line[i]) /\ line[i].on = b
  <2>1. PICK o \in GroupOps : InGroupLine(o) /\ o.verb = "clone" /\ Begun(o) /\ o.on = b
    BY <1>3 DEF Cloned
  <2>2. Formed(o)
    BY <2>1 DEF GroupInv, GroupLine, InGroupLine
  <2>3. AtWork(o)
    BY <2>1, <2>2 DEF Formed, Begun, AtWork, GroupOps, GroupPcs
  <2> QED BY <1>2, <2>1, <2>3
<1>4. Reasserted(b) => line[i].pc = "reassert"
  BY <1>2 DEF Reasserted, AtWork
<1> QED BY <1>1, <1>3, <1>4 DEF BranchFine

\* What its branch has to show behind a step.
LEMMA FineAfter ==
    ASSUME NEW i, NEW N, \A o : InGroupLine(o)' <=> o \in N \/ Apart(i, o), NEW b \in Branch,
           b \notin live' => apps'[b] = None /\ boxes'[b] = None /\ \A v \in Volume : <<b, v>> \notin bytes',
           \A v \in Volume : <<b, v>> \in bytes' =>
               apps'[b] # None \/ \E n \in N : n \in GroupOps /\ n.verb = "clone" /\ Begun(n) /\ n.on = b,
           b \in live' /\ boxes'[b] # None /\ boxes'[b].state = "up" /\ Intent(b)' # "running" =>
               b \in told' \/ \E n \in N : n \in GroupOps /\ n.pc = "reassert" /\ n.on = b
    PROVE  BranchFine(b)'
<1>1. (\E n \in N : n \in GroupOps /\ n.verb = "clone" /\ Begun(n) /\ n.on = b) => Cloned(b)'
  BY DEF Cloned, Begun
<1>2. (\E n \in N : n \in GroupOps /\ n.pc = "reassert" /\ n.on = b) => Reasserted(b)'
  BY DEF Reasserted
<1> QED BY <1>1, <1>2 DEF BranchFine

\* A branch that nothing happens to is as fine as it was.
LEMMA SameIsFine ==
    ASSUME GroupInv, NEW i \in DOMAIN line, NEW N, \A o : InGroupLine(o)' <=> o \in N \/ Apart(i, o),
           NEW b \in Branch, Same(b), line[i].pc # "reassert", line[i].verb # "clone"
    PROVE  BranchFine(b)'
<1>1. BranchFine(b)
  BY DEF GroupInv
<1>2. Cloned(b) => Cloned(b)'
  <2> SUFFICES ASSUME NEW o \in GroupOps, InGroupLine(o), o.verb = "clone", Begun(o), o.on = b
               PROVE  InGroupLine(o)'
    BY DEF Cloned, Begun
  <2> QED BY DEF InGroupLine, Apart
<1>3. Reasserted(b) => Reasserted(b)'
  <2> SUFFICES ASSUME NEW o \in GroupOps, InGroupLine(o), o.pc = "reassert", o.on = b
               PROVE  InGroupLine(o)'
    BY DEF Reasserted
  <2> QED BY DEF InGroupLine, Apart
<1> QED BY <1>1, <1>2, <1>3 DEF BranchFine, Same, Intent

LEMMA DeployingFields ==
    ASSUME GroupStore, NEW op \in GroupOps, NEW b \in Branch, NEW image \in Image
    PROVE  LET n == Deploying(op, b, image) IN
              /\ n \in GroupOps /\ n.pc = "deploying" /\ n.on = b /\ n.image = image
              /\ n.mount = record /\ n.ceiling = stored /\ n.verb = op.verb /\ n.keys = op.keys
              /\ n.arg = op.arg /\ n.todo = op.todo /\ n.volume = op.volume /\ n.failed = op.failed
BY DEF GroupStore, GroupOps, GroupPcs, Deploying

-------------------------------------------------------------------------------
\* What deploys of its own accord.

LEMMA DeployBegins ==
    ASSUME GroupInv, NEW i \in DOMAIN line, line[i].pc = "queued", Granted(i),
           line[i].verb \in {"restart", "deploy", "merge"}, line[i].on \in live,
           NEW image \in Image, Become(i, Deploying(line[i], line[i].on, image)),
           line[i].verb = "restart" => apps[line[i].on] # None /\ apps[line[i].on].image = image,
           UNCHANGED <<live, record, stored, apps, boxes, bytes, told>>
    PROVE  GroupInv'
<1> DEFINE n == Deploying(line[i], line[i].on, image)
<1>1. line[i] \in GroupOps /\ Formed(line[i]) /\ line[i].on \in Branch /\ GroupStore
  BY OpFacts
<1>2. /\ n \in GroupOps /\ n.pc = "deploying" /\ n.on = line[i].on /\ n.image = image
      /\ n.mount = record /\ n.verb = line[i].verb /\ n.keys = line[i].keys
      /\ n.arg = line[i].arg /\ n.volume = line[i].volume
  BY <1>1, DeployingFields
<1>3. PICK m : m = n
  OBVIOUS
<1>4. Formed(m)
  BY <1>1, <1>2, <1>3 DEF Formed, Begun, Deployers, OneBranch
<1>5. m.on \in live /\ <<m.on, "branch">> \in m.keys
  BY <1>1, <1>2, <1>3 DEF Formed, OneBranch
<1>6. Stands(m)'
  BY <1>2, <1>3, <1>5 DEF Stands, BranchStands, DeployStands, RemovalStands, AtWork
<1>7. ~Begun(line[i]) /\ Become(i, m) /\ m \in GroupOps /\ m.verb = line[i].verb /\ m.keys = line[i].keys
      /\ m.on = line[i].on
  BY <1>2, <1>3 DEF Begun
<1> QED BY <1>4, <1>6, <1>7, BeginKeeps

LEMMA RestartKeeps == ASSUME GroupInv, NEW i \in DOMAIN line, Restart(i) PROVE GroupInv'
<1>1. UNCHANGED <<live, record, stored, apps, boxes, bytes, told>>
  BY DEF Restart
<1>2. line[i].pc = "queued" /\ Granted(i) /\ line[i].verb = "restart" /\ ~Begun(line[i])
  BY DEF Restart, Turn, Begun
<1>3. CASE Return(i)
  BY <1>1, <1>2, <1>3, NothingDoneKeeps
<1>4. CASE ~Return(i)
  <2>1. /\ line[i].on \in live /\ apps[line[i].on] # None
        /\ Become(i, Deploying(line[i], line[i].on, apps[line[i].on].image))
    BY <1>4 DEF Restart
  <2>2. apps[line[i].on].image \in Image
    BY <2>1, OpFacts DEF GroupStore, Apps
  <2> QED BY <1>1, <1>2, <2>1, <2>2, DeployBegins
<1> QED BY <1>3, <1>4

LEMMA StartDeployKeeps == ASSUME GroupInv, NEW i \in DOMAIN line, StartDeploy(i) PROVE GroupInv'
<1>1. UNCHANGED <<live, record, stored, apps, boxes, bytes, told>>
  BY DEF StartDeploy
<1>2. line[i].pc = "queued" /\ Granted(i) /\ line[i].verb \in {"deploy", "merge"} /\ ~Begun(line[i])
  BY DEF StartDeploy, Turn, Begun
<1>3. CASE Return(i)
  BY <1>1, <1>2, <1>3, NothingDoneKeeps
<1>4. CASE ~Return(i)
  <2>1. line[i].on \in live /\ Become(i, Deploying(line[i], line[i].on, line[i].arg))
    BY <1>4 DEF StartDeploy
  <2>2. line[i].arg \in Image
    BY <1>2, OpFacts DEF Formed
  <2> QED BY <1>1, <1>2, <2>1, <2>2, DeployBegins
<1> QED BY <1>3, <1>4
-------------------------------------------------------------------------------
\* The ceiling and the volume on record.

LEMMA AttachKeeps == ASSUME GroupInv, NEW i \in DOMAIN line, Attach(i) PROVE GroupInv'
<1>1. /\ UNCHANGED <<live, stored, apps, boxes, bytes, told>> /\ Return(i)
      /\ line[i].pc = "queued" /\ Granted(i) /\ line[i].verb = "attach" /\ ~Begun(line[i])
  BY DEF Attach, Turn, Begun
<1>2. CASE record # None
  BY <1>1, <1>2, NothingDoneKeeps DEF Attach
<1>3. CASE record = None
  <2>1. record' \in Volume
    BY <1>3 DEF Attach
  <2>2. line[i].on \in Branch /\ GroupStore /\ <<Main, "branch">> \in line[i].keys /\ line[i].volume = None
    BY <1>1, OpFacts DEF Formed
  <2>3. \A b \in Branch : Same(b)
    BY <1>1 DEF Same
  <2>4. Tidy(i)
    BY <1>1, <1>3, <2>2, <2>3 DEF Tidy
  <2> DEFINE N == {}
  <2>5. GroupLine' /\ \A o : InGroupLine(o)' <=> o \in N \/ Apart(i, o)
    BY <1>1, ReturnKeepsLine DEF GroupInv
  <2>6. PICK at \in Branch : at = line[i].on
    BY <2>2
  <2>7. \A n \in N : n \in GroupOps => Stands(n)'
    OBVIOUS
  <2>8. GroupStore'
    BY <1>1, <2>1, <2>2 DEF GroupStore
  <2>9. \A v \in Volume : UsedOn(at, v)' => UsedOn(at, v) \/ VolumeNamed(v)
    BY <2>3, SameIsUsed
  <2> HIDE DEF N
  <2>10. BranchFine(at)'
    BY <1>1, <2>3, <2>5, SameIsFine
  <2> QED BY <1>1, <1>3, <2>2, <2>4, <2>5, <2>6, <2>7, <2>8, <2>9, <2>10, PlainStepKeeps
<1> QED BY <1>2, <1>3

LEMMA StartResizeKeeps == ASSUME GroupInv, NEW i \in DOMAIN line, StartResize(i) PROVE GroupInv'
<1>1. PICK n : n = [line[i] EXCEPT !.pc = "updating"]
  OBVIOUS
<1>2. /\ UNCHANGED <<live, record, stored, apps, boxes, bytes, told>> /\ Become(i, n)
      /\ line[i].pc = "queued" /\ Granted(i) /\ line[i].verb = "resize" /\ ~Begun(line[i])
  BY <1>1 DEF StartResize, Turn, Begun
<1>3. line[i] \in GroupOps /\ Formed(line[i])
  BY OpFacts
<1>4. /\ n \in GroupOps /\ n.pc = "updating" /\ n.verb = "resize" /\ n.keys = line[i].keys
      /\ n.arg = line[i].arg /\ n.volume = line[i].volume /\ n.on = line[i].on
  BY <1>1, <1>2, <1>3 DEF GroupOps, GroupPcs
<1>5. Formed(n)
  BY <1>2, <1>3, <1>4 DEF Formed, Begun, OneBranch
<1>6. Stands(n)'
  BY <1>4 DEF Stands, BranchStands, DeployStands, RemovalStands, AtWork
<1> QED BY <1>2, <1>4, <1>5, <1>6, BeginKeeps

\* A step of a resize.
LEMMA ResizeStepKeeps ==
    ASSUME GroupInv, NEW i \in DOMAIN line, line[i].pc = "updating", \A b \in Branch : Same(b),
           NEW N, GroupLine', \A o : InGroupLine(o)' <=> o \in N \/ Apart(i, o),
           \A n \in N : n \in GroupOps => Stands(n)', GroupStore', UNCHANGED <<live, record>>
    PROVE  GroupInv'
<1>1. line[i].on \in Branch /\ line[i].verb = "resize" /\ line[i].volume = None /\ Begun(line[i])
  BY OpFacts DEF Formed, Begun
<1>2. PICK at \in Branch : at = line[i].on
  BY <1>1
<1>3. Tidy(i)
  BY DEF Tidy
<1>4. BranchFine(at)'
  BY <1>1, SameIsFine
<1>5. \A v \in Volume : UsedOn(at, v)' => UsedOn(at, v) \/ VolumeNamed(v)
  BY SameIsUsed
<1> QED BY <1>1, <1>2, <1>3, <1>4, <1>5, PlainStepKeeps

LEMMA UpdateKeeps == ASSUME GroupInv, NEW i \in DOMAIN line, Update(i) PROVE GroupInv'
<1>1. /\ UNCHANGED <<live, record, stored, apps, bytes, told>> /\ line[i].pc = "updating"
  BY DEF Update, At
<1>2. line[i] \in GroupOps /\ Formed(line[i]) /\ GroupStore /\ Begun(line[i]) /\ line[i].verb = "resize"
  BY <1>1, OpFacts DEF Formed, Begun
<1>3. PICK b \in line[i].todo :
         LET rest == [line[i] EXCEPT !.todo = @ \ {b}] IN
         \/ /\ apps[b] # None /\ boxes[b] # None
            /\ boxes' = [boxes EXCEPT ![b].ceiling = line[i].arg]
            /\ Become(i, rest)
         \/ /\ apps[b] # None /\ Become(i, [rest EXCEPT !.failed = TRUE]) /\ UNCHANGED boxes
         \/ /\ apps[b] = None /\ Become(i, rest) /\ UNCHANGED boxes
  BY DEF Update
<1>4. b \in Branch
  BY <1>2 DEF GroupOps
<1> DEFINE As(x) == /\ x \in GroupOps /\ x.pc = "updating" /\ x.verb = "resize" /\ x.keys = line[i].keys
                    /\ x.arg = line[i].arg /\ x.volume = line[i].volume /\ x.on = line[i].on
<1>5. PICK rest : rest = [line[i] EXCEPT !.todo = @ \ {b}] /\ As(rest)
  <2>1. As([line[i] EXCEPT !.todo = @ \ {b}])
    BY <1>1, <1>2 DEF GroupOps
  <2> QED BY <2>1
<1>6. PICK last : last = [rest EXCEPT !.failed = TRUE] /\ As(last)
  <2>1. As([rest EXCEPT !.failed = TRUE])
    BY <1>5 DEF GroupOps
  <2> QED BY <2>1
<1>7. PICK n \in {rest, last} : Become(i, n)
  BY <1>3, <1>5, <1>6
<1>8. Formed(n)
  BY <1>1, <1>2, <1>5, <1>6, <1>7 DEF Formed, Begun, OneBranch
<1>9. GroupLine' /\ \A o : InGroupLine(o)' <=> o = n \/ Apart(i, o)
  <2>1. As(n)
    BY <1>5, <1>6, <1>7
  <2>2. /\ GroupLine /\ Begun(line[i]) /\ n \in GroupOps /\ Formed(n) /\ Become(i, n)
        /\ n.verb = line[i].verb /\ n.keys = line[i].keys /\ n.verb # "clone"
    BY <1>2, <1>7, <1>8, <2>1 DEF GroupInv
  <2> HIDE DEF As
  <2> QED BY ONLY <2>2, i \in DOMAIN line, BecomeKeepsLine
<1>10. Stands(n)'
  BY <1>5, <1>6, <1>7 DEF Stands, BranchStands, DeployStands, RemovalStands, AtWork
<1>11. boxes' = boxes \/ (boxes[b] # None /\ boxes' = [boxes EXCEPT ![b].ceiling = line[i].arg])
  BY <1>3
<1>12. boxes' \in [Branch -> Boxes \cup {None}] /\ \A c \in Branch : Same(c)
  <2>1. CASE boxes' = boxes
    BY <1>1, <1>2, <2>1 DEF Same, GroupStore
  <2>2. CASE boxes[b] # None /\ boxes' = [boxes EXCEPT ![b].ceiling = line[i].arg]
    <3>1. boxes[b] \in Boxes /\ line[i].arg \in Ceiling
      BY <1>2, <1>4, <2>2 DEF GroupStore, Formed
    <3>2. PICK x : /\ x = [boxes[b] EXCEPT !.ceiling = line[i].arg] /\ x \in Boxes
                   /\ x.mount = boxes[b].mount /\ x.state = boxes[b].state
      <4>1. LET y == [boxes[b] EXCEPT !.ceiling = line[i].arg] IN
              y \in Boxes /\ y.mount = boxes[b].mount /\ y.state = boxes[b].state
        BY <3>1 DEF Boxes
      <4> QED BY <4>1
    <3>3. boxes' = [boxes EXCEPT ![b] = x]
      BY <2>2, <3>2
    <3>4. x # None
      BY <3>2, GroupAssumption
    <3> QED BY <1>1, <1>2, <1>4, <2>2, <3>2, <3>3, <3>4 DEF Same, GroupStore
  <2> QED BY <1>11, <2>1, <2>2
<1>13. GroupStore'
  BY <1>1, <1>2, <1>12 DEF GroupStore
<1> DEFINE N == {n}
<1>14. \A o : InGroupLine(o)' <=> o \in N \/ Apart(i, o)
  BY <1>9
<1>15. \A o \in N : o \in GroupOps => Stands(o)'
  BY <1>10
<1> HIDE DEF N
<1> QED BY <1>1, <1>9, <1>12, <1>13, <1>14, <1>15, ResizeStepKeeps

LEMMA ResizedKeeps == ASSUME GroupInv, NEW i \in DOMAIN line, Resized(i) PROVE GroupInv'
<1>1. /\ UNCHANGED <<live, record, apps, boxes, bytes, told>> /\ line[i].pc = "updating" /\ Return(i)
      /\ stored' \in {stored, line[i].arg}
  BY DEF Resized, At
<1>2. GroupStore /\ line[i].arg \in Ceiling
  BY <1>1, OpFacts DEF Formed
<1>3. GroupStore'
  BY <1>1, <1>2 DEF GroupStore
<1>4. \A b \in Branch : Same(b)
  BY <1>1 DEF Same
<1> DEFINE N == {}
<1>5. GroupLine' /\ \A o : InGroupLine(o)' <=> o \in N \/ Apart(i, o)
  BY <1>1, ReturnKeepsLine DEF GroupInv
<1>6. \A n \in N : n \in GroupOps => Stands(n)'
  OBVIOUS
<1> HIDE DEF N
<1> QED BY <1>1, <1>3, <1>4, <1>5, <1>6, ResizeStepKeeps

-------------------------------------------------------------------------------
\* The lifecycle verbs, and the end of a branch.

\* A step that touches the branch whose key the operation has, and neither record nor rows.
LEMMA OwnIsTidy ==
    ASSUME NEW i, \A c \in Branch : c # line[i].on => Same(c),
           <<line[i].on, "branch">> \in line[i].keys, record' = record, live' \subseteq live
    PROVE  Tidy(i)
BY DEF Tidy

LEMMA StartKeeps == ASSUME GroupInv, NEW i \in DOMAIN line, Start(i) PROVE GroupInv'
<1>1. line[i].pc = "queued" /\ Granted(i) /\ line[i].verb = "start" /\ ~Begun(line[i])
  BY DEF Start, Turn, Begun
<1>2. UNCHANGED <<live, record, stored, boxes, bytes, told>>
  BY DEF Start
<1>3. CASE Return(i) /\ UNCHANGED apps
  BY <1>1, <1>2, <1>3, NothingDoneKeeps
<1>4. CASE ~(Return(i) /\ UNCHANGED apps)
  <2>1. PICK at \in Branch : at = line[i].on
    BY OpFacts
  <2>2. PICK n : n = [line[i] EXCEPT !.pc = "starting"]
    OBVIOUS
  <2>3. at \in live /\ apps[at] # None /\ apps' = [apps EXCEPT ![at].intent = "running"] /\ Become(i, n)
    BY <1>4, <2>1, <2>2 DEF Start
  <2>4. line[i] \in GroupOps /\ Formed(line[i]) /\ GroupStore
    BY OpFacts
  <2>5. /\ n \in GroupOps /\ n.pc = "starting" /\ n.verb = "start" /\ n.keys = line[i].keys
        /\ n.volume = line[i].volume /\ n.on = at
    BY <1>1, <2>1, <2>2, <2>4 DEF GroupOps, GroupPcs
  <2>6. Formed(n) /\ <<at, "branch">> \in line[i].keys /\ line[i].volume = None
    BY <1>1, <2>1, <2>4, <2>5 DEF Formed, Begun, OneBranch
  <2>7. PICK a \in Apps : a = [apps[at] EXCEPT !.intent = "running"] /\ a.intent = "running"
    BY <2>3, <2>4 DEF GroupStore, Apps
  <2>8. apps' = [apps EXCEPT ![at] = a]
    BY <2>3, <2>7
  <2>9. a # None
    BY <2>7, GroupAssumption
  <2>10. apps'[at] = a /\ GroupStore'
    BY <1>2, <2>1, <2>4, <2>7, <2>8 DEF GroupStore
  <2>11. \A c \in Branch : c # at => Same(c)
    BY <1>2, <2>4, <2>8 DEF Same, GroupStore
  <2>12. Tidy(i)
    BY <1>2, <2>1, <2>6, <2>11, OwnIsTidy
  <2> DEFINE N == {n}
  <2>13. GroupLine' /\ \A o : InGroupLine(o)' <=> o \in N \/ Apart(i, o)
    BY <1>1, <2>1, <2>3, <2>5, <2>6, BecomeKeepsLine DEF GroupInv
  <2>14. Stands(n)'
    BY <1>2, <2>3, <2>5, <2>6, <2>7, <2>9, <2>10 DEF Stands, BranchStands, DeployStands, RemovalStands, AtWork
  <2>15. \A o \in N : o \in GroupOps => Stands(o)'
    BY <2>14
  <2>16. \A v \in Volume : UsedOn(at, v)' => UsedOn(at, v) \/ VolumeNamed(v)
    BY <1>2, <2>3 DEF UsedOn
  <2> HIDE DEF N
  <2>17. BranchFine(at)'
    BY <1>2, <2>3, <2>7, <2>9, <2>10, <2>13, FineAfter DEF Intent
  <2> QED BY <1>1, <1>2, <2>1, <2>6, <2>10, <2>12, <2>13, <2>15, <2>16, <2>17, PlainStepKeeps
<1> QED BY <1>3, <1>4
LEMMA StartedKeeps == ASSUME GroupInv, NEW i \in DOMAIN line, Started(i) PROVE GroupInv'
<1>1. /\ line[i].pc = "starting" /\ Return(i) /\ UNCHANGED <<live, record, stored, apps, told>>
      /\ Begun(line[i])
  BY DEF Started, At, Begun
<1>2. /\ line[i] \in GroupOps /\ Formed(line[i]) /\ GroupStore /\ Stands(line[i])
      /\ line[i].verb = "start" /\ line[i].volume = None
  BY <1>1, OpFacts DEF Formed, Begun
<1>3. PICK at \in Branch : at = line[i].on
  BY OpFacts
<1>4. at \in live /\ <<at, "branch">> \in line[i].keys /\ apps[at] # None /\ apps[at].intent = "running"
  BY <1>1, <1>2, <1>3 DEF Stands, BranchStands, DeployStands, AtWork
<1>5. GroupStore' /\ (\A c \in Branch : c # at => Same(c))
         /\ \A v \in Volume : UsedOn(at, v)' => UsedOn(at, v)
  <2>1. CASE UNCHANGED <<boxes, bytes>>
    BY <1>1, <1>2, <2>1 DEF GroupStore, Same, UsedOn
  <2>2. CASE ~UNCHANGED <<boxes, bytes>>
    <3>1. /\ boxes[at] # None /\ boxes' = [boxes EXCEPT ![at].state = "up"]
          /\ bytes' = bytes \cup {<<at, v>> : v \in {boxes[at].mount} \ {None}}
      BY <1>3, <2>2 DEF Started
    <3>2. boxes[at] \in Boxes
      BY <1>2, <3>1 DEF GroupStore
    <3>3. PICK x : x = [boxes[at] EXCEPT !.state = "up"] /\ x \in Boxes /\ x.mount = boxes[at].mount
      <4>1. LET y == [boxes[at] EXCEPT !.state = "up"] IN y \in Boxes /\ y.mount = boxes[at].mount
        BY <3>2 DEF Boxes
      <4> QED BY <4>1
    <3>4. boxes' = [boxes EXCEPT ![at] = x] /\ x # None
      BY <3>1, <3>3, GroupAssumption
    <3>5. \A v \in {boxes[at].mount} \ {None} : v \in Volume
      BY <3>2 DEF Boxes
    <3>6. GroupStore'
      BY <1>1, <1>2, <3>1, <3>3, <3>4, <3>5 DEF GroupStore
    <3>7. \A c \in Branch : c # at => Same(c)
      BY <1>1, <1>2, <3>1, <3>4 DEF Same, GroupStore
    <3>8. \A v \in Volume : UsedOn(at, v)' => UsedOn(at, v)
      <4>1. boxes'[at] = x
        BY <1>2, <3>4 DEF GroupStore
      <4> QED BY <1>1, <1>4, <3>1, <3>3, <4>1 DEF UsedOn
    <3> QED BY <3>6, <3>7, <3>8
  <2> QED BY <2>1, <2>2
<1>6. Tidy(i)
  BY <1>1, <1>3, <1>4, <1>5, OwnIsTidy
<1> DEFINE N == {}
<1>7. GroupLine' /\ \A o : InGroupLine(o)' <=> o \in N \/ Apart(i, o)
  BY <1>1, ReturnKeepsLine DEF GroupInv
<1>8. \A n \in N : n \in GroupOps => Stands(n)'
  OBVIOUS
<1> HIDE DEF N
<1>9. BranchFine(at)'
  BY <1>1, <1>4, <1>7, FineAfter DEF Intent
<1> QED BY <1>1, <1>2, <1>3, <1>5, <1>6, <1>7, <1>8, <1>9, PlainStepKeeps

LEMMA HaltKeeps == ASSUME GroupInv, NEW i \in DOMAIN line, Halt(i) PROVE GroupInv'
<1>1. /\ line[i].pc = "queued" /\ Granted(i) /\ line[i].verb \in {"stop", "suspend"} /\ ~Begun(line[i])
      /\ Return(i) /\ UNCHANGED <<live, record, stored, bytes>>
  BY DEF Halt, Turn, Begun
<1>2. /\ Formed(line[i]) /\ GroupStore /\ line[i].volume = None /\ <<line[i].on, "branch">> \in line[i].keys
  BY <1>1, OpFacts DEF Formed, OneBranch
<1>3. CASE UNCHANGED <<boxes, apps, told>>
  BY <1>1, <1>3, NothingDoneKeeps
<1>4. CASE ~UNCHANGED <<boxes, apps, told>>
  <2>1. PICK at \in Branch : at = line[i].on
    BY OpFacts
  <2>2. at \in live /\ apps[at] # None /\ boxes[at] # None
    BY <1>4, <2>1 DEF Halt
  <2>3. PICK s \in {"up", "down", "paused"}, t \in {"stopped", "suspended"} :
           /\ boxes' = [boxes EXCEPT ![at].state = s]
           /\ \/ /\ s # "up" /\ apps' = [apps EXCEPT ![at].intent = t] /\ told' = told \ {at}
              \/ /\ UNCHANGED apps /\ told' = IF s = "up" THEN told \cup {at} ELSE told
    BY <1>4, <2>1, <2>2 DEF Halt
  <2>4. boxes[at] \in Boxes /\ apps[at] \in Apps
    BY <1>2, <2>2 DEF GroupStore
  <2>5. PICK x : /\ x = [boxes[at] EXCEPT !.state = s] /\ x \in Boxes /\ x.mount = boxes[at].mount
                 /\ x.state = s
    <3>1. LET y == [boxes[at] EXCEPT !.state = s] IN y \in Boxes /\ y.mount = boxes[at].mount /\ y.state = s
      BY <2>4 DEF Boxes
    <3> QED BY <3>1
  <2>6. PICK a : a = [apps[at] EXCEPT !.intent = t] /\ a \in Apps
    <3>1. [apps[at] EXCEPT !.intent = t] \in Apps
      BY <2>4 DEF Apps
    <3> QED BY <3>1
  <2>7. boxes' = [boxes EXCEPT ![at] = x] /\ x # None /\ a # None /\ apps' \in {apps, [apps EXCEPT ![at] = a]}
    BY <2>3, <2>5, <2>6, GroupAssumption
  <2>8. told' \subseteq live
    BY <1>2, <2>2, <2>3 DEF GroupStore
  <2>9. GroupStore' /\ boxes'[at] = x /\ apps'[at] # None
    BY <1>1, <1>2, <2>2, <2>5, <2>6, <2>7, <2>8 DEF GroupStore
  <2>10. \A c \in Branch : c # at => Same(c)
    BY <1>1, <1>2, <2>3, <2>7 DEF Same, GroupStore
  <2>11. Tidy(i)
    BY <1>1, <1>2, <2>1, <2>10, OwnIsTidy
  <2> DEFINE N == {}
  <2>12. GroupLine' /\ \A o : InGroupLine(o)' <=> o \in N \/ Apart(i, o)
    BY <1>1, ReturnKeepsLine DEF GroupInv
  <2>13. \A n \in N : n \in GroupOps => Stands(n)'
    OBVIOUS
  <2> HIDE DEF N
  <2>14. boxes'[at].state = "up" => at \in told'
    BY <2>3, <2>5, <2>9
  <2>15. BranchFine(at)'
    BY <1>1, <2>2, <2>9, <2>12, <2>14, FineAfter
  <2>16. \A v \in Volume : UsedOn(at, v)' => UsedOn(at, v)
    BY <1>1, <2>2, <2>5, <2>9 DEF UsedOn
  <2> QED BY <1>1, <1>2, <2>1, <2>9, <2>11, <2>12, <2>13, <2>15, <2>16, PlainStepKeeps
<1> QED BY <1>3, <1>4

\* A branch that goes takes everything it had with it.
LEMMA GoneKeeps ==
    ASSUME GroupInv, NEW i \in DOMAIN line, Begun(line[i]) \/ Granted(i), line[i].verb \in {"clone", "delete"},
           Gone(line[i].on), Return(i), UNCHANGED <<record, stored>>
    PROVE  GroupInv'
<1>1. /\ GroupStore /\ line[i].on # Main /\ <<line[i].on, "branch">> \in line[i].keys
      /\ line[i].volume = None
  BY OpFacts DEF Formed, OneBranch
<1>2. PICK at \in Branch : at = line[i].on
  BY OpFacts
<1>3. /\ boxes' = [boxes EXCEPT ![at] = None] /\ bytes' = {y \in bytes : y[1] # at}
      /\ apps' = [apps EXCEPT ![at] = None] /\ live' = live \ {at} /\ told' = told \ {at}
  BY <1>2 DEF Gone
<1>4. GroupStore'
  BY <1>1, <1>2, <1>3 DEF GroupStore
<1>5. \A c \in Branch : c # at => Same(c)
  BY <1>1, <1>3 DEF Same, GroupStore
<1>6. Tidy(i)
  BY <1>1, <1>2, <1>3, <1>5, OwnIsTidy
<1>7. at \notin live' /\ apps'[at] = None /\ boxes'[at] = None /\ \A v \in Volume : <<at, v>> \notin bytes'
  BY <1>1, <1>3 DEF GroupStore
<1> DEFINE N == {}
<1>8. GroupLine' /\ \A o : InGroupLine(o)' <=> o \in N \/ Apart(i, o)
  BY ReturnKeepsLine DEF GroupInv
<1>9. \A n \in N : n \in GroupOps => Stands(n)'
  OBVIOUS
<1> HIDE DEF N
<1>10. BranchFine(at)'
  BY <1>7, <1>8, FineAfter
<1>11. \A v \in Volume : UsedOn(at, v)' => UsedOn(at, v)
  BY <1>7 DEF UsedOn
<1> QED BY <1>1, <1>2, <1>4, <1>6, <1>8, <1>9, <1>10, <1>11, PlainStepKeeps

LEMMA UnwindKeeps == ASSUME GroupInv, NEW i \in DOMAIN line, Unwind(i) PROVE GroupInv'
<1>1. line[i].pc = "unwind" /\ Begun(line[i]) /\ line[i].verb = "clone"
  BY OpFacts DEF Unwind, At, Begun, Formed
<1> QED BY <1>1, GoneKeeps DEF Unwind

LEMMA DeleteKeeps == ASSUME GroupInv, NEW i \in DOMAIN line, Delete(i) PROVE GroupInv'
<1>1. /\ line[i].pc = "queued" /\ ~Begun(line[i]) /\ Granted(i) /\ line[i].verb = "delete"
      /\ Return(i) /\ UNCHANGED <<record, stored>>
  BY DEF Delete, Turn, Begun
<1>2. CASE line[i].on \in live
  BY <1>1, <1>2, GoneKeeps DEF Delete
<1>3. CASE line[i].on \notin live
  BY <1>1, <1>3, NothingDoneKeeps DEF Delete
<1> QED BY <1>2, <1>3
-------------------------------------------------------------------------------
\* The clone of a branch.

LEMMA RedriveFields ==
    ASSUME NEW op \in GroupOps, NEW needed \in SUBSET Keys
    PROVE  LET n == [op EXCEPT !.keys = @ \cup needed, !.round = @ + 1] IN
              /\ n \in GroupOps /\ n.pc = op.pc /\ n.verb = op.verb /\ n.keys = op.keys \cup needed
              /\ n.volume = op.volume /\ n.on = op.on /\ n.arg = op.arg
<1>1. op.keys \cup needed \in SUBSET Keys /\ op.round + 1 \in Nat
  BY DEF GroupOps
<1> QED BY <1>1 DEF GroupOps

LEMMA CloneKeeps == ASSUME GroupInv, NEW i \in DOMAIN line, Clone(i) PROVE GroupInv'
<1>1. /\ line[i].pc = "queued" /\ ~Begun(line[i]) /\ Granted(i) /\ line[i].verb = "clone"
      /\ UNCHANGED <<record, stored, apps, boxes, bytes, told>>
  BY DEF Clone, Turn, Begun
<1>2. PICK at \in Branch : at = line[i].on
  BY OpFacts
<1>3. /\ line[i] \in GroupOps /\ Formed(line[i]) /\ GroupStore /\ BranchFine(at) /\ line[i].volume = None
      /\ at \notin live /\ <<at, "branch">> \in line[i].keys /\ at # Main
  BY <1>1, <1>2, OpFacts DEF Formed, OneBranch, Stands, BranchStands
<1>4. CASE CloneKeys(at) \subseteq line[i].keys
  <2>1. PICK n : n = [line[i] EXCEPT !.pc = "fork"]
    OBVIOUS
  <2>2. live' = live \cup {at} /\ Become(i, n)
    BY <1>2, <1>4, <2>1 DEF Clone
  <2>3. /\ n \in GroupOps /\ n.pc = "fork" /\ n.verb = "clone" /\ n.keys = line[i].keys
        /\ n.volume = line[i].volume /\ n.on = at
    BY <1>1, <1>2, <1>3, <2>1 DEF GroupOps, GroupPcs
  <2>4. Formed(n)
    BY <1>1, <1>2, <1>3, <2>3 DEF Formed, Begun, OneBranch
  <2>5. apps[at] = None /\ boxes[at] = None /\ \A v \in Volume : <<at, v>> \notin bytes
    BY <1>3 DEF BranchFine
  <2>6. GroupStore'
    BY <1>1, <1>3, <2>2 DEF GroupStore
  <2>7. Tidy(i)
    BY <1>1, <1>2, <1>3, <2>2 DEF Tidy, Same
  <2>8. Stands(n)'
    BY <1>1, <1>3, <2>2, <2>3, <2>5 DEF Stands, BranchStands, DeployStands, RemovalStands, AtWork
  <2> DEFINE N == {n}
  <2>9. GroupLine' /\ \A o : InGroupLine(o)' <=> o \in N \/ Apart(i, o)
    BY <1>1, <1>2, <2>2, <2>3, <2>4, BecomeKeepsLine DEF GroupInv
  <2>10. \A o \in N : o \in GroupOps => Stands(o)'
    BY <2>8
  <2> HIDE DEF N
  <2>11. BranchFine(at)'
    BY <1>1, <2>2, <2>5, <2>9, FineAfter
  <2>12. \A v \in Volume : UsedOn(at, v)' => UsedOn(at, v)
    BY <1>1 DEF UsedOn
  <2> QED BY <1>1, <1>2, <1>3, <2>6, <2>7, <2>9, <2>10, <2>11, <2>12, PlainStepKeeps
<1>5. CASE ~(CloneKeys(at) \subseteq line[i].keys)
  <2>1. Redrive(i, CloneKeys(at)) /\ UNCHANGED live
    BY <1>2, <1>5 DEF Clone
  <2>2. CASE Return(i)
    BY <1>1, <2>1, <2>2, NothingDoneKeeps
  <2>3. CASE ~Return(i)
    <3>1. PICK n : n = [line[i] EXCEPT !.keys = @ \cup CloneKeys(at), !.round = @ + 1]
      OBVIOUS
    <3>2. line' = Append(RemoveAt(line, i), n)
      BY <2>1, <2>3, <3>1 DEF Redrive
    <3>3. CloneKeys(at) \subseteq Keys /\ line[i].keys \subseteq Keys
      BY <1>3, KeysTyped DEF GroupOps
    <3>4. /\ n \in GroupOps /\ n.pc = "queued" /\ n.verb = "clone" /\ n.keys = line[i].keys \cup CloneKeys(at)
          /\ n.volume = line[i].volume /\ n.on = at
      BY <1>1, <1>2, <1>3, <3>1, <3>3, RedriveFields
    <3>5. Formed(n)
      BY <1>1, <1>2, <1>3, <3>4 DEF Formed, Begun, OneBranch
    <3> QED BY <1>1, <1>2, <1>3, <2>1, <3>2, <3>4, <3>5, RequeueKeeps
  <2> QED BY <2>2, <2>3
<1> QED BY <1>4, <1>5

LEMMA ForkVolumesKeeps == ASSUME GroupInv, NEW i \in DOMAIN line, ForkVolumes(i) PROVE GroupInv'
<1>1. line[i].pc = "fork" /\ Begun(line[i]) /\ UNCHANGED <<live, record, stored, apps, boxes, told>>
  BY DEF ForkVolumes, At, Begun
<1>2. PICK at \in Branch : at = line[i].on
  BY OpFacts
<1>3. /\ line[i] \in GroupOps /\ Formed(line[i]) /\ GroupStore /\ BranchFine(Main) /\ Main \in Branch
      /\ line[i].verb = "clone" /\ line[i].volume = None /\ at # Main
      /\ at \in live /\ <<at, "branch">> \in line[i].keys /\ <<Main, "branch">> \in line[i].keys
      /\ apps[at] = None /\ \A v \in Volume : <<at, v>> \notin bytes
  BY <1>1, <1>2, OpFacts DEF Formed, Stands, BranchStands, DeployStands, AtWork, GroupInv
<1>4. bytes' = bytes \/ (bytes' = bytes \cup {<<at, record>>} /\ <<Main, record>> \in bytes)
  BY <1>2 DEF ForkVolumes
<1>5. /\ \A v \in Volume : <<at, v>> \in bytes' => v = record /\ <<Main, record>> \in bytes
      /\ \A v \in Volume : UsedOn(at, v)' => UsedOn(at, v) \/ VolumeNamed(v)
  BY <1>1, <1>3, <1>4 DEF UsedOn, VolumeNamed
<1>6. GroupStore'
  BY <1>1, <1>3, <1>4 DEF GroupStore
<1>7. \A c \in Branch : c # at => Same(c)
  BY <1>1, <1>4 DEF Same
<1>8. Tidy(i)
  BY <1>1, <1>2, <1>3, <1>7, OwnIsTidy
<1>9. ASSUME NEW n \in GroupOps, n.pc \in {"deploying", "unwind"}, n.verb = "clone", n.keys = line[i].keys,
             n.on = at, n.volume = None, n.pc = "deploying" => n.image \in Image /\ n.mount = record,
             Become(i, n)
      PROVE  GroupInv'
  <2>1. Formed(n)
    BY <1>1, <1>2, <1>3, <1>9 DEF Formed, Begun, OneBranch, Deployers
  <2>2. Stands(n)'
    BY <1>1, <1>3, <1>9 DEF Stands, BranchStands, DeployStands, RemovalStands, AtWork
  <2> DEFINE N == {n}
  <2>3. GroupLine' /\ \A o : InGroupLine(o)' <=> o \in N \/ Apart(i, o)
    BY <1>1, <1>2, <1>3, <1>9, <2>1, BecomeKeepsLine DEF GroupInv
  <2>4. /\ \A o \in N : o \in GroupOps => Stands(o)'
        /\ \E o \in N : o \in GroupOps /\ o.verb = "clone" /\ Begun(o) /\ o.on = at
    BY <1>9, <2>2 DEF Begun
  <2> HIDE DEF N
  <2>5. BranchFine(at)'
    BY <1>1, <1>3, <2>3, <2>4, FineAfter DEF Intent
  <2> QED BY <1>1, <1>2, <1>3, <1>5, <1>6, <1>8, <2>3, <2>4, <2>5, PlainStepKeeps
<1>10. CASE apps[Main] # None /\ Become(i, Deploying(line[i], at, apps[Main].image))
  <2>1. apps[Main].image \in Image
    BY <1>3, <1>10 DEF GroupStore, Apps
  <2>2. PICK n : n = Deploying(line[i], at, apps[Main].image)
    OBVIOUS
  <2>3. /\ n \in GroupOps /\ n.pc = "deploying" /\ n.verb = "clone" /\ n.keys = line[i].keys
        /\ n.on = at /\ n.volume = None /\ n.image \in Image /\ n.mount = record
    BY <1>3, <2>1, <2>2, DeployingFields
  <2> QED BY <1>9, <1>10, <2>2, <2>3
<1>11. CASE Become(i, [line[i] EXCEPT !.pc = "unwind"])
  <2>1. PICK n : n = [line[i] EXCEPT !.pc = "unwind"]
    OBVIOUS
  <2>2. /\ n \in GroupOps /\ n.pc = "unwind" /\ n.verb = "clone" /\ n.keys = line[i].keys
        /\ n.on = at /\ n.volume = None
    BY <1>2, <1>3, <2>1 DEF GroupOps, GroupPcs
  <2> QED BY <1>9, <1>11, <2>1, <2>2
<1>12. CASE apps[Main] = None /\ Return(i)
  <2>1. \A v \in Volume : <<Main, v>> \notin bytes
    BY <1>1, <1>2, <1>3, <1>12, MineAlone
  <2>2. \A v \in Volume : <<at, v>> \notin bytes'
    BY <1>5, <2>1
  <2> DEFINE N == {}
  <2>3. GroupLine' /\ \A o : InGroupLine(o)' <=> o \in N \/ Apart(i, o)
    BY <1>12, ReturnKeepsLine DEF GroupInv
  <2>4. \A n \in N : n \in GroupOps => Stands(n)'
    OBVIOUS
  <2> HIDE DEF N
  <2>5. BranchFine(at)'
    BY <1>1, <1>3, <2>2, <2>3, FineAfter DEF Intent
  <2> QED BY <1>1, <1>2, <1>3, <1>5, <1>6, <1>8, <2>3, <2>4, <2>5, PlainStepKeeps
<1> QED BY <1>2, <1>10, <1>11, <1>12 DEF ForkVolumes
-------------------------------------------------------------------------------
\* The removal of the volume.

\* Nothing of a group is on a branch that is not there.
LEMMA UsedIsLive ==
    ASSUME GroupInv, NEW b \in Branch, NEW v \in Volume, UsedOn(b, v)
    PROVE  b \in live
BY DEF GroupInv, BranchFine, UsedOn

LEMMA RemovalFacts ==
    ASSUME GroupInv, NEW i \in DOMAIN line, line[i].verb = "detach", Begun(line[i])
    PROVE  /\ line[i] \in GroupOps /\ Formed(line[i]) /\ GroupStore /\ line[i].volume \in Volume
           /\ record = None /\ line[i].mount = None
           /\ \A b \in live : <<b, "branch">> \in line[i].keys
           /\ \A b \in line[i].todo : b \in live /\ apps[b] # None
           /\ line[i].pc \in {"reassert", "bytes"} /\ boxes[line[i].on] # None =>
                  boxes[line[i].on].mount = None
           /\ ~line[i].failed =>
                  \A b \in live : UsedOn(b, line[i].volume) => b \in line[i].todo \/ b = line[i].on
           /\ line[i].on \in live /\ line[i].on \in Branch
           /\ <<line[i].on, "branch">> \in line[i].keys /\ <<Main, "branch">> \in line[i].keys
<1>1. /\ line[i] \in GroupOps /\ Formed(line[i]) /\ GroupStore /\ Stands(line[i]) /\ Main \in live
      /\ line[i].on \in Branch
  BY OpFacts
<1>2. RemovalStands(line[i]) /\ BranchStands(line[i])
  BY <1>1 DEF Stands
<1>3. AtWork(line[i])
  BY <1>1 DEF Formed, Begun, AtWork, GroupOps, GroupPcs
<1>4. line[i].volume \in Volume
  BY <1>1 DEF Formed, GroupOps
<1> QED BY <1>1, <1>2, <1>3, <1>4 DEF RemovalStands, BranchStands

LEMMA ProceedKeeps ==
    ASSUME GroupInv, NEW i \in DOMAIN line, line[i].verb = "detach", Begun(line[i]),
           NEW op \in GroupOps, op.verb = "detach", op.keys = line[i].keys, op.todo = line[i].todo,
           op.volume = line[i].volume, Proceed(i, op),
           NEW at, at = line[i].on, \A c \in Branch : c # at => Same(c),
           UNCHANGED <<live, stored, apps>>, boxes' \in [Branch -> Boxes \cup {None}],
           bytes' \subseteq bytes, told' \subseteq live,
           \A v \in Volume : UsedOn(at, v)' => UsedOn(at, v),
           ~op.failed => \A b \in live : UsedOn(b, op.volume)' => b \in op.todo,
           boxes'[at] # None /\ boxes'[at].state = "up" /\ Intent(at) # "running" => at \in told'
    PROVE  GroupInv'
<1>1. /\ line[i] \in GroupOps /\ Formed(line[i]) /\ GroupStore /\ line[i].volume \in Volume
      /\ record = None /\ \A b \in live : <<b, "branch">> \in line[i].keys
      /\ \A b \in line[i].todo : b \in live /\ apps[b] # None
      /\ at \in live /\ at \in Branch /\ <<at, "branch">> \in line[i].keys
      /\ <<Main, "branch">> \in line[i].keys
  BY RemovalFacts
<1>2. record' \in {None, line[i].volume}
  BY <1>1 DEF Proceed
<1>3. GroupStore'
  BY <1>1, <1>2 DEF GroupStore
<1>4. Tidy(i)
  BY <1>1 DEF Tidy
<1>5. \A b \in Branch, v \in Volume : UsedOn(b, v)' => UsedOn(b, v) /\ b \in live
  BY SameIsUsed, UsedIsLive
<1>6. \A v \in Volume : <<at, v>> \in bytes' => apps'[at] # None
  BY <1>1, MineAlone
<1>7. Intent(at)' = Intent(at)
  BY DEF Intent
<1>8. ASSUME NEW N, GroupLine', \A o : InGroupLine(o)' <=> o \in N \/ Apart(i, o),
             \A n \in N : n \in GroupOps => Stands(n)',
             \/ \E n \in N : n \in GroupOps /\ n.volume = line[i].volume
             \/ record' = line[i].volume
             \/ \A b \in live : ~UsedOn(b, op.volume)'
      PROVE  GroupInv'
  <2>1. BranchFine(at)'
    BY <1>1, <1>6, <1>7, <1>8, FineAfter
  <2>2. AllNamed'
    <3> SUFFICES ASSUME NEW b \in Branch, NEW v \in Volume, UsedOn(b, v)' PROVE VolumeNamed(v)'
      BY DEF AllNamed
    <3>1. VolumeNamed(v) /\ b \in live
      BY <1>5 DEF GroupInv, AllNamed
    <3>2. PICK o \in GroupOps : InGroupLine(o) /\ o.volume = v
      BY <1>1, <3>1, GroupAssumption DEF VolumeNamed
    <3>3. CASE o # line[i]
      <4>1. InGroupLine(o)'
        BY <1>8, <3>2, <3>3 DEF InGroupLine, Apart
      <4> QED BY <3>2, <4>1 DEF VolumeNamed
    <3>4. CASE o = line[i]
      <4>1. CASE record' = line[i].volume
        BY <3>2, <3>4, <4>1 DEF VolumeNamed
      <4>2. ASSUME NEW n \in N, n \in GroupOps, n.volume = line[i].volume PROVE VolumeNamed(v)'
        <5>1. InGroupLine(n)'
          BY <1>8, <4>2
        <5> QED BY <3>2, <3>4, <4>2, <5>1 DEF VolumeNamed
      <4>3. UsedOn(b, op.volume)' <=> UsedOn(b, v)'
        BY <3>2, <3>4
      <4> QED BY <1>8, <3>1, <4>1, <4>2, <4>3
    <3> QED BY <3>3, <3>4
  <2> QED BY <1>1, <1>3, <1>4, <1>8, <2>1, <2>2, WorkKeeps
<1>9. ASSUME NEW b \in op.todo, Become(i, Deploying([op EXCEPT !.todo = @ \ {b}], b, apps[b].image)),
             UNCHANGED record
      PROVE  GroupInv'
  <2>1. b \in live /\ b \in Branch /\ apps[b] # None /\ apps[b].image \in Image
    BY <1>1, <1>9 DEF GroupStore, Apps
  <2>2. PICK m : /\ m = [op EXCEPT !.todo = @ \ {b}] /\ m \in GroupOps /\ m.verb = op.verb
                 /\ m.keys = op.keys /\ m.todo = op.todo \ {b} /\ m.volume = op.volume
                 /\ m.failed = op.failed
    <3>1. LET m == [op EXCEPT !.todo = @ \ {b}] IN
             /\ m \in GroupOps /\ m.verb = op.verb /\ m.keys = op.keys /\ m.todo = op.todo \ {b}
             /\ m.volume = op.volume /\ m.failed = op.failed
      BY DEF GroupOps
    <3> QED BY <3>1
  <2>3. PICK n : n = Deploying(m, b, apps[b].image)
    OBVIOUS
  <2>4. /\ n \in GroupOps /\ n.pc = "deploying" /\ n.on = b /\ n.image = apps[b].image
        /\ n.mount = record /\ n.verb = "detach" /\ n.keys = line[i].keys
        /\ n.todo = op.todo \ {b} /\ n.volume = line[i].volume /\ n.failed = op.failed
    <3>1. /\ n \in GroupOps /\ n.pc = "deploying" /\ n.on = b /\ n.image = apps[b].image
          /\ n.mount = record /\ n.verb = m.verb /\ n.keys = m.keys
          /\ n.todo = m.todo /\ n.volume = m.volume /\ n.failed = m.failed
      <4>1. GroupStore /\ m \in GroupOps /\ b \in Branch /\ apps[b].image \in Image
        BY <1>1, <2>1, <2>2
      <4> QED BY ONLY <2>3, <4>1, DeployingFields
    <3> QED BY <2>2, <3>1
  <2>5. Formed(n)
    BY <1>1, <2>1, <2>4 DEF Formed, Begun, Deployers, OneBranch, GroupStore
  <2>6. Stands(n)'
    <3>1. BranchStands(n)' /\ DeployStands(n)'
      BY <1>1, <2>1, <2>4 DEF BranchStands, DeployStands, AtWork
    <3>2. ~n.failed => \A c \in live' : UsedOn(c, n.volume)' => c \in n.todo \/ c = n.on
      <4> SUFFICES ASSUME ~n.failed, NEW c \in live', UsedOn(c, n.volume)' PROVE c \in n.todo \/ c = n.on
        OBVIOUS
      <4>1. UsedOn(c, op.volume)'
        BY <2>4 DEF UsedOn
      <4> QED BY <2>4, <4>1
    <3>3. RemovalStands(n)'
      BY <1>1, <1>9, <2>4, <3>2 DEF RemovalStands
    <3> QED BY <3>1, <3>3 DEF Stands
  <2>7. Become(i, n)
    BY <1>9, <2>2, <2>3
  <2> DEFINE N == {n}
  <2>8. GroupLine' /\ \A o : InGroupLine(o)' <=> o \in N \/ Apart(i, o)
    BY <2>4, <2>5, <2>7, BecomeKeepsLine DEF GroupInv
  <2>9. /\ \A o \in N : o \in GroupOps => Stands(o)'
        /\ \E o \in N : o \in GroupOps /\ o.volume = line[i].volume
    BY <2>4, <2>6
  <2> HIDE DEF N
  <2> QED BY <1>8, <2>8, <2>9
<1>10. ASSUME op.todo = {}, Return(i), record' = IF op.failed THEN op.volume ELSE record
       PROVE  GroupInv'
  <2> DEFINE N == {}
  <2>1. GroupLine' /\ \A o : InGroupLine(o)' <=> o \in N \/ Apart(i, o)
    BY <1>10, ReturnKeepsLine DEF GroupInv
  <2>2. \A n \in N : n \in GroupOps => Stands(n)'
    OBVIOUS
  <2>3. record' = line[i].volume \/ \A b \in live : ~UsedOn(b, op.volume)'
    <3>1. CASE op.failed
      BY <1>10, <3>1
    <3>2. ASSUME ~op.failed, NEW b \in live, UsedOn(b, op.volume)' PROVE FALSE
      BY <1>10, <3>2
    <3> QED BY <3>1, <3>2
  <2> HIDE DEF N
  <2> QED BY <1>8, <2>1, <2>2, <2>3
<1> QED BY <1>9, <1>10 DEF Proceed

LEMMA RemoveVolumeKeeps == ASSUME GroupInv, NEW i \in DOMAIN line, RemoveVolume(i) PROVE GroupInv'
<1>1. line[i].pc = "bytes" /\ Begun(line[i]) /\ UNCHANGED <<live, stored, apps, boxes, told>>
  BY DEF RemoveVolume, At, Begun
<1>2. line[i].verb = "detach"
  BY <1>1, OpFacts DEF Formed
<1>3. PICK at : at = line[i].on
  OBVIOUS
<1>4. /\ line[i] \in GroupOps /\ GroupStore /\ line[i].volume \in Volume /\ at \in live /\ at \in Branch
      /\ <<at, "branch">> \in line[i].keys
      /\ boxes[at] # None => boxes[at].mount = None
      /\ ~line[i].failed => \A b \in live : UsedOn(b, line[i].volume) => b \in line[i].todo \/ b = at
  BY <1>1, <1>2, <1>3, RemovalFacts
<1>5. boxes[at] # None /\ boxes[at].state = "up" /\ Intent(at) # "running" => at \in told
  BY <1>1, <1>4, MineAlone
<1>6. told' \subseteq live /\ boxes' \in [Branch -> Boxes \cup {None}]
  BY <1>1, <1>4 DEF GroupStore
<1>7. CASE bytes' = bytes \ {<<line[i].on, line[i].volume>>} /\ Proceed(i, line[i])
  <2>1. \A c \in Branch : c # at => Same(c)
    BY <1>1, <1>3, <1>7 DEF Same
  <2>2. \A v \in Volume : UsedOn(at, v)' => UsedOn(at, v)
    BY <1>1, <1>7 DEF UsedOn
  <2>3. PICK op : op = line[i]
    OBVIOUS
  <2>4. ~op.failed => \A b \in live : UsedOn(b, op.volume)' => b \in op.todo
    <3> SUFFICES ASSUME ~op.failed, NEW b \in live, UsedOn(b, op.volume)' PROVE b \in op.todo
      OBVIOUS
    <3>1. b # at
      BY <1>1, <1>3, <1>4, <1>7, <2>3, GroupAssumption DEF UsedOn
    <3>2. UsedOn(b, op.volume)
      BY <1>1, <1>7 DEF UsedOn
    <3> QED BY <1>4, <2>3, <3>1, <3>2
  <2> QED BY <1>1, <1>2, <1>3, <1>4, <1>5, <1>6, <1>7, <2>1, <2>2, <2>3, <2>4, ProceedKeeps
<1>8. CASE UNCHANGED bytes /\ Proceed(i, [line[i] EXCEPT !.failed = TRUE])
  <2>1. PICK op : op = [line[i] EXCEPT !.failed = TRUE]
    OBVIOUS
  <2>2. /\ op \in GroupOps /\ op.verb = "detach" /\ op.keys = line[i].keys /\ op.todo = line[i].todo
        /\ op.volume = line[i].volume /\ op.failed
    BY <1>2, <1>4, <2>1 DEF GroupOps
  <2>3. \A c \in Branch : c # at => Same(c)
    BY <1>1, <1>8 DEF Same
  <2>4. \A v \in Volume : UsedOn(at, v)' => UsedOn(at, v)
    BY <1>1, <1>8 DEF UsedOn
  <2> QED BY <1>1, <1>2, <1>3, <1>4, <1>5, <1>6, <1>8, <2>1, <2>2, <2>3, <2>4, ProceedKeeps
<1> QED BY <1>7, <1>8 DEF RemoveVolume
LEMMA DetachKeeps == ASSUME GroupInv, NEW i \in DOMAIN line, Detach(i) PROVE GroupInv'
<1>1. /\ line[i].pc = "queued" /\ ~Begun(line[i]) /\ Granted(i) /\ line[i].verb = "detach"
      /\ UNCHANGED <<live, stored, apps, boxes, bytes, told>>
  BY DEF Detach, Turn, Begun
<1>2. /\ line[i] \in GroupOps /\ Formed(line[i]) /\ GroupStore /\ line[i].volume = None
      /\ <<Main, "branch">> \in line[i].keys /\ Main \in Branch
  BY <1>1, OpFacts DEF Formed
<1> DEFINE on == {c \in live : apps[c] # None}
           first == [line[i] EXCEPT !.volume = record]
<1>3. CASE Redrive(i, AllKeys) /\ UNCHANGED record
  <2>1. CASE Return(i)
    BY <1>1, <1>3, <2>1, NothingDoneKeeps
  <2>2. CASE ~Return(i)
    <3>1. PICK n : n = [line[i] EXCEPT !.keys = @ \cup AllKeys, !.round = @ + 1]
      OBVIOUS
    <3>2. line' = Append(RemoveAt(line, i), n)
      BY <1>3, <2>2, <3>1 DEF Redrive
    <3>3. AllKeys \in SUBSET Keys
      BY KeysTyped
    <3>4. /\ n \in GroupOps /\ n.pc = line[i].pc /\ n.verb = line[i].verb
          /\ n.keys = line[i].keys \cup AllKeys /\ n.volume = line[i].volume /\ n.on = line[i].on
      BY <1>2, <3>1, <3>3, RedriveFields
    <3>5. Formed(n)
      BY <1>1, <1>2, <3>4 DEF Formed, Begun, OneBranch
    <3> QED BY <1>1, <1>3, <3>2, <3>4, <3>5, RequeueKeeps
  <2> QED BY <2>1, <2>2
<1>4. ASSUME AllKeys \subseteq line[i].keys
      PROVE  /\ \A b \in live : <<b, "branch">> \in line[i].keys
             /\ \A b \in Branch, v \in Volume : UsedOn(b, v) => b \in on /\ VolumeNamed(v)
             /\ \A c \in Branch : Same(c)
  <2>1. \A b \in live : <<b, "branch">> \in line[i].keys
    BY <1>4, KeysTyped
  <2>2. ASSUME NEW b \in Branch, NEW v \in Volume, UsedOn(b, v) PROVE b \in on /\ VolumeNamed(v)
    <3>1. b \in live /\ VolumeNamed(v)
      BY <2>2, UsedIsLive DEF GroupInv, AllNamed
    <3>2. apps[b] # None
      BY <1>1, <2>1, <2>2, <3>1, MineAlone DEF UsedOn
    <3> QED BY <3>1, <3>2
  <2> QED BY <1>1, <2>1, <2>2 DEF Same
<1>5. CASE AllKeys \subseteq line[i].keys /\ record' = None /\ (record = None \/ on = {}) /\ Return(i)
  <2>1. PICK at \in Branch : at = line[i].on
    BY OpFacts
  <2> DEFINE N == {}
  <2>2. GroupLine' /\ \A o : InGroupLine(o)' <=> o \in N \/ Apart(i, o)
    BY <1>5, ReturnKeepsLine DEF GroupInv
  <2>3. \A n \in N : n \in GroupOps => Stands(n)'
    OBVIOUS
  <2> HIDE DEF N
  <2>4. GroupStore'
    BY <1>1, <1>2, <1>5 DEF GroupStore
  <2>5. BranchFine(at)'
    BY <1>1, <1>4, <1>5, <2>2, SameIsFine
  <2>6. Tidy(i)
    BY <1>1, <1>2, <1>4, <1>5 DEF Tidy
  <2>7. CASE record = None
    <3>1. \A v \in Volume : UsedOn(at, v)' => UsedOn(at, v)
      BY <1>4, <1>5, SameIsUsed
    <3> QED BY <1>1, <1>2, <1>5, <2>1, <2>2, <2>3, <2>4, <2>5, <2>6, <2>7, <3>1, PlainStepKeeps
  <2>8. CASE on = {}
    <3>1. AllNamed'
      BY <1>4, <1>5, <2>8, SameIsUsed DEF AllNamed
    <3> QED BY <1>1, <2>1, <2>2, <2>3, <2>4, <2>5, <2>6, <3>1, WorkKeeps
  <2> QED BY <1>5, <2>7, <2>8
<1>6. ASSUME AllKeys \subseteq line[i].keys, record' = None, record # None, NEW b \in on,
             Become(i, [Deploying([first EXCEPT !.todo = on \ {b}], b, apps[b].image) EXCEPT !.mount = None])
      PROVE  GroupInv'
  <2>1. on \subseteq Branch /\ b \in Branch /\ apps[b].image \in Image /\ record \in Volume
    BY <1>2, <1>6 DEF GroupStore, Apps
  <2>2. PICK m : /\ m = [first EXCEPT !.todo = on \ {b}] /\ m \in GroupOps /\ m.verb = line[i].verb
                 /\ m.keys = line[i].keys /\ m.todo = on \ {b} /\ m.volume = record
    <3>1. PICK s : s = on \ {b}
      OBVIOUS
    <3>2. first \in GroupOps /\ first.verb = line[i].verb /\ first.keys = line[i].keys /\ first.volume = record
      BY <1>2, <2>1 DEF GroupOps
    <3>3. s \in SUBSET Branch
      BY <2>1, <3>1
    <3>4. PICK f : f = first
      OBVIOUS
    <3>5. LET m == [f EXCEPT !.todo = s] IN
             /\ m \in GroupOps /\ m.verb = f.verb /\ m.keys = f.keys /\ m.todo = s /\ m.volume = f.volume
      BY <3>2, <3>3, <3>4 DEF GroupOps
    <3> QED BY <3>1, <3>2, <3>4, <3>5
  <2>3. PICK d : d = Deploying(m, b, apps[b].image)
    OBVIOUS
  <2>4. /\ d \in GroupOps /\ d.pc = "deploying" /\ d.on = b /\ d.image = apps[b].image
        /\ d.verb = m.verb /\ d.keys = m.keys /\ d.todo = m.todo /\ d.volume = m.volume
    <3>1. GroupStore /\ m \in GroupOps /\ b \in Branch /\ apps[b].image \in Image
      BY <1>2, <2>1, <2>2
    <3> QED BY ONLY <2>3, <3>1, DeployingFields
  <2>5. PICK n : /\ n = [d EXCEPT !.mount = None] /\ n \in GroupOps /\ n.pc = "deploying" /\ n.on = b
                 /\ n.image = apps[b].image /\ n.verb = "detach" /\ n.keys = line[i].keys
                 /\ n.todo = on \ {b} /\ n.volume = record /\ n.mount = None
    <3>1. LET x == [d EXCEPT !.mount = None] IN
             /\ x \in GroupOps /\ x.pc = d.pc /\ x.on = d.on /\ x.image = d.image /\ x.verb = d.verb
             /\ x.keys = d.keys /\ x.todo = d.todo /\ x.volume = d.volume /\ x.mount = None
      BY <2>4 DEF GroupOps
    <3> QED BY <1>1, <2>2, <2>4, <3>1
  <2>6. Become(i, n)
    BY <1>6, <2>2, <2>3, <2>5
  <2>7. b \in live /\ apps[b] # None /\ <<b, "branch">> \in line[i].keys
    BY <1>4, <1>6
  <2>8. Formed(n)
    BY <1>2, <1>6, <2>1, <2>5, <2>7 DEF Formed, Begun, Deployers, OneBranch
  <2>9. Stands(n)'
    <3>1. BranchStands(n)' /\ DeployStands(n)'
      BY <1>1, <2>5, <2>7 DEF BranchStands, DeployStands, AtWork
    <3>2. \A c \in live' : UsedOn(c, n.volume)' => c \in n.todo \/ c = n.on
      <4> SUFFICES ASSUME NEW c \in live', UsedOn(c, n.volume)' PROVE c \in n.todo \/ c = n.on
        OBVIOUS
      <4>1. UsedOn(c, n.volume) /\ c \in Branch
        BY <1>1, <1>2 DEF UsedOn, GroupStore
      <4> QED BY <1>4, <1>6, <2>1, <2>5, <4>1
    <3>3. /\ record' = None /\ n.mount = None
          /\ \A c \in live' : <<c, "branch">> \in n.keys
          /\ \A c \in n.todo : c \in live' /\ apps'[c] # None
          /\ n.pc = "deploying"
      BY <1>1, <1>4, <1>6, <2>5
    <3>4. RemovalStands(n)'
      BY <3>2, <3>3 DEF RemovalStands
    <3> QED BY <3>1, <3>4 DEF Stands
  <2> DEFINE N == {n}
  <2>10. GroupLine' /\ \A o : InGroupLine(o)' <=> o \in N \/ Apart(i, o)
    BY <1>1, <2>5, <2>6, <2>8, BecomeKeepsLine DEF GroupInv
  <2>11. /\ \A o \in N : o \in GroupOps => Stands(o)'
         /\ n \in N
    BY <2>9
  <2> HIDE DEF N
  <2>12. PICK at \in Branch : at = line[i].on
    BY OpFacts
  <2>13. GroupStore'
    BY <1>1, <1>2, <1>6 DEF GroupStore
  <2>14. BranchFine(at)'
    BY <1>1, <1>4, <1>6, <2>10, SameIsFine
  <2>15. Tidy(i)
    BY <1>1, <1>2, <1>4, <1>6 DEF Tidy
  <2>16. AllNamed'
    <3> SUFFICES ASSUME NEW c \in Branch, NEW v \in Volume, UsedOn(c, v)' PROVE VolumeNamed(v)'
      BY DEF AllNamed
    <3>1. VolumeNamed(v)
      BY <1>4, <1>6, SameIsUsed
    <3>2. CASE record = v
      <4>1. InGroupLine(n)'
        BY <2>10, <2>11
      <4> QED BY <2>5, <3>2, <4>1 DEF VolumeNamed
    <3>3. ASSUME NEW o \in GroupOps, InGroupLine(o), o.volume = v PROVE VolumeNamed(v)'
      <4>1. o # line[i]
        BY <1>2, <3>3, GroupAssumption
      <4>2. InGroupLine(o)'
        BY <2>10, <3>3, <4>1 DEF InGroupLine, Apart
      <4> QED BY <3>3, <4>2 DEF VolumeNamed
    <3> QED BY <3>1, <3>2, <3>3 DEF VolumeNamed
  <2> QED BY <1>1, <2>10, <2>11, <2>12, <2>13, <2>14, <2>15, <2>16, WorkKeeps
<1>7. CASE ~(AllKeys \subseteq line[i].keys)
  BY <1>3, <1>7 DEF Detach
<1>8. CASE AllKeys \subseteq line[i].keys /\ (record = None \/ on = {})
  BY <1>5, <1>8 DEF Detach
<1>9. CASE AllKeys \subseteq line[i].keys /\ ~(record = None \/ on = {})
  BY <1>6, <1>9 DEF Detach
<1> QED BY <1>7, <1>8, <1>9
-------------------------------------------------------------------------------
\* A deploy, and what follows it.

\* One that went well.
LEMMA DoneKeeps ==
    ASSUME GroupInv, NEW i \in DOMAIN line, line[i].pc \in {"deploying", "reassert"}, Done(i),
           NEW at \in Branch, at = line[i].on, \A c \in Branch : c # at => Same(c),
           UNCHANGED live, GroupStore', apps'[at] # None,
           \A v \in Volume : UsedOn(at, v)' => UsedOn(at, v) \/ VolumeNamed(v),
           line[i].verb = "detach" =>
               /\ boxes'[at].mount = None
               /\ \A v \in Volume : UsedOn(at, v)' => UsedOn(at, v),
           boxes'[at] # None /\ boxes'[at].state = "up" /\ Intent(at)' # "running" => at \in told'
    PROVE  GroupInv'
<1>1. /\ line[i] \in GroupOps /\ Formed(line[i]) /\ Begun(line[i]) /\ at \in live
      /\ <<at, "branch">> \in line[i].keys /\ UNCHANGED record
  BY OpFacts DEF Begun, AtWork, Stands, BranchStands, Done
<1>2. Tidy(i)
  BY <1>1, OwnIsTidy
<1>3. CASE line[i].verb = "detach"
  <2>1. PICK n : n = [line[i] EXCEPT !.pc = "bytes"]
    OBVIOUS
  <2>2. /\ line[i].volume \in Volume /\ record = None /\ line[i].mount = None
        /\ \A b \in live : <<b, "branch">> \in line[i].keys
        /\ \A b \in line[i].todo : b \in live /\ apps[b] # None
        /\ ~line[i].failed =>
              \A b \in live : UsedOn(b, line[i].volume) => b \in line[i].todo \/ b = at
    BY <1>1, <1>3, RemovalFacts
  <2>3. /\ n \in GroupOps /\ n.pc = "bytes" /\ n.verb = "detach" /\ n.keys = line[i].keys /\ n.on = at
        /\ n.todo = line[i].todo /\ n.volume = line[i].volume /\ n.failed = line[i].failed
        /\ n.mount = None
    BY <1>1, <1>3, <2>1, <2>2 DEF GroupOps, GroupPcs
  <2>4. Formed(n)
    BY <1>1, <1>3, <2>3 DEF Formed, Begun, OneBranch
  <2>5. Stands(n)'
    <3>1. BranchStands(n)' /\ DeployStands(n)'
      BY <1>1, <2>3 DEF BranchStands, DeployStands, AtWork
    <3>2. ~n.failed => \A c \in live' : UsedOn(c, n.volume)' => c \in n.todo \/ c = n.on
      <4> SUFFICES ASSUME ~n.failed, NEW c \in live', UsedOn(c, n.volume)', c # at PROVE c \in n.todo
        BY <2>3
      <4>1. c \in Branch /\ c \in live /\ n.volume \in Volume
        BY <2>2, <2>3, OpFacts DEF GroupStore
      <4>2. UsedOn(c, n.volume)
        BY <4>1, SameIsUsed
      <4> QED BY <2>2, <2>3, <4>1, <4>2
    <3>3. \A c \in n.todo : c \in live' /\ apps'[c] # None
      <4> SUFFICES ASSUME NEW c \in n.todo PROVE c \in live' /\ apps'[c] # None
        OBVIOUS
      <4>1. c \in live /\ apps[c] # None /\ c \in Branch
        BY <2>2, <2>3, OpFacts DEF GroupStore
      <4> QED BY <4>1 DEF Same
    <3>4. RemovalStands(n)'
      BY <1>1, <1>3, <2>2, <2>3, <3>2, <3>3 DEF RemovalStands
    <3> QED BY <3>1, <3>4 DEF Stands
  <2>6. Become(i, n)
    BY <1>3, <2>1 DEF Done
  <2> DEFINE N == {n}
  <2>7. GroupLine' /\ \A o : InGroupLine(o)' <=> o \in N \/ Apart(i, o)
    BY <1>1, <1>3, <2>3, <2>4, <2>6, BecomeKeepsLine DEF GroupInv
  <2>8. /\ \A o \in N : o \in GroupOps => Stands(o)'
        /\ \E o \in N : o \in GroupOps /\ o.volume = line[i].volume
    BY <2>3, <2>5
  <2> HIDE DEF N
  <2>9. BranchFine(at)'
    BY <1>1, <2>7, FineAfter
  <2> QED BY <1>1, <1>2, <2>7, <2>8, <2>9, PlainStepKeeps
<1>4. CASE line[i].verb # "detach"
  <2>1. Return(i) /\ line[i].volume = None
    BY <1>1, <1>4 DEF Done, Formed
  <2> DEFINE N == {}
  <2>2. GroupLine' /\ \A o : InGroupLine(o)' <=> o \in N \/ Apart(i, o)
    BY <2>1, ReturnKeepsLine DEF GroupInv
  <2>3. \A n \in N : n \in GroupOps => Stands(n)'
    OBVIOUS
  <2> HIDE DEF N
  <2>4. BranchFine(at)'
    BY <1>1, <2>2, FineAfter
  <2> QED BY <1>1, <1>2, <2>1, <2>2, <2>3, <2>4, PlainStepKeeps
<1> QED BY <1>3, <1>4

\* One that did not.
LEMMA FailedKeeps ==
    ASSUME GroupInv, NEW i \in DOMAIN line, line[i].pc \in {"deploying", "reassert"}, Failed(i),
           NEW at \in Branch, at = line[i].on, \A c \in Branch : c # at => Same(c),
           UNCHANGED <<live, stored, apps, bytes>>, boxes' \in [Branch -> Boxes \cup {None}],
           told' \subseteq live,
           \A v \in Volume : UsedOn(at, v)' => UsedOn(at, v) \/ VolumeNamed(v),
           line[i].verb = "detach" => \A v \in Volume : UsedOn(at, v)' => UsedOn(at, v),
           boxes'[at] # None /\ boxes'[at].state = "up" /\ Intent(at) # "running" => at \in told'
    PROVE  GroupInv'
<1>1. /\ line[i] \in GroupOps /\ Formed(line[i]) /\ Begun(line[i]) /\ at \in live /\ GroupStore
      /\ <<at, "branch">> \in line[i].keys
  BY OpFacts DEF Begun, AtWork, Stands, BranchStands
<1>2. CASE line[i].verb = "detach"
  <2>1. PICK op : op = [line[i] EXCEPT !.failed = TRUE]
    OBVIOUS
  <2>2. /\ op \in GroupOps /\ op.verb = "detach" /\ op.keys = line[i].keys /\ op.todo = line[i].todo
        /\ op.volume = line[i].volume /\ op.failed
    BY <1>1, <1>2, <2>1 DEF GroupOps
  <2>3. Proceed(i, op)
    BY <1>2, <2>1 DEF Failed
  <2> QED BY <1>1, <1>2, <2>2, <2>3, ProceedKeeps
<1>3. ASSUME UNCHANGED record
      PROVE  Tidy(i) /\ GroupStore' /\ Intent(at)' = Intent(at)
  BY <1>1, <1>3, OwnIsTidy DEF GroupStore, Intent
<1>4. CASE line[i].verb = "clone"
  <2>1. PICK n : n = [line[i] EXCEPT !.pc = "unwind"]
    OBVIOUS
  <2>2. Become(i, n) /\ UNCHANGED record /\ line[i].volume = None
    BY <1>1, <1>4, <2>1 DEF Failed, Formed
  <2>3. /\ n \in GroupOps /\ n.pc = "unwind" /\ n.verb = "clone" /\ n.keys = line[i].keys
        /\ n.on = at /\ n.volume = None
    BY <1>1, <1>4, <2>1, <2>2 DEF GroupOps, GroupPcs
  <2>4. Formed(n)
    BY <1>1, <1>4, <2>3 DEF Formed, Begun, OneBranch
  <2>5. Stands(n)'
    BY <1>1, <2>3 DEF Stands, BranchStands, DeployStands, RemovalStands, AtWork
  <2> DEFINE N == {n}
  <2>6. GroupLine' /\ \A o : InGroupLine(o)' <=> o \in N \/ Apart(i, o)
    BY <1>1, <1>4, <2>2, <2>3, <2>4, BecomeKeepsLine DEF GroupInv
  <2>7. /\ \A o \in N : o \in GroupOps => Stands(o)'
        /\ \E o \in N : o \in GroupOps /\ o.verb = "clone" /\ Begun(o) /\ o.on = at
    BY <2>3, <2>5 DEF Begun
  <2> HIDE DEF N
  <2>8. BranchFine(at)'
    BY <1>1, <1>3, <2>2, <2>6, <2>7, FineAfter
  <2> QED BY <1>1, <1>3, <2>2, <2>6, <2>7, <2>8, PlainStepKeeps
<1>5. CASE line[i].verb \notin {"detach", "clone"}
  <2>1. Return(i) /\ UNCHANGED record /\ line[i].volume = None
    BY <1>1, <1>5 DEF Failed, Formed
  <2> DEFINE N == {}
  <2>2. GroupLine' /\ \A o : InGroupLine(o)' <=> o \in N \/ Apart(i, o)
    BY <2>1, ReturnKeepsLine DEF GroupInv
  <2>3. \A n \in N : n \in GroupOps => Stands(n)'
    OBVIOUS
  <2> HIDE DEF N
  <2>4. \A v \in Volume : <<at, v>> \in bytes' => apps'[at] # None
    BY <1>1, <1>5, MineAlone
  <2>5. BranchFine(at)'
    BY <1>1, <1>3, <2>1, <2>2, <2>4, FineAfter
  <2> QED BY <1>1, <1>3, <2>1, <2>2, <2>3, <2>5, PlainStepKeeps
<1> QED BY <1>2, <1>4, <1>5
LEMMA DeployedKeeps == ASSUME GroupInv, NEW i \in DOMAIN line, Deployed(i) PROVE GroupInv'
<1>1. line[i].pc = "deploying" /\ Begun(line[i]) /\ UNCHANGED <<live, stored>>
  BY DEF Deployed, At, Begun
<1>2. PICK at \in Branch : at = line[i].on
  BY OpFacts
<1>3. /\ line[i] \in GroupOps /\ Formed(line[i]) /\ GroupStore /\ at \in live
      /\ <<at, "branch">> \in line[i].keys /\ line[i].image \in Image /\ line[i].verb \in Deployers
      /\ line[i].mount \in Volume \cup {None} /\ line[i].ceiling \in Ceiling \cup {None}
      /\ DeployStands(line[i])
  BY <1>1, <1>2, OpFacts DEF Formed, Stands, BranchStands, AtWork, GroupOps
<1>4. PICK x, a :
         /\ x.mount = line[i].mount /\ (x.state = "up" => Intent(at) # "stopped")
         /\ x \in Boxes /\ a \in Apps /\ a.intent = Intent(at)
         /\ boxes' = [boxes EXCEPT ![at] = x] /\ apps' = [apps EXCEPT ![at] = a]
  <2>1. PICK asleep \in BOOLEAN :
           /\ boxes' = [boxes EXCEPT ![at] =
                  [mount |-> line[i].mount, ceiling |-> line[i].ceiling,
                   state |-> IF Intent(at) = "stopped" \/ asleep THEN "down" ELSE "up"]]
           /\ apps' = [apps EXCEPT ![at] = [image |-> line[i].image, intent |-> Intent(at)]]
    BY <1>2 DEF Deployed
  <2>2. PICK s : s = IF Intent(at) = "stopped" \/ asleep THEN "down" ELSE "up"
    OBVIOUS
  <2>3. s \in {"up", "down", "paused"} /\ (s = "up" => Intent(at) # "stopped")
    BY <2>2
  <2>4. PICK x : x = [mount |-> line[i].mount, ceiling |-> line[i].ceiling, state |-> s]
    OBVIOUS
  <2>5. x \in Boxes /\ x.mount = line[i].mount /\ x.state = s
    BY <1>3, <2>3, <2>4 DEF Boxes
  <2>6. Intent(at) \in {"running", "stopped", "suspended"}
    BY <1>3 DEF Intent, GroupStore, Apps
  <2>7. PICK a : a = [image |-> line[i].image, intent |-> Intent(at)]
    OBVIOUS
  <2>8. a \in Apps /\ a.intent = Intent(at)
    BY <1>3, <2>6, <2>7 DEF Apps
  <2> QED BY <2>1, <2>2, <2>3, <2>4, <2>5, <2>7, <2>8
<1>5. x # None /\ a # None
  BY <1>4, GroupAssumption
<1>6. /\ bytes' = bytes \cup {<<at, v>> : v \in {line[i].mount} \ {None}} /\ told' = told \ {at}
      /\ record' = record
  BY <1>2 DEF Deployed, Done
<1>7. GroupStore' /\ boxes'[at] = x /\ apps'[at] = a
  BY <1>1, <1>3, <1>4, <1>6 DEF GroupStore
<1>8. \A c \in Branch : c # at => Same(c)
  BY <1>1, <1>3, <1>4, <1>6 DEF Same, GroupStore
<1>9. Intent(at)' = Intent(at)
  BY <1>4, <1>5, <1>7 DEF Intent
<1>10. \A v \in Volume : UsedOn(at, v)' => UsedOn(at, v) \/ v = line[i].mount
  <2> SUFFICES ASSUME NEW v \in Volume, UsedOn(at, v)', v # line[i].mount PROVE UsedOn(at, v)
    OBVIOUS
  <2>1. <<at, v>> \in bytes'
    BY <1>4, <1>7 DEF UsedOn
  <2>2. <<at, v>> \in bytes
    BY <1>6, <2>1
  <2> QED BY <2>2 DEF UsedOn
<1>11. line[i].verb = "detach" => line[i].mount = None
  BY <1>1, RemovalFacts
<1>12. \A v \in Volume : UsedOn(at, v)' => UsedOn(at, v) \/ VolumeNamed(v)
  BY <1>1, <1>3, <1>10, <1>11, GroupAssumption DEF DeployStands, VolumeNamed
<1>13. line[i].verb = "detach" => \A v \in Volume : UsedOn(at, v)' => UsedOn(at, v)
  BY <1>10, <1>11, GroupAssumption
<1>14. CASE Intent(at) = "running" /\ Done(i)
  <2>1. apps'[at] # None /\ Intent(at)' = "running" /\ (line[i].verb = "detach" => boxes'[at].mount = None)
    BY <1>4, <1>5, <1>7, <1>9, <1>11, <1>14
  <2> QED BY <1>1, <1>2, <1>7, <1>8, <1>12, <1>13, <1>14, <2>1, DoneKeeps
<1>15. CASE Become(i, [line[i] EXCEPT !.pc = "reassert"])
  <2>1. PICK n : n = [line[i] EXCEPT !.pc = "reassert"]
    OBVIOUS
  <2>2. /\ n \in GroupOps /\ n.pc = "reassert" /\ n.verb = line[i].verb /\ n.keys = line[i].keys
        /\ n.on = at /\ n.arg = line[i].arg /\ n.mount = line[i].mount
        /\ n.todo = line[i].todo /\ n.volume = line[i].volume /\ n.failed = line[i].failed
    BY <1>2, <1>3, <2>1 DEF GroupOps, GroupPcs
  <2>3. Formed(n)
    BY <1>1, <1>2, <1>3, <2>2 DEF Formed, Begun, OneBranch
  <2>4. Stands(n)'
    <3>1. BranchStands(n)' /\ DeployStands(n)'
      BY <1>1, <1>3, <1>5, <1>7, <2>2 DEF BranchStands, DeployStands, AtWork
    <3>2. RemovalStands(n)'
      <4> SUFFICES ASSUME n.verb = "detach"
                   PROVE  /\ record' = None /\ n.mount = None
                          /\ \A b \in live' : <<b, "branch">> \in n.keys
                          /\ \A b \in n.todo : b \in live' /\ apps'[b] # None
                          /\ boxes'[n.on].mount = None
                          /\ ~n.failed => \A b \in live' : UsedOn(b, n.volume)' => b \in n.todo \/ b = n.on
        BY <2>2 DEF RemovalStands
      <4>1. /\ line[i].volume \in Volume /\ record = None /\ line[i].mount = None
            /\ \A b \in live : <<b, "branch">> \in line[i].keys
            /\ \A b \in line[i].todo : b \in live /\ apps[b] # None
            /\ ~line[i].failed =>
                  \A b \in live : UsedOn(b, line[i].volume) => b \in line[i].todo \/ b = at
        BY <1>1, <1>2, <2>2, RemovalFacts
      <4>2. ~n.failed => \A c \in live' : UsedOn(c, n.volume)' => c \in n.todo \/ c = n.on
        <5> SUFFICES ASSUME ~n.failed, NEW c \in live', UsedOn(c, n.volume)', c # at PROVE c \in n.todo
          BY <2>2
        <5>1. c \in Branch /\ c \in live /\ n.volume \in Volume
          BY <1>1, <1>3, <2>2, <4>1 DEF GroupStore
        <5>2. UsedOn(c, n.volume)
          BY <1>8, <5>1, SameIsUsed
        <5> QED BY <2>2, <4>1, <5>1, <5>2
      <4>3. \A c \in n.todo : c \in live' /\ apps'[c] # None
        <5> SUFFICES ASSUME NEW c \in n.todo PROVE c \in live' /\ apps'[c] # None
          OBVIOUS
        <5>1. c \in live /\ apps[c] # None /\ c \in Branch
          BY <1>3, <2>2, <4>1 DEF GroupStore
        <5>2. apps'[c] # None
          <6>1. CASE c = at
            BY <1>5, <1>7, <6>1
          <6>2. CASE c # at
            BY <1>8, <5>1, <6>2 DEF Same
          <6> QED BY <6>1, <6>2
        <5> QED BY <1>1, <5>1, <5>2
      <4> QED BY <1>1, <1>4, <1>6, <1>7, <2>2, <4>1, <4>2, <4>3
    <3> QED BY <3>1, <3>2 DEF Stands
  <2>5. Become(i, n)
    BY <1>15, <2>1
  <2> DEFINE N == {n}
  <2>6. GroupLine' /\ \A o : InGroupLine(o)' <=> o \in N \/ Apart(i, o)
    BY <1>1, <1>2, <2>2, <2>3, <2>5, BecomeKeepsLine DEF GroupInv
  <2>7. /\ \A o \in N : o \in GroupOps => Stands(o)'
        /\ \E o \in N : o \in GroupOps /\ o.volume = line[i].volume
        /\ \E o \in N : o \in GroupOps /\ o.pc = "reassert" /\ o.on = at
    BY <2>2, <2>4
  <2> HIDE DEF N
  <2>8. BranchFine(at)'
    BY <1>1, <1>3, <1>5, <1>7, <2>6, <2>7, FineAfter
  <2>9. Tidy(i)
    BY <1>1, <1>2, <1>3, <1>6, <1>8, OwnIsTidy
  <2> QED BY <1>1, <1>2, <1>6, <1>7, <1>12, <2>6, <2>7, <2>8, <2>9, PlainStepKeeps
<1> QED BY <1>2, <1>14, <1>15 DEF Deployed

LEMMA ReassertKeeps == ASSUME GroupInv, NEW i \in DOMAIN line, Reassert(i) PROVE GroupInv'
<1>1. line[i].pc = "reassert" /\ Begun(line[i]) /\ UNCHANGED <<live, stored, apps, bytes>>
  BY DEF Reassert, At, Begun
<1>2. PICK at \in Branch : at = line[i].on
  BY OpFacts
<1>3. /\ line[i] \in GroupOps /\ Formed(line[i]) /\ GroupStore /\ at \in live
      /\ apps[at] # None /\ boxes[at] # None
  BY <1>1, <1>2, OpFacts DEF Stands, BranchStands, DeployStands, AtWork
<1>4. CASE /\ boxes' = [boxes EXCEPT ![at].state = IF Intent(at) = "stopped" THEN "down" ELSE "paused"]
           /\ Done(i) /\ UNCHANGED told
  <2>1. PICK s \in {"down", "paused"} : boxes' = [boxes EXCEPT ![at].state = s]
    BY <1>4
  <2>2. boxes[at] \in Boxes
    BY <1>3 DEF GroupStore
  <2>3. PICK x : /\ x = [boxes[at] EXCEPT !.state = s] /\ x \in Boxes /\ x.mount = boxes[at].mount
                 /\ x.state = s
    <3>1. LET y == [boxes[at] EXCEPT !.state = s] IN y \in Boxes /\ y.mount = boxes[at].mount /\ y.state = s
      BY <2>2 DEF Boxes
    <3> QED BY <3>1
  <2>4. boxes' = [boxes EXCEPT ![at] = x] /\ x # None /\ record' = record
    BY <1>4, <2>1, <2>3, GroupAssumption DEF Done
  <2>5. GroupStore' /\ boxes'[at] = x
    BY <1>1, <1>3, <1>4, <2>3, <2>4 DEF GroupStore
  <2>6. \A c \in Branch : c # at => Same(c)
    BY <1>1, <1>3, <1>4, <2>4 DEF Same, GroupStore
  <2>7. \A v \in Volume : UsedOn(at, v)' => UsedOn(at, v)
    BY <1>1, <1>3, <2>3, <2>5 DEF UsedOn
  <2>8. line[i].verb = "detach" => boxes'[at].mount = None
    BY <1>1, <1>2, <1>3, <2>3, <2>5, RemovalFacts
  <2> QED BY <1>1, <1>2, <1>3, <1>4, <2>3, <2>5, <2>6, <2>7, <2>8, DoneKeeps
<1>5. CASE told' = told \cup {at} /\ Failed(i) /\ UNCHANGED boxes
  <2>1. \A c \in Branch : c # at => Same(c)
    BY <1>1, <1>5 DEF Same
  <2>2. \A v \in Volume : UsedOn(at, v)' => UsedOn(at, v)
    BY <1>1, <1>5 DEF UsedOn
  <2>3. told' \subseteq live /\ boxes' \in [Branch -> Boxes \cup {None}] /\ at \in told'
    BY <1>3, <1>5 DEF GroupStore
  <2> QED BY <1>1, <1>2, <1>5, <2>1, <2>2, <2>3, FailedKeeps
<1> QED BY <1>2, <1>4, <1>5 DEF Reassert

LEMMA DeployBreaksKeeps == ASSUME GroupInv, NEW i \in DOMAIN line, DeployBreaks(i) PROVE GroupInv'
<1>1. line[i].pc = "deploying" /\ Begun(line[i]) /\ UNCHANGED <<live, stored, apps, bytes, told>>
  BY DEF DeployBreaks, At, Begun
<1>2. PICK at \in Branch : at = line[i].on
  BY OpFacts
<1>3. /\ line[i] \in GroupOps /\ Formed(line[i]) /\ GroupStore /\ at \in live
      /\ <<at, "branch">> \in line[i].keys /\ DeployStands(line[i])
      /\ line[i].mount \in Volume \cup {None} /\ line[i].ceiling \in Ceiling \cup {None}
  BY <1>1, <1>2, OpFacts DEF Stands, BranchStands, AtWork, GroupOps
<1>4. PICK x : /\ x = [mount |-> line[i].mount, ceiling |-> line[i].ceiling, state |-> "down"]
               /\ x \in Boxes /\ x.mount = line[i].mount /\ x.state = "down"
  <2>1. LET y == [mount |-> line[i].mount, ceiling |-> line[i].ceiling, state |-> "down"] IN
           y \in Boxes /\ y.mount = line[i].mount /\ y.state = "down"
    BY <1>3 DEF Boxes
  <2> QED BY <2>1
<1>5. boxes' = boxes \/ \E y \in {None, x} : boxes' = [boxes EXCEPT ![at] = y]
  BY <1>2, <1>4 DEF DeployBreaks
<1>6. boxes' \in [Branch -> Boxes \cup {None}] /\ boxes'[at] \in {boxes[at], None, x}
  BY <1>3, <1>4, <1>5 DEF GroupStore
<1>7. \A c \in Branch : c # at => Same(c)
  BY <1>1, <1>3, <1>5 DEF Same, GroupStore
<1>8. \A v \in Volume : UsedOn(at, v)' => UsedOn(at, v) \/ v = line[i].mount
  BY <1>1, <1>4, <1>6 DEF UsedOn
<1>9. line[i].verb = "detach" => line[i].mount = None
  BY <1>1, RemovalFacts
<1>10. \A v \in Volume : UsedOn(at, v)' => UsedOn(at, v) \/ VolumeNamed(v)
  BY <1>1, <1>3, <1>8, <1>9, GroupAssumption DEF DeployStands, VolumeNamed
<1>11. line[i].verb = "detach" => \A v \in Volume : UsedOn(at, v)' => UsedOn(at, v)
  BY <1>8, <1>9, GroupAssumption
<1>12. boxes'[at] # None /\ boxes'[at].state = "up" /\ Intent(at) # "running" => at \in told'
  BY <1>1, <1>3, <1>4, <1>6, MineAlone
<1>13. told' \subseteq live
  BY <1>1, <1>3 DEF GroupStore
<1>14. CASE Failed(i)
  BY <1>1, <1>2, <1>6, <1>7, <1>10, <1>11, <1>12, <1>13, <1>14, FailedKeeps
<1>15. UNCHANGED record => GroupStore' /\ Tidy(i) /\ Intent(at)' = Intent(at)
  BY <1>1, <1>2, <1>3, <1>6, <1>7, OwnIsTidy DEF GroupStore, Intent
<1>16. CASE /\ line[i].verb = "merge" /\ UNCHANGED record
            /\ line' = Append(RemoveAt(line, i), [line[i] EXCEPT !.pc = "queued", !.tries = @ + 1])
  <2>1. line[i].tries + 1 \in Nat
    BY <1>3 DEF GroupOps
  <2>2. PICK n : n = [line[i] EXCEPT !.pc = "queued", !.tries = @ + 1]
    OBVIOUS
  <2>3. /\ n \in GroupOps /\ n.pc = "queued" /\ n.verb = "merge" /\ n.keys = line[i].keys /\ n.on = at
        /\ n.arg = line[i].arg /\ n.volume = line[i].volume
    BY <1>2, <1>3, <1>16, <2>1, <2>2 DEF GroupOps, GroupPcs
  <2>4. Formed(n) /\ line[i].volume = None
    BY <1>1, <1>2, <1>3, <1>16, <2>3 DEF Formed, Begun, OneBranch
  <2>5. Stands(n)'
    BY <2>3 DEF Stands, BranchStands, DeployStands, RemovalStands, AtWork, Begun
  <2> DEFINE N == {n}
  <2>6. GroupLine' /\ \A o : InGroupLine(o)' <=> o \in N \/ Apart(i, o)
    BY <1>2, <1>16, <2>2, <2>3, <2>4, RequeueKeepsGroupLine DEF GroupInv, Begun
  <2>7. \A o \in N : o \in GroupOps => Stands(o)'
    BY <2>5
  <2> HIDE DEF N
  <2>8. \A v \in Volume : <<at, v>> \in bytes' => apps'[at] # None
    BY <1>1, <1>3, <1>16, MineAlone
  <2>9. BranchFine(at)'
    BY <1>1, <1>3, <1>12, <1>15, <1>16, <2>6, <2>8, FineAfter
  <2> QED BY <1>1, <1>2, <1>10, <1>15, <1>16, <2>4, <2>6, <2>7, <2>9, PlainStepKeeps
<1>17. CASE line[i].verb = "clone" /\ UNCHANGED record /\ Become(i, [line[i] EXCEPT !.tries = @ + 1])
  <2>1. line[i].tries + 1 \in Nat
    BY <1>3 DEF GroupOps
  <2>2. PICK n : n = [line[i] EXCEPT !.tries = @ + 1]
    OBVIOUS
  <2>3. /\ n \in GroupOps /\ n.pc = "deploying" /\ n.verb = "clone" /\ n.keys = line[i].keys /\ n.on = at
        /\ n.image = line[i].image /\ n.mount = line[i].mount /\ n.volume = line[i].volume
    BY <1>1, <1>2, <1>3, <1>17, <2>1, <2>2 DEF GroupOps
  <2>4. Formed(n) /\ line[i].volume = None
    BY <1>1, <1>2, <1>3, <1>17, <2>3 DEF Formed, Begun, OneBranch
  <2>5. Stands(n)'
    BY <1>1, <1>2, <1>3, <1>17, <2>3 DEF Stands, BranchStands, DeployStands, RemovalStands, AtWork
  <2>6. Become(i, n)
    BY <1>17, <2>2
  <2> DEFINE N == {n}
  <2>7. GroupLine' /\ \A o : InGroupLine(o)' <=> o \in N \/ Apart(i, o)
    BY <1>1, <1>2, <1>17, <2>3, <2>4, <2>6, BecomeKeepsLine DEF GroupInv
  <2>8. /\ \A o \in N : o \in GroupOps => Stands(o)'
        /\ \E o \in N : o \in GroupOps /\ o.verb = "clone" /\ Begun(o) /\ o.on = at
    BY <2>3, <2>5 DEF Begun
  <2> HIDE DEF N
  <2>9. BranchFine(at)'
    BY <1>1, <1>3, <1>12, <1>15, <1>17, <2>7, <2>8, FineAfter
  <2> QED BY <1>1, <1>2, <1>10, <1>15, <1>17, <2>4, <2>7, <2>8, <2>9, PlainStepKeeps
<1> QED BY <1>14, <1>16, <1>17 DEF DeployBreaks
-------------------------------------------------------------------------------
\* What the invariant shows.

LEMMA GroupBegins == GroupInit => GroupInv
<1> SUFFICES ASSUME GroupInit PROVE GroupInv
  OBVIOUS
<1>1. line = <<>> /\ live = {Main} /\ told = {} /\ stored = None /\ record \in Volume \cup {None}
  BY DEF GroupInit
<1>2. GroupLine /\ \A o : ~InGroupLine(o)
  BY <1>1 DEF GroupLine, InGroupLine
<1>3. CASE /\ apps = [b \in Branch |-> None] /\ boxes = [b \in Branch |-> None] /\ bytes = {}
  <2>1. GroupStore
    BY <1>1, <1>3, GroupAssumption DEF GroupStore
  <2> QED BY <1>2, <1>3, <2>1 DEF GroupInv, AllNamed, UsedOn, BranchFine
<1>4. ASSUME NEW image \in Image,
             apps = [b \in Branch |-> IF b = Main THEN [image |-> image, intent |-> "running"] ELSE None],
             boxes = [b \in Branch |-> IF b = Main THEN [mount |-> record, ceiling |-> None, state |-> "up"]
                                                     ELSE None],
             bytes = {<<Main, v>> : v \in {record} \ {None}}
      PROVE  GroupInv
  <2>1. PICK a : a = [image |-> image, intent |-> "running"]
    OBVIOUS
  <2>2. PICK x : x = [mount |-> record, ceiling |-> None, state |-> "up"]
    OBVIOUS
  <2>3. a \in Apps /\ x \in Boxes /\ x.mount = record /\ a.intent = "running"
    BY <1>1, <2>1, <2>2 DEF Apps, Boxes
  <2>4. a # None /\ x # None /\ Main \in Branch
    BY <2>3, GroupAssumption
  <2>5. /\ apps = [b \in Branch |-> IF b = Main THEN a ELSE None]
        /\ boxes = [b \in Branch |-> IF b = Main THEN x ELSE None]
    BY <1>4, <2>1, <2>2
  <2>6. GroupStore
    BY <1>1, <1>4, <2>3, <2>4, <2>5 DEF GroupStore
  <2>7. AllNamed
    BY <1>1, <1>4, <2>3, <2>5, GroupAssumption DEF AllNamed, UsedOn, VolumeNamed
  <2>8. ASSUME NEW b \in Branch PROVE BranchFine(b)
    <3>1. CASE b = Main
      BY <1>1, <2>3, <2>4, <2>5, <3>1 DEF BranchFine, Intent
    <3>2. CASE b # Main
      BY <1>1, <1>4, <2>4, <2>5, <3>2 DEF BranchFine, Intent
    <3> QED BY <3>1, <3>2
  <2> QED BY <1>2, <2>6, <2>7, <2>8 DEF GroupInv
<1> QED BY <1>3, <1>4 DEF GroupInit

LEMMA GroupStepKeeps ==
    ASSUME ~Dies, GroupInv, [GroupNext]_groupVars
    PROVE  GroupInv'
<1>1. CASE \E verb \in Verb, b \in Branch : Ask(verb, b)
  BY <1>1, AskKeeps
<1>2. CASE \E c \in Ceiling : AskResize(c)
  BY <1>2, AskResizeKeeps
<1>3. CASE \E b \in Branch : AskMerge(b)
  BY <1>3, AskMergeKeeps
<1>4. ASSUME NEW i \in DOMAIN line,
             \/ MergeDeploys(i) \/ Restart(i) \/ StartDeploy(i) \/ Deployed(i) \/ Reassert(i)
             \/ DeployBreaks(i) \/ Attach(i) \/ Detach(i) \/ RemoveVolume(i)
             \/ StartResize(i) \/ Update(i) \/ Resized(i) \/ Start(i) \/ Started(i) \/ Halt(i)
             \/ Clone(i) \/ ForkVolumes(i) \/ Unwind(i) \/ Delete(i)
      PROVE  GroupInv'
  BY <1>4, MergeDeploysKeeps, RestartKeeps, StartDeployKeeps, DeployedKeeps, ReassertKeeps,
     DeployBreaksKeeps, AttachKeeps, DetachKeeps, RemoveVolumeKeeps, StartResizeKeeps, UpdateKeeps,
     ResizedKeeps, StartKeeps, StartedKeeps, HaltKeeps, CloneKeeps, ForkVolumesKeeps, UnwindKeeps,
     DeleteKeeps
<1>5. CASE UNCHANGED groupVars
  <2> DEFINE N == {}
  <2>1. GroupLine' /\ \A o : InGroupLine(o)' <=> InGroupLine(o)
    BY <1>5 DEF groupVars, GroupInv, GroupLine, InGroupLine
  <2>2. \A n \in N : n \in GroupOps => Stands(n)'
    OBVIOUS
  <2>3. \A o : InGroupLine(o)' => o \in N \/ InGroupLine(o)
    BY <2>1
  <2> HIDE DEF N
  <2> QED BY <1>5, <2>1, <2>2, <2>3, LineStepKeeps DEF groupVars
<1>6. ~Killed
  BY DEF Killed
<1> QED BY <1>1, <1>2, <1>3, <1>4, <1>5, <1>6 DEF GroupNext

\* The inductive invariant of a group, where the daemon is not killed in the middle of an
\* operation: what it had taken from the record is written down nowhere.
THEOREM GroupInvariant == ASSUME ~Dies PROVE GroupSpec => []GroupInv
<1>1. GroupInv /\ [GroupNext]_groupVars => GroupInv'
  BY GroupStepKeeps
<1> QED BY <1>1, GroupBegins, PTL DEF GroupSpec

LEMMA GroupInvShows == GroupInv => VolumeAndIntentHold
<1> SUFFICES ASSUME GroupInv PROVE VolumeAndIntentHold
  OBVIOUS
<1>1. ASSUME NEW y \in bytes
      PROVE  /\ y[1] \in live
             /\ record = y[2] \/ \E i \in DOMAIN line : line[i].pc # "queued" /\ line[i].volume = y[2]
  <2>1. y[1] \in Branch /\ y[2] \in Volume /\ y = <<y[1], y[2]>>
    BY DEF GroupInv, GroupStore
  <2>2. UsedOn(y[1], y[2])
    BY <2>1 DEF UsedOn
  <2>3. y[1] \in live /\ VolumeNamed(y[2])
    BY <2>1, <2>2, UsedIsLive DEF GroupInv, AllNamed
  <2>4. ASSUME NEW o \in GroupOps, InGroupLine(o), o.volume = y[2]
        PROVE  \E i \in DOMAIN line : line[i].pc # "queued" /\ line[i].volume = y[2]
    <3>1. PICK i \in DOMAIN line : line[i] = o
      BY <2>4 DEF InGroupLine
    <3>2. Begun(o)
      BY <2>1, <2>4, <3>1, GroupAssumption DEF GroupInv, GroupLine, Formed
    <3> QED BY <2>4, <3>1, <3>2 DEF Begun
  <2> QED BY <2>3, <2>4 DEF VolumeNamed
<1>2. IntentHolds
  <2> SUFFICES ASSUME NEW b \in live, boxes[b] # None, boxes[b].state = "up", Intent(b) # "running"
               PROVE  b \in told \/ Working(b)
    BY DEF IntentHolds
  <2>1. b \in told \/ Reasserted(b)
    BY DEF GroupInv, GroupStore, BranchFine
  <2> QED BY <2>1 DEF Reasserted, InGroupLine, Working
<1> QED BY <1>1, <1>2 DEF VolumeAndIntentHold, BytesAreNamed

\* Whatever overlaps on the group and wherever docker fails, bytes on disk are named by the
\* record or by the removal that will put it back, and no container runs against the intent
\* of its branch unless the call that left it so said so.
THEOREM GroupTheorem == ASSUME ~Dies PROVE GroupSpec => []VolumeAndIntentHold
BY GroupInvariant, GroupInvShows, PTL

\* Only a deploy or a merge changes the image of a group.
LEMMA ImageStays ==
    ASSUME GroupInv, GroupNext, ~Dies, NEW b \in live \cap live',
           apps[b] # None, apps'[b] # None, apps'[b].image # apps[b].image
    PROVE  \E i \in DOMAIN line :
              At(i, "deploying") /\ line[i].on = b /\ line[i].verb \in {"deploy", "merge"}
<1>1. b \in Branch /\ apps[b] \in Apps /\ GroupStore
  BY DEF GroupInv, GroupStore
<1>2. apps' # apps
  OBVIOUS
<1>3. PICK i \in DOMAIN line : \/ Deployed(i) \/ Start(i) \/ Halt(i) \/ Unwind(i) \/ Delete(i)
  BY <1>2 DEF GroupNext, Ask, AskResize, AskMerge, MergeDeploys, Restart, StartDeploy, Reassert,
     DeployBreaks, Attach, Detach, RemoveVolume, StartResize, Update, Resized, Started, Clone,
     ForkVolumes, Killed
<1>4. PICK at \in Branch : at = line[i].on
  BY OpFacts
<1>5. CASE Deployed(i)
  <2>1. PICK a : a = [image |-> line[i].image, intent |-> Intent(at)]
    OBVIOUS
  <2>2. apps' = [apps EXCEPT ![at] = a] /\ line[i].pc = "deploying"
    BY <1>4, <1>5, <2>1 DEF Deployed, At
  <2>3. a.image = line[i].image
    BY <2>1
  <2>4. b = at /\ apps'[at].image = line[i].image
    BY <1>1, <2>2, <2>3 DEF GroupStore
  <2>5. Formed(line[i]) /\ DeployStands(line[i])
    BY OpFacts DEF Stands
  <2>6. line[i].verb \in {"deploy", "merge"}
    BY <1>4, <2>2, <2>4, <2>5 DEF Formed, Deployers, DeployStands
  <2> QED BY <1>4, <2>2, <2>4, <2>6 DEF At
<1>6. CASE Start(i) \/ Halt(i)
  <2>1. PICK t \in {"running", "stopped", "suspended"} : apps' = [apps EXCEPT ![at].intent = t]
    BY <1>2, <1>4, <1>6 DEF Start, Halt
  <2>2. PICK a : a = [apps[at] EXCEPT !.intent = t]
    OBVIOUS
  <2>3. apps' = [apps EXCEPT ![at] = a] /\ (apps[at] \in Apps => a.image = apps[at].image)
    BY <2>1, <2>2 DEF Apps
  <2> QED BY <1>1, <2>3 DEF GroupStore
<1>7. CASE Unwind(i) \/ Delete(i)
  <2>1. apps' = [apps EXCEPT ![at] = None]
    BY <1>2, <1>4, <1>7 DEF Unwind, Delete, Gone
  <2> QED BY <1>1, <2>1 DEF GroupStore
<1> QED BY <1>3, <1>5, <1>6, <1>7

\* Bytes go only once no container has them.
LEMMA BytesGoLast ==
    ASSUME GroupInv, GroupNext, ~Dies, NEW y \in bytes \ bytes'
    PROVE  boxes'[y[1]] = None \/ boxes'[y[1]].mount # y[2]
<1>1. y[1] \in Branch /\ y[2] \in Volume /\ GroupStore
  BY DEF GroupInv, GroupStore
<1>2. PICK i \in DOMAIN line : RemoveVolume(i) \/ Unwind(i) \/ Delete(i)
  BY DEF GroupNext, Ask, AskResize, AskMerge, MergeDeploys, Restart, StartDeploy, Deployed, Reassert,
     DeployBreaks, Attach, Detach, StartResize, Update, Resized, Start, Started, Halt, Clone,
     ForkVolumes, Killed
<1>3. PICK at \in Branch : at = line[i].on
  BY OpFacts
<1>4. CASE RemoveVolume(i)
  <2>1. line[i].pc = "bytes" /\ Begun(line[i]) /\ boxes' = boxes /\ y = <<line[i].on, line[i].volume>>
    BY <1>4 DEF RemoveVolume, At, Begun
  <2>2. line[i].verb = "detach"
    BY <2>1, OpFacts DEF Formed
  <2>3. boxes[line[i].on] # None => boxes[line[i].on].mount = None
    BY <2>1, <2>2, RemovalFacts
  <2> QED BY <1>1, <2>1, <2>3, GroupAssumption
<1>5. CASE Unwind(i) \/ Delete(i)
  <2>1. bytes' = {z \in bytes : z[1] # at} /\ boxes' = [boxes EXCEPT ![at] = None]
    BY <1>3, <1>5 DEF Unwind, Delete, Gone
  <2>2. y[1] = at
    BY <2>1
  <2> QED BY <1>1, <2>1, <2>2 DEF GroupStore
<1> QED BY <1>2, <1>4, <1>5

\* A restart, a removal and a clone keep the image a group runs, and a removal takes no bytes
\* from under a container.
THEOREM RebuildsTheorem == ASSUME ~Dies PROVE GroupSpec => RebuildsKeep
<1>1. GroupInv /\ [GroupNext]_groupVars =>
         [/\ \A b \in live \cap live' :
                apps[b] # None /\ apps'[b] # None /\ apps'[b].image # apps[b].image =>
                   \E i \in DOMAIN line : At(i, "deploying") /\ line[i].on = b
                                            /\ line[i].verb \in {"deploy", "merge"}
          /\ \A y \in bytes \ bytes' : boxes'[y[1]] = None \/ boxes'[y[1]].mount # y[2]]_groupVars
  BY ImageStays, BytesGoLast
<1> QED BY <1>1, GroupInvariant, PTL DEF GroupSpec, RebuildsKeep
=============================================================================
