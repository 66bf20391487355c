------------------------------ MODULE Headroom ------------------------------
(***************************************************************************)
(* How much memory there is to wake services into (scheduler.ts,           *)
(* DockerRuntime): from the tighter of the process's cgroup ceiling and    *)
(* the machine's /proc/meminfo, the ZFS cache's reclaimable part added     *)
(* back; or, under a budget, from the last `docker stats`, which a stop    *)
(* that returns meanwhile must be taken out of.  What the eviction pass    *)
(* does with the answer is module Scheduler.                               *)
(***************************************************************************)
EXTENDS Integers, FiniteSets, Functions

CONSTANTS
    Box,       \* the daemon's containers
    Budgets,   \* INSTA_OSS_MEM_BUDGET_MB, of the behaviours that have one
    Machines,  \* what /proc/meminfo and arcstats may read
    Ceilings,  \* what the cgroup's files may read
    MaxUse,    \* bound: what a container uses
    Flaky,     \* whether a file that is there may fail to be read
    Absent     \* nothing there

ASSUME HeadroomAssumption ==
    /\ IsFiniteSet(Box)
    /\ Budgets \subseteq Nat /\ MaxUse \in Nat /\ Flaky \in BOOLEAN
    /\ Machines \subseteq [total : Nat, available : Nat, arc : Nat, floor : Nat]
    /\ Ceilings \subseteq [total : Nat, current : Nat, reclaimable : Nat]
    /\ Absent \notin Nat \cup [Box -> Nat] \cup [total : Nat, available : Nat]

VARIABLES
    budget,    \* of this daemon, or Absent
    limit,     \* what each of the kernel's two views has in total on this box, or Absent
    missing,   \* meminfoMissing, cgroupMissing: what is not looked at again
    uses,      \* by container, 0 when it is down
    sampled,   \* lastRss, 0 where there is no sample
    counted,   \* lastRssTotal
    reading,   \* a `docker stats` in flight: what docker has seen, or Absent
    halted,    \* containers a `docker stop` in flight has stopped
    overtaken, \* (ghost) stopped while a sample from before was on its way, or by a call that was given up
    told       \* the last answer

samples == <<uses, sampled, counted, reading, halted, overtaken>>
headroomVars == <<budget, limit, missing, samples, told>>

Down == [b \in Box |-> 0]
View == {"meminfo", "cgroup"}
Smaller(a, b) == IF a <= b THEN a ELSE b
Larger(a, b) == IF a <= b THEN b ELSE a
Memory(total, available) == [total |-> total, available |-> available]
-----------------------------------------------------------------------------
\* The kernel's two views.

\* arcReclaimable: what the ZFS cache gives back, down to its floor.
ArcReclaimable(m) == Larger(0, m.arc - m.floor)

\* Mutant: the two files are not held against each other.
UnclampedMemory(m) == Memory(m.total, m.available + ArcReclaimable(m))

\* hostMemory
HostMemory(m) == Memory(m.total, Smaller(m.total, m.available + ArcReclaimable(m)))

\* cgroupMemory
CgroupMemory(c) == Memory(c.total, Larger(0, Smaller(c.total, c.total - c.current + c.reclaimable)))

\* Mutant: the machine's view, when there is one.
MachineFirst(host, ceiling) == IF host # Absent THEN host ELSE ceiling

\* The tighter view wins.
Tighter(host, ceiling) ==
    IF ceiling # Absent /\ (host = Absent \/ ceiling.total < host.total) THEN ceiling ELSE host

\* A view that is looked at: it reads, or it does not and is not looked at again.
Reads(view, answers, answer) ==
    \/ view \in missing /\ answer = Absent
    \/ view \notin missing /\ limit[view] # Absent /\ answer \in answers /\ answer.total = limit[view]
    \/ view \notin missing /\ (limit[view] = Absent \/ Flaky) /\ answer = Absent

Hosts == {HostMemory(m) : m \in Machines}
Cgroups == {CgroupMemory(c) : c \in Ceilings}

\* memory(), from the kernel
AskKernel ==
    /\ budget = Absent
    /\ \E host \in {Absent} \cup Hosts, ceiling \in {Absent} \cup Cgroups :
          /\ Reads("meminfo", Hosts, host)
          /\ Reads("cgroup", Cgroups, ceiling)
          /\ missing' = missing \cup {v \in View : \/ v = "meminfo" /\ host = Absent
                                                   \/ v = "cgroup" /\ ceiling = Absent}
          /\ told' = Tighter(host, ceiling)
    /\ UNCHANGED <<budget, limit, samples>>
-----------------------------------------------------------------------------
\* The budget, and what is counted against it.

AskBudget ==
    /\ budget # Absent
    /\ told' = Memory(budget, Larger(0, budget - counted))
    /\ UNCHANGED <<budget, limit, missing, samples>>

\* `docker stats` of the sweep: docker looks, and the answer arrives.
StatsTaken ==
    /\ reading = Absent
    /\ reading' = uses
    /\ UNCHANGED <<budget, limit, missing, uses, sampled, counted, halted, overtaken, told>>

StatsArrive ==
    /\ reading # Absent
    /\ sampled' = reading
    /\ counted' = SumFunction(reading)
    /\ overtaken' = {b \in overtaken : reading[b] # 0 /\ uses[b] = 0}
    /\ reading' = Absent
    /\ UNCHANGED <<budget, limit, missing, uses, halted, told>>

StatsFail ==
    /\ reading # Absent
    /\ reading' = Absent
    /\ UNCHANGED <<budget, limit, missing, uses, sampled, counted, halted, overtaken, told>>

\* A container starts, or comes to use more or less.
Uses(b, n) ==
    /\ n > 0 /\ b \notin halted
    /\ uses' = [uses EXCEPT ![b] = n]
    /\ overtaken' = overtaken \ {b}
    /\ UNCHANGED <<budget, limit, missing, sampled, counted, reading, halted, told>>

\* `docker stop` does its work, and answers; of one that is down already, too.
Halts(b) ==
    /\ b \notin halted
    /\ uses' = [uses EXCEPT ![b] = 0]
    /\ halted' = halted \cup {b}
    /\ UNCHANGED <<budget, limit, missing, sampled, counted, reading, overtaken, told>>

\* Mutant: the sample stays where it was.
StoppedKeepingSample(b) ==
    /\ counted' = Larger(0, counted - sampled[b])
    /\ UNCHANGED sampled

\* stop(): its sample is taken out of the total.
Stopped(b) ==
    /\ counted' = Larger(0, counted - sampled[b])
    /\ sampled' = [sampled EXCEPT ![b] = 0]

StopAnswers(b) ==
    /\ b \in halted
    /\ halted' = halted \ {b}
    /\ Stopped(b)
    /\ overtaken' = IF reading # Absent /\ reading[b] # 0 THEN overtaken \cup {b} ELSE overtaken
    /\ UNCHANGED <<budget, limit, missing, uses, reading, told>>

\* A stop that the caller gave up on: docker may have done it all the same.
StopGivenUp(b) ==
    /\ b \in halted
    /\ halted' = halted \ {b}
    /\ overtaken' = overtaken \cup {b}
    /\ UNCHANGED <<budget, limit, missing, uses, sampled, counted, reading, told>>

HeadroomInit ==
    /\ budget \in Budgets \cup {Absent}
    /\ limit \in [meminfo : {Absent} \cup {m.total : m \in Machines},
                  cgroup : {Absent} \cup {c.total : c \in Ceilings}]
    /\ missing = {}
    /\ uses = Down /\ sampled = Down /\ counted = 0
    /\ reading = Absent /\ halted = {} /\ overtaken = {}
    /\ told = Absent

HeadroomNext ==
    \/ AskKernel \/ AskBudget \/ StatsTaken \/ StatsArrive \/ StatsFail
    \/ \E b \in Box : Halts(b) \/ StopAnswers(b) \/ StopGivenUp(b) \/ \E n \in 1..MaxUse : Uses(b, n)

HeadroomSpec == HeadroomInit /\ [][HeadroomNext]_headroomVars
-----------------------------------------------------------------------------
\* What is available is some of what there is, whatever the files say of each other: the
\* floor is a share of one and compared with the other.
AnswerIsBounded == told # Absent => 0 <= told.available /\ told.available <= told.total

\* "The tighter of the two views wins", on a box whose files can be read.
TighterWins ==
    told # Absent /\ budget = Absent /\ ~Flaky =>
        \A v \in View : limit[v] # Absent => told.total <= limit[v]

\* The total is that of the samples, whatever samples arrive and stops answer between; so no
\* container is taken out of it twice.
CountedIsSampled == counted = SumFunction(sampled)

\* What was stopped is not counted, unless its sample was on its way when it was, or the
\* call that stopped it was given up.
StoppedIsFreed ==
    \A b \in Box : uses[b] = 0 /\ b \notin halted \cup overtaken
                     /\ (reading # Absent => reading[b] = 0) => sampled[b] = 0

HeadroomHolds == AnswerIsBounded /\ TighterWins /\ CountedIsSampled /\ StoppedIsFreed

\* What does not hold.  A sample that was on its way brings a stopped container back into the
\* total until the next one ("stop() can take that container out of the running total instead
\* of waiting for the next sweep").
FreedAtOnce ==
    \A b \in Box : uses[b] = 0 /\ b \notin halted /\ reading = Absent => sampled[b] = 0

\* And, where a file that is there can fail to be read once (Flaky), it is never looked at
\* again: the machine's view is told inside a smaller ceiling.
CeilingIsAsked ==
    told # Absent /\ budget = Absent /\ limit["cgroup"] # Absent => told.total <= limit["cgroup"]
=============================================================================
