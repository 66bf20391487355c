------------------------------- MODULE DirLock -------------------------------
(***************************************************************************)
(* The process lock of a data directory (src/src/state.ts: acquireLock,    *)
(* releaseLock): a file created exclusively, kept alive by a heartbeat,    *)
(* and taken over by whoever finds it stale.  The processes are daemons    *)
(* and their restarts; each system call on the file is a step of its own.  *)
(* Time goes in beats: a daemon that is not stalled keeps its beat, and    *)
(* the synchronous steps of a boot take no time, though they interleave.   *)
(***************************************************************************)
EXTENDS Integers, FiniteSets

CONSTANTS
    Proc,        \* processes on the directory
    Stale,       \* staleMs: a heartbeat older than this is a dead holder
    Timeout,     \* timeoutMs: how long a boot retries a fresh lock
    Retry,       \* retryMs
    Beat,        \* heartbeatMs
    Contenders,  \* how many of them boot at the same time
    Stalls,      \* whether a holder may be stopped for longer than its beat
    MaxBoots,    \* bound: boots in all
    MaxClock,    \* bound: the last instant
    None

ASSUME DirLockAssumption ==
    /\ IsFiniteSet(Proc)
    /\ Stale \in Nat /\ Timeout \in Nat /\ Retry \in Nat \ {0} /\ Beat \in Nat \ {0}
    /\ Beat < Stale
    /\ Contenders \in Nat \ {0} /\ MaxBoots \in Nat /\ MaxClock \in Nat
    /\ Stalls \in BOOLEAN
    /\ None \notin [boot : Nat, mtime : Nat]

VARIABLES
    now,      \* the clock
    file,     \* instad.lock: the boot that created it and its mtime, or None
    proc,     \* a process: where it is, its bootId and what it remembers
    stalled,  \* processes that are stopped for the time being
    boots,    \* history: how many boots there were
    newest,   \* history: the boot that acquired the lock last
    shaken    \* history: the boots that were ever stalled

dirLockVars == <<now, file, proc, stalled, boots, newest, shaken>>

\* Its memory: when acquireLock began, when its sleep ends, the mtime of its last stat,
\* staleTakeovers, and when its heartbeat last fired.
Dead == [pc |-> "down", boot |-> 0, started |-> 0, wake |-> 0, seen |-> 0, takeovers |-> 0,
         beat |-> 0]

Acquiring == {"open", "stat", "unlink", "wait", "sleep"}
Up == {p \in Proc : proc[p].pc = "up"}
Booting == {p \in Proc : proc[p].pc \in Acquiring}

DirLockInit ==
    /\ now = 0
    /\ file = None
    /\ proc = [p \in Proc |-> Dead]
    /\ stalled = {}
    /\ boots = 0
    /\ newest = 0
    /\ shaken = {}

Goto(p, at) == proc' = [proc EXCEPT ![p].pc = at]

-------------------------------------------------------------------------------
Boot(p) ==
    /\ proc[p].pc = "down"
    /\ boots < MaxBoots /\ Cardinality(Booting) < Contenders
    /\ boots' = boots + 1
    /\ proc' = [proc EXCEPT ![p] =
                   [Dead EXCEPT !.pc = "open", !.boot = boots + 1, !.started = now]]
    /\ UNCHANGED <<now, file, stalled, newest, shaken>>

\* The lock file with its body.
NewFile(p) == [boot |-> proc[p].boot, mtime |-> now]

\* open with O_EXCL.
Open(p) ==
    /\ proc[p].pc = "open"
    /\ \/ /\ file = None
          /\ file' = NewFile(p)
          /\ newest' = proc[p].boot
          /\ proc' = [proc EXCEPT ![p] =
                         [Dead EXCEPT !.pc = "up", !.boot = proc[p].boot, !.beat = now]]
       \/ /\ file # None
          /\ Goto(p, "stat")
          /\ UNCHANGED <<file, newest, shaken>>
    /\ UNCHANGED <<now, stalled, boots, shaken>>

\* (Mutant: as old as a beat is stale already.)
IsStaleEarly == now - file.mtime >= Beat
IsStale == now - file.mtime > Stale

Stat(p) ==
    /\ proc[p].pc = "stat"
    /\ IF file = None THEN Goto(p, "open")
       ELSE proc' = [proc EXCEPT ![p].seen = file.mtime,
                                 ![p].pc = IF IsStale THEN "unlink" ELSE "wait"]
    /\ UNCHANGED <<now, file, stalled, boots, newest, shaken>>

\* unlink takes away whatever is there by now; only the first takeover retries at once.
Unlink(p) ==
    /\ proc[p].pc = "unlink"
    /\ file' = None
    /\ proc' = [proc EXCEPT ![p].takeovers = @ + 1,
                            ![p].pc = IF proc[p].takeovers = 0 THEN "open" ELSE "wait"]
    /\ UNCHANGED <<now, stalled, boots, newest, shaken>>

\* The deadline of a boot.
Deadline(p) == proc[p].started + Timeout

Refuse(p) ==
    /\ proc[p].pc = "wait" /\ now >= Deadline(p)
    /\ proc' = [proc EXCEPT ![p] = Dead]
    /\ UNCHANGED <<now, file, stalled, boots, newest, shaken>>

Sleep(p) ==
    LET left == Deadline(p) - now IN
    /\ proc[p].pc = "wait" /\ left > 0
    /\ proc' = [proc EXCEPT ![p].wake = now + IF left < Retry THEN left ELSE Retry,
                            ![p].pc = "sleep"]
    /\ UNCHANGED <<now, file, stalled, boots, newest, shaken>>

WakeUp(p) ==
    /\ proc[p].pc = "sleep" /\ now >= proc[p].wake
    /\ Goto(p, "open")
    /\ UNCHANGED <<now, file, stalled, boots, newest, shaken>>

-------------------------------------------------------------------------------
\* The heartbeat touches the path, whosever file is there.
Heartbeat(p) ==
    /\ p \in Up \ stalled /\ now >= proc[p].beat + Beat
    /\ file' = IF file = None THEN None ELSE [file EXCEPT !.mtime = now]
    /\ proc' = [proc EXCEPT ![p].beat = now]
    /\ UNCHANGED <<now, stalled, boots, newest, shaken>>

\* releaseLock: the lock is removed only when it is still this boot's.  (Mutant: always.)
AfterAnyRelease(p) == None
AfterRelease(p) == IF file # None /\ file.boot = proc[p].boot THEN None ELSE file

ReleaseLock(p) ==
    /\ p \in Up \ stalled
    /\ file' = AfterRelease(p)
    /\ proc' = [proc EXCEPT ![p] = Dead]
    /\ UNCHANGED <<now, stalled, boots, newest, shaken>>

\* SIGKILL: the file stays.
Kill(p) ==
    /\ proc[p].pc # "down"
    /\ proc' = [proc EXCEPT ![p] = Dead]
    /\ stalled' = stalled \ {p}
    /\ UNCHANGED <<now, file, boots, newest, shaken>>

\* A suspended machine, a stopped process, an event loop that is blocked.
Stall(p) ==
    /\ Stalls /\ p \in Up \ stalled
    /\ stalled' = stalled \cup {p}
    /\ shaken' = shaken \cup {proc[p].boot}
    /\ UNCHANGED <<now, file, proc, boots, newest>>

Resume(p) ==
    /\ p \in stalled
    /\ stalled' = stalled \ {p}
    /\ UNCHANGED <<now, file, proc, boots, newest, shaken>>

\* Time passes over neither a heartbeat that is due nor the synchronous steps of a boot.
Tick ==
    /\ now < MaxClock
    /\ \A p \in Up \ stalled : now < proc[p].beat + Beat
    /\ \A p \in Booting : proc[p].pc = "sleep"
    /\ now' = now + 1
    /\ UNCHANGED <<file, proc, stalled, boots, newest, shaken>>

DirLockNext ==
    \/ Tick
    \/ \E p \in Proc :
          \/ Boot(p) \/ Open(p) \/ Stat(p) \/ Unlink(p) \/ Refuse(p) \/ Sleep(p) \/ WakeUp(p)
          \/ Heartbeat(p) \/ ReleaseLock(p) \/ Kill(p) \/ Stall(p) \/ Resume(p)

DirLockSpec == DirLockInit /\ [][DirLockNext]_dirLockVars
-------------------------------------------------------------------------------
\* The types of the lock's state.
DirLockTypeOK ==
    /\ now \in 0 .. MaxClock
    /\ file \in [boot : 1 .. MaxBoots, mtime : 0 .. now] \cup {None}
    /\ proc \in [Proc -> [pc : Acquiring \cup {"down", "up"}, boot : 0 .. boots,
                          started : 0 .. now, wake : Nat, seen : 0 .. now,
                          takeovers : Nat, beat : 0 .. now]]
    /\ stalled \subseteq Up
    /\ boots \in 0 .. MaxBoots /\ newest \in 0 .. boots /\ shaken \subseteq 1 .. boots

\* One daemon per data directory: two are up at the same time only if one of them was
\* stopped for a while, could not keep its heartbeat and does not know.
OneHolder ==
    \A p, q \in Up : p # q => proc[p].boot \in shaken \/ proc[q].boot \in shaken

\* A boot is refused only by somebody who was alive after it began: a restart on the heels
\* of a killed daemon waits the dead heartbeat out instead of failing.
RefusedByTheLiving ==
    [][\A p \in Proc : Refuse(p) => proc[p].seen >= proc[p].started]_dirLockVars

\* A holder that was stalled, taken over and comes back leaves its successor's lock alone
\* when it goes.
ReleaseLeavesSuccessor ==
    [][\A p \in Proc : ReleaseLock(p) /\ proc[p].boot # newest => file' = file]_dirLockVars

\* The directory passes from daemon to daemon only that way.
HandsOver == RefusedByTheLiving /\ ReleaseLeavesSuccessor
===============================================================================
