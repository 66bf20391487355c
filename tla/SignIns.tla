-------------------------------- MODULE SignIns --------------------------------
(***************************************************************************)
(* SignInLimiter (identity.ts) and signIn (auth.ts): an address whose      *)
(* password attempts failed too often is turned away before the password   *)
(* is looked at.  The failures are kept in memory, in the order of the     *)
(* last failure of each address, and the map of them is bounded.  What a   *)
(* sign-in that succeeds gets, its session, is Access.                     *)
(***************************************************************************)
EXTENDS Access, Filters, SequencesExt

CONSTANTS
    Ip,           \* addresses
    Window,       \* windowMs
    MaxFailures,  \* max: so many within a window turn the next attempt away
    MaxIps,       \* maxIps: addresses that are remembered
    LastTry       \* bound: the clock

ASSUME SignInsAssumption ==
    /\ {Window, MaxFailures, MaxIps} \subseteq Nat \ {0}
    /\ LastTry \in Nat

VARIABLES
    time,      \* the clock
    failures,  \* the Map, oldest entry first: an address and when it failed
    since      \* (ghost) when each address failed since it last signed in or was dropped

signInsVars == <<time, failures, since>>

Fresh == [i \in Ip |-> <<>>]
Within(times) == Filtered(times, {t \in 0 .. time : time - t < Window})
EntriesOf(ip) == {f \in Range(failures) : f.ip = ip}
Others(ip) == Filtered(failures, {f \in Range(failures) : f.ip # ip})

\* What is remembered of an address: at most one entry is its own.
TimesOf(ip) == IF EntriesOf(ip) = {} THEN <<>> ELSE (CHOOSE f \in EntriesOf(ip) : TRUE).times

\* recent: what is left of it in this window.
RecentOf(ip) == Within(TimesOf(ip))

\* Mutant: the window is not looked at.
BlockedForGood(ip) == Len(TimesOf(ip)) >= MaxFailures

Blocked(ip) == Len(RecentOf(ip)) >= MaxFailures
-----------------------------------------------------------------------------
\* Mutant: an entry keeps its place when it is written again.
PutInPlace(ip) ==
    LET e == [ip |-> ip, times |-> Append(RecentOf(ip), time)] IN
    IF EntriesOf(ip) = {} THEN Append(failures, e)
    ELSE [i \in DOMAIN failures |-> IF failures[i].ip = ip THEN e ELSE failures[i]]

\* fail: deleted and set again, the entry becomes the newest.
Put(ip) == Append(Others(ip), [ip |-> ip, times |-> Append(RecentOf(ip), time)])

\* prune: entries whose last failure left the window, and the oldest while there are too many.
Prune(list) ==
    LET live == Filtered(list, {f \in Range(list) : time - Last(f.times) < Window}) IN
    IF Len(live) <= MaxIps THEN live ELSE SubSeq(live, Len(live) - MaxIps + 1, Len(live))

\* signIn with a wrong password or address, where it is looked at.
Wrong(ip) ==
    /\ ~Blocked(ip)
    /\ failures' = Prune(Put(ip))
    /\ LET kept == {failures'[i].ip : i \in DOMAIN failures'} IN
       since' = [i \in Ip |-> CASE i = ip /\ ip \in kept -> Append(Within(since[i]), time)
                                [] i # ip /\ i \in kept -> since[i]
                                [] OTHER -> <<>>]
    /\ UNCHANGED time

\* With the right one: clear.
Right(ip) ==
    /\ ~Blocked(ip)
    /\ failures' = Others(ip)
    /\ since' = [since EXCEPT ![ip] = <<>>]
    /\ UNCHANGED time

Reboot == failures' = <<>> /\ since' = Fresh /\ UNCHANGED time

Passes == time < LastTry /\ time' = time + 1 /\ UNCHANGED <<failures, since>>

SignInsInit == time = 0 /\ failures = <<>> /\ since = Fresh

SignInsNext == Passes \/ Reboot \/ \E ip \in Ip : Wrong(ip) \/ Right(ip)

SignInsSpec == SignInsInit /\ [][SignInsNext]_signInsVars
-----------------------------------------------------------------------------
\* However entries are rewritten, pruned and dropped: who failed so often within the window
\* is turned away, who did not is not; and nobody is forgotten before an address that failed
\* longer ago.
AttemptsHold ==
    /\ \A ip \in Ip : Blocked(ip) <=> Len(Within(since[ip])) >= MaxFailures
    /\ Len(failures) <= MaxIps
    /\ \A i, j \in DOMAIN failures : i < j => Last(failures[i].times) <= Last(failures[j].times)

\* Who is let in: by a session as long as it was promised and no longer than it was ended, and
\* by a password unless the address failed too often.
AdmissionHolds == SessionsKept /\ AttemptsHold
=============================================================================
