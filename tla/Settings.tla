------------------------------ MODULE Settings ------------------------------
(***************************************************************************)
(* The settings of one postgres service on one branch (engine.ts): the     *)
(* ceiling docker holds its container to, the password its server asks     *)
(* for, its size, and its name.  Each is kept twice, once where it takes   *)
(* effect and once in the document that containers, people and later       *)
(* calls read; docker's or postgres's answer comes between the two.        *)
(*                                                                         *)
(* Calls on a name take turns under its key (module OpLock); what they     *)
(* captured of the row before they queued is theirs until they end.  The   *)
(* size is advisory and is written outside the key.                        *)
(***************************************************************************)
EXTENDS Integers, FiniteSets

CONSTANTS
    Caller,      \* settings calls in flight
    PgName,    \* names the service may go by
    Password,
    Cpu, Memory, Gib, \* what people ask for: vCPUs, MB, Gi
    MaxTorn,   \* bound: how many replies are lost
    TakesBack, \* bound: whether a rename may go back to a name a call still goes by
    Unsaid

Ladder == {1, 2, 4, 6, 8}
CapMb == 8192

ASSUME SettingsAssumption ==
    Unsaid \notin Cpu /\ Cpu \subseteq Nat /\ Memory \subseteq Nat /\ Gib \subseteq Nat \ {0}
    /\ MaxTorn \in Nat /\ TakesBack \in BOOLEAN
    /\ Unsaid \notin Caller \cup PgName

VARIABLES
    kept,     \* the row: container, url (host and password), limits, gib
    server,   \* the container: name, limits, password
    calls,
    holder,   \* of each name's key
    torn,     \* (ghost) what took effect though the call that did it does not know
    lost,     \* replies lost
    largest   \* (ghost) the largest size accepted

settingsVars == <<kept, server, calls, holder, torn, lost, largest>>

Unlimited == [cpu |-> 0, memoryMb |-> 0]
Free == [verb |-> "none", at |-> "none", on |-> Unsaid, to |-> Unsaid, limits |-> Unlimited, gib |-> 0, want |-> 0]
-----------------------------------------------------------------------------
\* The grid of ceilings.

Least(S) == CHOOSE c \in S : \A d \in S : c <= d
Greatest(S) == CHOOSE c \in S : \A d \in S : d <= c

OnGrid(limits) ==
    /\ limits.cpu \in Ladder
    /\ limits.memoryMb % 256 = 0
    /\ 256 * limits.cpu <= limits.memoryMb /\ limits.memoryMb <= 2048 * limits.cpu
    /\ limits.memoryMb <= CapMb

\* Mutant: the derived size is not held to the memory's own multiple.
AcceptedByCpu(cpu, mb) ==
    LET carries == {c \in Ladder : mb <= c * 2048}
        size == IF cpu # Unsaid THEN cpu ELSE IF carries = {} THEN 0 ELSE Least(carries)
    IN {l \in {[cpu |-> size, memoryMb |-> mb]} : l.cpu \in Ladder /\ mb <= 2048 * l.cpu}

\* validateLimits: the ceiling asked for, if the grid has it; an unset cpu is the smallest
\* size that carries the memory.
Accepted(cpu, mb) ==
    LET carries == {c \in Ladder : mb <= c * 2048}
        size == IF cpu # Unsaid THEN cpu ELSE IF carries = {} THEN 0 ELSE Least(carries)
    IN {l \in {[cpu |-> size, memoryMb |-> mb]} : OnGrid(l)}

\* parseCpuQuantity: up to the next size there is; none above the last.
Snapped(cpu) == LET enough == {c \in Ladder : c >= cpu} IN IF enough = {} THEN 0 ELSE Least(enough)

\* hostCeiling: what a service runs under when nothing was set, on a host of that many cores
\* and that many blocks of 256 MB.
HostCeiling(cores, blocks) ==
    LET fits == {c \in Ladder : c <= cores}
        cpu == IF fits = {} THEN 1 ELSE Greatest(fits)
        atMost == Least({CapMb, 2048 * cpu, 256 * blocks})
    IN [cpu |-> cpu, memoryMb |-> Greatest({256 * cpu, atMost})]
-----------------------------------------------------------------------------
Start(c, call) == calls' = [calls EXCEPT ![c] = call]
Ends(c) == calls' = [calls EXCEPT ![c] = Free]

\* dbSettings, the size: it may not be less than it was when the call came.
Grows(gib, want) == want # 0 /\ want > gib

Resized(gib, want) ==
    IF Grows(gib, want)
    THEN kept' = [kept EXCEPT !.gib = want] /\ largest' = Greatest({largest, want})
    ELSE UNCHANGED <<kept, largest>>

\* PATCH database/settings: what is asked for, completed from the row as it is now.  (A size
\* that is not more, where the call names none.)
PatchSize(want) ==
    /\ Resized(kept.gib, want)
    /\ UNCHANGED <<server, calls, holder, torn, lost>>

PatchLimits(c, cpu, mb, want) ==
    /\ calls[c] = Free
    /\ cpu # Unsaid \/ mb # Unsaid
    /\ mb # Unsaid \/ kept.limits # Unlimited
    /\ LET withCpu == IF cpu # Unsaid THEN Snapped(cpu)
                      ELSE IF kept.limits # Unlimited THEN kept.limits.cpu ELSE Unsaid
           withMb == IF mb # Unsaid THEN mb ELSE kept.limits.memoryMb
       IN \E limits \in Accepted(withCpu, withMb) :
            Start(c, [Free EXCEPT !.verb = "limits", !.at = "queued", !.on = kept.name,
                                  !.limits = limits, !.gib = kept.gib, !.want = want])
    /\ UNCHANGED <<kept, server, holder, torn, lost, largest>>

\* dbSetPassword: the container and the url are those of now.
AskPassword(c, pw) ==
    /\ calls[c] = Free
    /\ Start(c, [Free EXCEPT !.verb = "password", !.at = "queued", !.on = kept.name, !.to = pw])
    /\ UNCHANGED <<kept, server, holder, torn, lost, largest>>

\* (TakesBack: a call that waited behind the first rename holds the key of that name alone,
\* and finds its container again between the docker rename and the row of the second.)
RequestRename(c, new) ==
    /\ calls[c] = Free
    /\ TakesBack \/ \A d \in Caller : calls[d].on # new
    /\ Start(c, [Free EXCEPT !.verb = "rename", !.at = "queued", !.on = kept.name, !.to = new])
    /\ UNCHANGED <<kept, server, holder, torn, lost, largest>>

\* Mutant: nobody waits for anybody.
TurnAtOnce(c) == calls[c].at = "queued"

\* withOp: the key of the name the call came with.
Turn(c) == calls[c].at = "queued" /\ holder[calls[c].on] = Unsaid

\* A rename looks the service up again; the others go to a container that may be gone.
Goes(c) ==
    /\ Turn(c)
    /\ calls[c].verb = "rename" => kept.name = calls[c].on /\ calls[c].to # calls[c].on
    /\ calls' = [calls EXCEPT ![c].at = "docker"]
    /\ holder' = [holder EXCEPT ![calls[c].on] = c]
    /\ UNCHANGED <<kept, server, torn, lost, largest>>

Refused(c) ==
    /\ Turn(c) /\ calls[c].verb = "rename"
    /\ kept.name # calls[c].on \/ calls[c].to = calls[c].on
    /\ Ends(c)
    /\ UNCHANGED <<kept, server, holder, torn, lost, largest>>

Given(c) == holder' = [n \in PgName |-> IF holder[n] = c THEN Unsaid ELSE holder[n]]

\* docker update, alter user, docker rename: on the container of that name.
TakesEffect(c) ==
    /\ calls[c].at = "docker" /\ server.name = calls[c].on
    /\ server' = CASE calls[c].verb = "limits" -> [server EXCEPT !.limits = calls[c].limits]
                   [] calls[c].verb = "password" -> [server EXCEPT !.password = calls[c].to]
                   [] calls[c].verb = "rename" -> [server EXCEPT !.name = calls[c].to]
    /\ calls' = [calls EXCEPT ![c].at = "landed"]
    /\ UNCHANGED <<kept, holder, torn, lost, largest>>

\* It fails: there is no such container, docker refuses, postgres does not come up.
GoesWrong(c) ==
    /\ calls[c].at = "docker"
    /\ Ends(c) /\ Given(c)
    /\ UNCHANGED <<kept, server, torn, lost, largest>>

\* Mutant: a renamed service keeps its url.
RehostedNot(url, old, new) == url

\* renameDbServiceLocked: the container's name in the url is replaced.
Rehosted(url, old, new) == IF url.host = old THEN [url EXCEPT !.host = new] ELSE url

\* The answer arrives: the document follows, if the row still goes by that name.
IsNoted(c) ==
    /\ calls[c].at = "landed"
    /\ LET call == calls[c] IN
       /\ CASE call.verb = "limits" ->
                 LET limited == IF kept.name = call.on THEN [kept EXCEPT !.limits = call.limits] ELSE kept
                 IN IF Grows(call.gib, call.want)
                    THEN kept' = [limited EXCEPT !.gib = call.want] /\ largest' = Greatest({largest, call.want})
                    ELSE kept' = limited /\ UNCHANGED largest
            [] call.verb = "password" ->
                 /\ kept' = IF kept.name = call.on
                              THEN [kept EXCEPT !.url = [host |-> call.on, password |-> call.to]] ELSE kept
                 /\ UNCHANGED largest
            [] call.verb = "rename" ->
                 /\ kept' = [kept EXCEPT !.name = call.to, !.url = Rehosted(@, call.on, call.to)]
                 /\ UNCHANGED largest
       /\ torn' = torn \ {call.verb}
    /\ Ends(c) /\ Given(c)
    /\ UNCHANGED <<server, lost>>

\* The answer does not arrive, though it was done: the call fails and the document is as it was.
\* (MaxTorn)
LoseReply(c) ==
    /\ calls[c].at = "landed" /\ lost < MaxTorn
    /\ torn' = torn \cup {calls[c].verb}
    /\ lost' = lost + 1
    /\ Ends(c) /\ Given(c)
    /\ UNCHANGED <<kept, server, largest>>

\* The daemon is killed: what docker has done stays done.
Kill ==
    /\ \E c \in Caller : calls[c] # Free
    /\ lost < MaxTorn
    /\ lost' = lost + 1
    /\ torn' = torn \cup {calls[c].verb : c \in {c \in Caller : calls[c].at = "landed"}}
    /\ calls' = [c \in Caller |-> Free] /\ holder' = [n \in PgName |-> Unsaid]
    /\ UNCHANGED <<kept, server, largest>>

SettingsInit ==
    /\ \E n \in PgName, pw \in Password :
          /\ kept = [name |-> n, url |-> [host |-> n, password |-> pw],
                       limits |-> Unlimited, gib |-> Least(Gib)]
          /\ server = [name |-> n, limits |-> Unlimited, password |-> pw]
    /\ calls = [c \in Caller |-> Free] /\ holder = [n \in PgName |-> Unsaid]
    /\ torn = {} /\ lost = 0 /\ largest = Least(Gib)

SettingsNext ==
    \/ \E want \in Gib : PatchSize(want)
    \/ \E c \in Caller :
          \/ \E cpu \in Cpu \cup {Unsaid}, mb \in Memory \cup {Unsaid}, want \in Gib :
                PatchLimits(c, cpu, mb, want)
          \/ \E pw \in Password : AskPassword(c, pw)
          \/ \E new \in PgName : RequestRename(c, new)
          \/ Goes(c) \/ Refused(c) \/ TakesEffect(c) \/ GoesWrong(c) \/ IsNoted(c) \/ LoseReply(c)
    \/ Kill

SettingsSpec == SettingsInit /\ [][SettingsNext]_settingsVars
-----------------------------------------------------------------------------
\* A call of this kind has taken effect and has yet to be noted, or never will be.
Open(verb) == verb \in torn \/ \E c \in Caller : calls[c].at = "landed" /\ calls[c].verb = verb

\* "the stored ceiling is unchanged" when docker refuses one, and is docker's when it does not:
\* through overlapping calls and renames the ceiling shown is the one in force.
CeilingIsInForce == ~Open("limits") => kept.limits = server.limits

\* The url that deployed apps and people are given opens the server: it names the container
\* and has its password, whichever password or rename came last.
UrlOpens ==
    /\ ~Open("rename") => kept.name = server.name /\ kept.url.host = server.name
    /\ ~Open("password") => kept.url.password = server.password

\* Whatever partial patches were combined, what is in force is on the grid.
CeilingIsOnGrid == server.limits = Unlimited \/ OnGrid(server.limits)

SettingsHold == CeilingIsInForce /\ UrlOpens /\ CeilingIsOnGrid

\* What does not hold.  "the volume can only grow": a patch of size and memory compares with
\* the size from before its docker call, and takes back what was granted meanwhile.
VolumeOnlyGrows == kept.gib = largest
=============================================================================
