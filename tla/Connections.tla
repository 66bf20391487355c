----------------------------- MODULE Connections -----------------------------
(***************************************************************************)
(* The connections of clients to one service that sleeps: the four kinds   *)
(* of lane (src/src/router/http.ts, pg.ts, port.ts and tls.ts), the step    *)
(* they share (wake.ts), the address cache (upstream.ts) and the holds.     *)
(* A container is known by the number of its start: an address read of an   *)
(* earlier one is refused, or answered by whoever has it now.  An await is  *)
(* a step of its own; what runs between two of them is one step.            *)
(***************************************************************************)
EXTENDS Integers, FiniteSets

CONSTANTS
    Conn,       \* connections
    Kinds,      \* what they may be: the functions from Conn to the four kinds
    Silent,     \* whether a connection to a container that went may time out, not reset
    Tries,      \* bound: 5xx answers retried inside the readiness window
    MaxStarts   \* bound: starts of the container

ASSUME ConnectionsAssumption ==
    /\ IsFiniteSet(Conn)
    /\ Kinds \subseteq [Conn -> {"get", "post", "upgrade", "tcp"}]
    /\ Silent \in BOOLEAN /\ Tries \in Nat /\ MaxStarts \in Nat \ {0}

VARIABLES
    kind,       \* a bodiless idempotent request, another request, a WebSocket, a raw lane
    conn,       \* what a connection remembers
    holds,      \* holdCounts of the service's key
    running,    \* the container: which start of it runs, 0 for none
    starts,     \* how many there were
    believed,   \* stateOf is "running"
    wanted,     \* its desired state is "running"
    known       \* the cached address, 0 for none

box == <<running, starts, believed, wanted>>
connVars == <<kind, conn, holds, box, known>>

\* pc; the address; what a docker inspect under way has read; the start that ran when its wake
\* ended; whether the first resolve woke it; whether it was woken after a refusal; its 5xx
\* retries; how often it reached a container; whether it holds the key; whether the client left.
Fresh == [pc |-> "idle", up |-> 0, read |-> 0, since |-> 0, woke |-> FALSE, forced |-> FALSE,
          tries |-> 0, sent |-> 0, held |-> FALSE, gone |-> FALSE]

ConnInit ==
    /\ kind \in Kinds
    /\ conn = [c \in Conn |-> Fresh]
    /\ holds = 0
    /\ running = 1 /\ starts = 1 /\ believed = TRUE /\ wanted = TRUE
    /\ known = 0

Http(c) == kind[c] \in {"get", "post"}

\* A client that left is noticed after the first resolve; by a raw lane only once connected.
Noticed(c) == conn[c].gone /\ kind[c] # "tcp" /\ ~conn[c].forced

In(c, pc) == conn[c].pc = pc
Open(c) == conn[c].pc \notin {"idle", "done"}
Held(c) == Open(c) /\ ~In(c, "hello") /\ ~conn[c].gone
Become(c, r) == conn' = [conn EXCEPT ![c] = r]

-------------------------------------------------------------------------------
\* A mutant of Releasing: without the released flag.
ReleasingTwice(c) == holds - 1

\* release(): once, whichever of the client's close and the lane's end comes first.
Releasing(c) == IF conn[c].held THEN holds - 1 ELSE holds

\* The lane is through with the connection: an answer, an error or a close.
End(c) ==
    /\ Become(c, [Fresh EXCEPT !.pc = "done"])
    /\ holds' = Releasing(c)

\* The route says stopped or suspended; only the HTTP lane looks.
TurnAway(c) ==
    /\ In(c, "idle") /\ kind[c] # "tcp" /\ ~wanted
    /\ Become(c, [Fresh EXCEPT !.pc = "done"])
    /\ UNCHANGED <<kind, holds, box, known>>

\* A raw lane first reads the hostname out of the handshake; it holds nothing for a client
\* that has none, or that falls silent.
Negotiate(c) ==
    /\ In(c, "idle") /\ kind[c] = "tcp"
    /\ Become(c, [Fresh EXCEPT !.pc = "hello"])
    /\ UNCHANGED <<kind, holds, box, known>>

Decline(c) ==
    /\ In(c, "hello")
    /\ End(c)
    /\ UNCHANGED <<kind, box, known>>

\* The stamp and the hold, then upstream.resolve and the look at stateOf.
Arrive(c) ==
    /\ IF kind[c] = "tcp" THEN In(c, "hello") ELSE In(c, "idle") /\ wanted
    /\ Become(c, [Fresh EXCEPT !.held = TRUE,
                    !.up = IF believed THEN known ELSE 0,
                    !.woke = known # 0 /\ ~believed,
                    !.pc = IF known = 0 THEN "look" ELSE IF believed THEN "dial" ELSE "wake"])
    /\ holds' = holds + 1
    /\ UNCHANGED <<kind, box, known>>

\* lookup: docker answers with what runs then, and the answer comes back later.
Inspect(c) ==
    /\ In(c, "look") \/ In(c, "relook")
    /\ Become(c, [conn[c] EXCEPT !.read = running,
                    !.pc = IF In(c, "look") THEN "looked" ELSE "relooked"])
    /\ UNCHANGED <<kind, holds, box, known>>

Looked(c) ==
    /\ In(c, "looked")
    /\ known' = conn[c].read
    /\ LET wake == conn[c].read = 0 \/ ~believed IN
       IF Noticed(c) /\ ~wake THEN End(c)
       ELSE /\ Become(c, [conn[c] EXCEPT !.read = 0, !.woke = wake,
                            !.up = IF wake THEN 0 ELSE conn[c].read,
                            !.pc = IF wake THEN "wake" ELSE "dial"])
            /\ UNCHANGED holds
    /\ UNCHANGED <<kind, box>>

\* A mutant of Afresh: the cache answers again after the wake.
AfreshOrKnown(c) ==
    /\ Become(c, [conn[c] EXCEPT !.since = running', !.up = known,
                    !.pc = IF known = 0 THEN "relook" ELSE "probe"])
    /\ UNCHANGED known

\* After the wake: forget, and resolve again.
Afresh(c) ==
    /\ Become(c, [conn[c] EXCEPT !.since = running', !.up = 0, !.pc = "relook"])
    /\ known' = 0

\* The scheduler's wake, which another caller may have started.
Wake(c) ==
    /\ In(c, "wake") /\ wanted
    /\ \/ running # 0 /\ UNCHANGED <<running, starts>>
       \/ running = 0 /\ starts < MaxStarts /\ running' = starts + 1 /\ starts' = starts + 1
    /\ believed' = TRUE
    /\ Afresh(c)
    /\ UNCHANGED <<kind, holds, wanted>>

\* It failed: stopped, without a container, timed out, or the daemon shuts down.
WakeFails(c) ==
    /\ In(c, "wake")
    /\ End(c)
    /\ UNCHANGED <<kind, box, known>>

Relooked(c) ==
    /\ In(c, "relooked")
    /\ known' = conn[c].read
    /\ IF conn[c].read = 0 THEN End(c)
       ELSE /\ Become(c, [conn[c] EXCEPT !.up = conn[c].read, !.read = 0, !.pc = "probe"])
            /\ UNCHANGED holds
    /\ UNCHANGED <<kind, box>>

\* The port accepts within the window, or another container's at that address does.  A body
\* that cannot be replayed waits for an answer to HEAD, unless the wake came of a refusal.
Probe(c) ==
    /\ In(c, "probe")
    /\ IF Noticed(c) THEN End(c)
       ELSE /\ Become(c, [conn[c] EXCEPT
                  !.pc = IF kind[c] = "post" /\ ~conn[c].forced THEN "gate" ELSE "dial"])
            /\ UNCHANGED holds
    /\ UNCHANGED <<kind, box, known>>

ProbeFails(c) ==
    /\ In(c, "probe")
    /\ known' = 0
    /\ End(c)
    /\ UNCHANGED <<kind, box>>

Gate(c) ==
    /\ In(c, "gate")
    /\ Become(c, [conn[c] EXCEPT !.pc = "dial"])
    /\ UNCHANGED <<kind, holds, box, known>>
-------------------------------------------------------------------------------
\* What is left to know of a connection whose bytes flow.
Spliced(c) ==
    [Fresh EXCEPT !.pc = "spliced", !.up = conn[c].up, !.held = conn[c].held, !.gone = conn[c].gone]

\* Somebody answers at the address: its container, or whoever has the address of one that
\* went.  A request goes out whole; a raw lane and an upgrade are spliced, the raw lane only
\* if its client is still there.
Connected(c) ==
    /\ In(c, "dial")
    /\ \/ /\ Http(c)
          /\ Become(c, [conn[c] EXCEPT !.pc = "sent", !.sent = @ + 1])
          /\ UNCHANGED holds
       \/ /\ kind[c] \in (IF conn[c].gone THEN {"upgrade"} ELSE {"upgrade", "tcp"})
          /\ Become(c, Spliced(c))
          /\ UNCHANGED holds
       \/ kind[c] = "tcp" /\ conn[c].gone /\ End(c)
    /\ UNCHANGED <<kind, box, known>>

\* Mutants of Again: a refusal is retried every time; so is an answer that was cut off.
AgainAlways(c) == Http(c) \/ kind[c] = "tcp"
AgainWhenReset(c) == ~conn[c].forced /\ Http(c)

\* One more attempt through the wake path: an HTTP request that was not forced yet, a raw lane
\* that did not wake either.
Again(c) ==
    /\ ~conn[c].forced
    /\ \/ Http(c) /\ (In(c, "dial") \/ Silent)
       \/ kind[c] = "tcp" /\ ~conn[c].woke

Retry(c) ==
    /\ Become(c, [conn[c] EXCEPT !.pc = "wake", !.forced = TRUE, !.up = 0, !.since = 0])
    /\ UNCHANGED holds

\* Nobody answers.  Only what retries, and every HTTP error of this kind, drops the address.
Refused(c) ==
    /\ In(c, "dial")
    /\ known' = IF Http(c) \/ Again(c) THEN 0 ELSE known
    /\ IF Again(c) THEN Retry(c) ELSE End(c)
    /\ UNCHANGED <<kind, box>>

\* The answer: streamed to the client, if it is there; a 5xx of a container that was woken
\* for the request is asked again.
Answered(c) ==
    /\ In(c, "sent")
    /\ IF conn[c].gone THEN End(c)
       ELSE Become(c, Spliced(c)) /\ UNCHANGED holds
    /\ UNCHANGED <<kind, box, known>>

Answered5xx(c) ==
    /\ In(c, "sent") /\ kind[c] = "get" /\ conn[c].woke /\ conn[c].tries < Tries
    /\ IF conn[c].gone THEN End(c)
       ELSE /\ Become(c, [conn[c] EXCEPT !.pc = "dial", !.tries = @ + 1])
            /\ UNCHANGED holds
    /\ UNCHANGED <<kind, box, known>>

\* The container went before it answered.
CutOff(c) ==
    /\ In(c, "sent") /\ conn[c].up # running
    /\ known' = 0
    /\ IF Again(c) THEN Retry(c) ELSE End(c)
    /\ UNCHANGED <<kind, box>>

\* The response or the splice is over, by either side or by the idle cut.
Finish(c) ==
    /\ In(c, "spliced")
    /\ conn[c].gone => conn[c].up # running
    /\ End(c)
    /\ UNCHANGED <<kind, box, known>>

\* The client goes away: its close releases the hold at once, the handler finds out later.  A
\* splice ends with it.  Router.stop destroys every client.
Gone(c) ==
    IF conn[c].pc \in {"hello", "spliced"} THEN [Fresh EXCEPT !.pc = "done"]
    ELSE [conn[c] EXCEPT !.gone = TRUE, !.held = FALSE]

Leave(c) ==
    /\ Held(c)
    /\ Become(c, Gone(c))
    /\ holds' = Releasing(c)
    /\ UNCHANGED <<kind, box, known>>

StopRouter ==
    /\ \E c \in Conn : conn[c].held
    /\ conn' = [c \in Conn |-> IF Open(c) THEN Gone(c) ELSE [conn[c] EXCEPT !.pc = "done"]]
    /\ holds' = holds - Cardinality({c \in Conn : conn[c].held})
    /\ UNCHANGED <<kind, box, known>>

-------------------------------------------------------------------------------
\* The container goes or comes by itself: a crash, a restart policy, the docker CLI.
Restart ==
    /\ starts < MaxStarts
    /\ running' = starts + 1 /\ starts' = starts + 1
    /\ UNCHANGED <<kind, conn, holds, believed, wanted, known>>

Crash ==
    /\ running # 0 /\ running' = 0
    /\ UNCHANGED <<kind, conn, holds, starts, believed, wanted, known>>

\* The scheduler puts an idle service to sleep, the developer stops and starts it: each
\* ends with a forget.
Sleep ==
    /\ running # 0 /\ believed /\ holds = 0
    /\ running' = 0 /\ believed' = FALSE /\ known' = 0
    /\ UNCHANGED <<kind, conn, holds, starts, wanted>>

Suspend ==
    /\ wanted /\ wanted' = FALSE
    /\ running' = 0 /\ believed' = FALSE /\ known' = 0
    /\ UNCHANGED <<kind, conn, holds, starts>>

Bring ==
    /\ ~wanted /\ wanted' = TRUE /\ starts < MaxStarts
    /\ running' = starts + 1 /\ starts' = starts + 1 /\ believed' = TRUE /\ known' = 0
    /\ UNCHANGED <<kind, conn, holds>>

\* A sweep sees the container; forgetIfChanged drops an address of another container id,
\* which a restart keeps and a redeploy does not.
Sweep ==
    /\ believed' = (running # 0)
    /\ known' \in {known, IF known = running THEN known ELSE 0}
    /\ <<believed', known'>> # <<believed, known>>
    /\ UNCHANGED <<kind, conn, holds, running, starts, wanted>>

\* touchDebounceMs after it was read.
Expire ==
    /\ known # 0 /\ known' = 0
    /\ UNCHANGED <<kind, conn, holds, box>>

\* What ends of itself: docker, a wake, a probe, a dial and an upstream each answer or give up.
Step(c) ==
    \/ Decline(c) \/ Inspect(c) \/ Looked(c) \/ Wake(c) \/ WakeFails(c) \/ Relooked(c)
    \/ Probe(c) \/ ProbeFails(c) \/ Gate(c) \/ Connected(c) \/ Refused(c)
    \/ Answered(c) \/ Answered5xx(c) \/ CutOff(c)

ConnNext ==
    \/ \E c \in Conn : Negotiate(c) \/ Arrive(c) \/ TurnAway(c) \/ Step(c) \/ Finish(c) \/ Leave(c)
    \/ StopRouter
    \/ Restart \/ Crash \/ Sleep \/ Suspend \/ Bring \/ Sweep \/ Expire

ConnFairness == \A c \in Conn : WF_connVars(Step(c))

ConnSpec == ConnInit /\ [][ConnNext]_connVars /\ ConnFairness

-------------------------------------------------------------------------------
ConnTypeOK ==
    /\ kind \in Kinds
    /\ conn \in [Conn -> [
           pc : {"idle", "hello", "look", "looked", "wake", "relook", "relooked", "probe", "gate", "dial",
                 "sent", "spliced", "done"},
           up : 0..MaxStarts, read : 0..MaxStarts, since : 0..MaxStarts, woke : BOOLEAN,
           forced : BOOLEAN, tries : 0..Tries, sent : Nat, held : BOOLEAN, gone : BOOLEAN]]
    /\ holds \in Nat
    /\ running \in 0..MaxStarts /\ starts \in 1..MaxStarts
    /\ {believed, wanted} \subseteq BOOLEAN
    /\ known \in 0..MaxStarts

\* The holds of the key are its clients that are there and not answered yet: none is lost,
\* which would keep the service awake for ever, and none released twice, which would put it
\* to sleep under another client (sleep-and-wake: the released flag of every lane).
HoldsMatch == holds = Cardinality({c \in Conn : Held(c)})

\* What woke its container goes to an address read after that wake: not to the container the
\* wake replaced, whatever another connection's lookup left in the cache meanwhile.
WokenIsCurrent ==
    \A c \in Conn : conn[c].pc \in {"probe", "gate", "dial", "sent"} => conn[c].up >= conn[c].since

\* A request whose body cannot be replayed reaches one container at most ("forwarded exactly
\* once", http.ts), provided a connection to a container that went is reset.
SentOnce == \A c \in Conn : kind[c] = "post" /\ ~Silent => conn[c].sent <= 1

\* The lanes count their holds, dial their addresses right and deliver a body once, across
\* wakes and retries.
AddressesHold == HoldsMatch /\ WokenIsCurrent /\ SentOnce

\* Every client is answered, spliced or turned away: the one retry and the bounded windows
\* leave nobody waiting for a container that keeps going.
ConnectionsEnd == \A c \in Conn : Open(c) ~> conn[c].pc \in {"spliced", "done"}

\* Not so: an upgrade whose client leaves during the dial is spliced all the same, and its
\* upstream socket stays (http.ts:128; pg.ts, port.ts and tls.ts look).
SplicedHasClient == \A c \in Conn : In(c, "spliced") => ~conn[c].gone
===============================================================================
