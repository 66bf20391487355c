---------------------------- MODULE MCDockerFacts ----------------------------
(***************************************************************************)
(* What the daemon believes of its containers: the snapshot the scheduler  *)
(* folds its listings into, the addresses the lanes dial, and the memory   *)
(* it counts against them.  The three are filled by separate docker calls; *)
(* each behaviour moves one of them (focus), so that the run visits the    *)
(* sum of their states.                                                    *)
(***************************************************************************)
EXTENDS StateCache, Connections, Headroom, TLC

CONSTANTS a, b, c1, c2

VARIABLE focus

factsVars == <<focus, vars, connVars, headroomVars>>

\* Those that stand still do so in one of their initial states.
FactsInit ==
    /\ focus \in {"snapshot", "addresses", "memory"}
    /\ Init /\ ConnInit /\ HeadroomInit
    /\ focus # "snapshot" => docker = "running"
    /\ focus # "addresses" => kind = CHOOSE k \in Kinds : TRUE
    /\ focus # "memory" => budget = Absent /\ limit["meminfo"] = Absent /\ limit["cgroup"] = Absent

FactsNext ==
    /\ UNCHANGED focus
    /\ \/ focus = "snapshot" /\ Next /\ UNCHANGED <<connVars, headroomVars>>
       \/ focus = "addresses" /\ ConnNext /\ UNCHANGED <<vars, headroomVars>>
       \/ focus = "memory" /\ HeadroomNext /\ UNCHANGED <<vars, connVars>>

\* ConnFairness, where the connections move.
FactsFairness == \A c \in Conn : WF_connVars(focus = "addresses" /\ Step(c))

FactsSpec == FactsInit /\ [][FactsNext]_factsVars /\ FactsFairness

\* Neither cache leaves anybody behind: the snapshot catches up with docker once it is quiet,
\* and every client of the lanes is answered or turned away.
FactsSettle == CatchesUp /\ ConnectionsEnd

\* A request that can be replayed beside a connection that stays, one that cannot beside a
\* raw lane: what the two share, the holds and the kept address, does not tell the pairs apart.
TwoClients == {c1 :> "get" @@ c2 :> "upgrade", c1 :> "post" @@ c2 :> "tcp"}

\* A machine of four units whose ZFS cache may take in the rest, or more than there is room
\* for; a ceiling below the machine's memory and one above it.
OneMachine == {[total |-> 4, available |-> n, arc |-> z, floor |-> 1] : n \in {0, 2, 4}, z \in {0, 1, 3}}
TwoCeilings == {[total |-> t, current |-> n, reclaimable |-> r] : t \in {3, 6}, n \in {2, 6}, r \in {0, 2}}
===============================================================================
