------------------------------- MODULE Lanes -------------------------------
(***************************************************************************)
(* The loopback ports of the box and the router's per-service listeners    *)
(* (src/src/router/index.ts, src/src/engine.ts, region WP2).               *)
(*                                                                         *)
(* One range of ports serves database lanes (branch.lanes), ports a branch *)
(* create or a first deploy has reserved (laneReservations), and the host  *)
(* ports docker publishes apps on (apps[g].hostPort).  Who picks a port    *)
(* reads the rows, and records its pick in the same synchronous mutate;    *)
(* who uses it, the router with listen() and docker with start, does so    *)
(* later, and finds it free or not.  Every routing change queues a         *)
(* reconcile: one pass at a time closes the listeners no row wants and     *)
(* opens the missing ones, moving a service whose port a stranger holds.   *)
(***************************************************************************)
EXTENDS Naturals, FiniteSets

CONSTANTS Branch,      \* branch ids, none ever used twice
          Db, App,     \* services that need a lane, groups docker publishes
          On,          \* the branch of each of them
          Port,        \* the range INSTA_OSS_LANE_PORT_RANGE
          Foreign,     \* the ports a process that is not ours may take
          Readers,     \* listings (Engine.services) that may run at once
          Slot,        \* reconcile passes that could run at once
          Attempts,    \* openPerService: ports tried for one service
          MaxOps,      \* bound: operations and restarts
          None

ASSUME LanesAssumption ==
  /\ IsFiniteSet(Db) /\ Port \subseteq Nat /\ IsFiniteSet(Port) /\ Foreign \subseteq Port
  /\ On \in [Db \cup App -> Branch] /\ Db \cap App = {}
  /\ Attempts \in Nat \ {0} /\ MaxOps \in Nat /\ None \notin Port \cup Db \cup Branch

VARIABLES
  ready,     \* branches with a row
  gone,      \* branches demolished
  carried,   \* databases their branch carries: the routes of the table
  lane,      \* branch.lanes
  pub,       \* apps[g].hostPort
  held,      \* laneReservations: port -> branch
  made,      \* the lanes a branch create has allocated and not yet recorded
  deploys,   \* the port of each deploy in flight, and whether docker started it
  up,        \* the port each app's container is listening on
  alien,     \* ports bound by processes that are not ours
  listing,   \* the database a listing saw without a lane, per reader
  moved,     \* history: a listing has replaced a lane that was recorded
  sockets,   \* the listening sockets the router has open
  lanes,     \* Router.lanes: the listener recorded for each database
  queued,    \* reconciles chained and not yet begun
  work,      \* the pass each slot is in
  ops        \* operations so far

rows == <<ready, gone, carried, lane, pub, held>>
calls == <<made, deploys, listing>>
router == <<sockets, lanes, work>>
lanesVars == <<rows, calls, moved, up, alien, router, queued, ops>>

Ports == Port \cup {None}
Idle == [want |-> [d \in Db |-> None], todo |-> {}, at |-> None, port |-> None, tries |-> 0]
Asked(p) == [port |-> p, up |-> FALSE]
NoDeploy == Asked(None)

LanesTypeOK ==
  /\ ready \subseteq Branch /\ gone \subseteq Branch /\ carried \subseteq Db
  /\ lane \in [Db -> Ports] /\ made \in [Db -> Ports] /\ lanes \in [Db -> Ports]
  /\ pub \in [App -> Ports] /\ up \in [App -> Ports]
  /\ held \in [Port -> Branch \cup {None}]
  /\ deploys \in [App -> [port : Ports, up : BOOLEAN]]
  /\ listing \in [Readers -> Db \cup {None}]
  /\ moved \in BOOLEAN /\ alien \subseteq Foreign /\ sockets \subseteq [db : Db, port : Port]
  /\ queued \in Nat /\ ops \in 0..MaxOps
  /\ work \in [Slot -> [want : [Db -> Ports], todo : SUBSET Db, at : Db \cup {None},
                        port : Ports, tries : 0..Attempts]]

LanesInit ==
  /\ ready = {} /\ gone = {} /\ carried = {} /\ alien = {} /\ sockets = {}
  /\ lane = [d \in Db |-> None] /\ made = lane /\ lanes = lane
  /\ pub = [a \in App |-> None] /\ up = pub
  /\ held = [p \in Port |-> None]
  /\ deploys = [a \in App |-> NoDeploy]
  /\ listing = [r \in Readers |-> None] /\ moved = FALSE
  /\ work = [s \in Slot |-> Idle] /\ queued = 1 /\ ops = 0

(***************************************************************************)
(* Picking a port.                                                         *)
(***************************************************************************)
DbsOf(b) == {d \in Db : On[d] = b}
AppsOf(b) == {a \in App : On[a] = b}
Lowest(S) == CHOOSE p \in S : \A q \in S : p <= q

(* Every port a row or a reservation names.                                *)
RowPorts == ({lane[d] : d \in Db} \cup {pub[a] : a \in App}) \ {None}
TakenLanePorts == RowPorts \cup {p \in Port : held[p] # None}
FreePorts == Port \ TakenLanePorts

(* The ways to hand out the lowest of the ports `free`, one each, to D.    *)
Allocations(D, free) ==
  {f \in [D -> free] : /\ \A d, e \in D : f[d] = f[e] => d = e
                       /\ \A d \in D, p \in free : p < f[d] => \E e \in D : f[e] = p}

(* A port is bound by a router socket, a container, or a stranger.         *)
Bound(p) == \/ p \in alien
            \/ \E s \in sockets : s.port = p
            \/ \E a \in App : up[a] = p

(* Ports bound by what no row knows of: processes that are not ours, and   *)
(* the container of a deploy the daemon died in.                           *)
Strangers == alien \cup ({up[a] : a \in {c \in App : up[c] # pub[c] /\ deploys[c] = NoDeploy}} \ {None})

Tick == ops < MaxOps /\ ops' = ops + 1
Invalidate == queued' = queued + 1

(***************************************************************************)
(* Branches and the services on them.                                      *)
(***************************************************************************)
(* allocLanes: the lanes of what the source carries, reserved in one mutate *)
AllocLanes(b, D) ==
  /\ Tick
  /\ b \notin ready \cup gone
  /\ \A d \in DbsOf(b) : made[d] = None
  /\ D # {} /\ D \subseteq DbsOf(b)
  /\ \E f \in Allocations(D, FreePorts) :
       /\ made' = [d \in Db |-> IF d \in D THEN f[d] ELSE made[d]]
       /\ held' = [p \in Port |-> IF p \in {f[d] : d \in D} THEN b ELSE held[p]]
  /\ UNCHANGED <<ready, gone, carried, lane, pub, deploys, listing, up, alien, router, queued, moved>>

NotHeldBy(b) == [p \in Port |-> IF held[p] = b THEN None ELSE held[p]]
Unmade(b) == [d \in Db |-> IF On[d] = b THEN None ELSE made[d]]
Making(b) == b \notin ready /\ \E d \in DbsOf(b) : made[d] # None

(* The row is written, and the reservations it supersedes go with it.      *)
ProvisionBranch(b) ==
  /\ b \notin ready \cup gone
  /\ IF Making(b) THEN UNCHANGED ops ELSE Tick
  /\ ready' = ready \cup {b}
  /\ carried' = carried \cup {d \in DbsOf(b) : made[d] # None}
  /\ lane' = [d \in Db |-> IF On[d] = b THEN made[d] ELSE lane[d]]
  /\ held' = NotHeldBy(b)
  /\ made' = Unmade(b)
  /\ Invalidate
  /\ UNCHANGED <<gone, pub, deploys, listing, up, alien, router, moved>>

Rollback(b) ==
  /\ Making(b)
  /\ held' = NotHeldBy(b)
  /\ made' = Unmade(b)
  /\ gone' = gone \cup {b}
  /\ UNCHANGED <<ready, carried, lane, pub, deploys, listing, up, alien, router, queued, ops, moved>>

(* A teardown that took everything: the row goes, and its ports with it.   *)
Demolish(b) ==
  /\ Tick
  /\ b \in ready
  /\ \A a \in AppsOf(b) : deploys[a] = NoDeploy
  /\ ready' = ready \ {b}
  /\ gone' = gone \cup {b}
  /\ carried' = carried \ DbsOf(b)
  /\ lane' = [d \in Db |-> IF On[d] = b THEN None ELSE lane[d]]
  /\ pub' = [a \in App |-> IF On[a] = b THEN None ELSE pub[a]]
  /\ up' = [a \in App |-> IF On[a] = b THEN None ELSE up[a]]
  /\ held' = NotHeldBy(b)
  /\ Invalidate
  /\ UNCHANGED <<made, deploys, listing, alien, router, moved>>

AddDb(d) ==
  /\ Tick
  /\ On[d] \in ready /\ d \notin carried
  /\ carried' = carried \cup {d}
  /\ Invalidate
  /\ UNCHANGED <<ready, gone, lane, pub, held, calls, up, alien, router, moved>>

(* A removal drops the row of the service and leaves branch.lanes alone.   *)
RemoveDbFreeing(d) ==
  /\ Tick
  /\ d \in carried
  /\ carried' = carried \ {d}
  /\ lane' = [lane EXCEPT ![d] = None]
  /\ Invalidate
  /\ UNCHANGED <<ready, gone, pub, held, calls, up, alien, router, moved>>
RemoveDb(d) ==
  /\ Tick
  /\ d \in carried
  /\ carried' = carried \ {d}
  /\ Invalidate
  /\ UNCHANGED <<ready, gone, lane, pub, held, calls, up, alien, router, moved>>

(***************************************************************************)
(* The first read of an address allocates the lane and records it.         *)
(***************************************************************************)
(* laneFor, for a caller whose copy of the row has no lane for d.          *)
Record(d, p) ==
  /\ lane' = [lane EXCEPT ![d] = p]
  /\ held' = [held EXCEPT ![p] = None]

LaneForQuietly(d) ==
  /\ d \in carried /\ lane[d] = None /\ FreePorts # {}
  /\ Record(d, Lowest(FreePorts))
  /\ UNCHANGED <<ready, gone, carried, pub, calls, up, alien, router, queued, ops, moved>>
LaneFor(d) ==
  /\ d \in carried /\ lane[d] = None /\ FreePorts # {}
  /\ Record(d, Lowest(FreePorts))
  /\ Invalidate
  /\ UNCHANGED <<ready, gone, carried, pub, calls, up, alien, router, ops, moved>>

(* Engine.services copies the branch, then awaits a docker read ...        *)
StartListing(r, d) ==
  /\ Tick
  /\ listing[r] = None /\ d \in carried /\ lane[d] = None
  /\ listing' = [listing EXCEPT ![r] = d]
  /\ UNCHANGED <<rows, made, deploys, up, alien, router, queued, moved>>

(* ... and answers with laneFor on the copy, whatever the row says by now. *)
EndListing(r) ==
  LET d == listing[r] IN
  /\ d # None /\ FreePorts # {}
  /\ listing' = [listing EXCEPT ![r] = None]
  /\ IF On[d] \in ready
       THEN /\ Record(d, Lowest(FreePorts))
            /\ moved' = (moved \/ lane[d] # None)
            /\ Invalidate
       ELSE UNCHANGED <<lane, held, moved, queued>>
  /\ UNCHANGED <<ready, gone, carried, pub, made, deploys, up, alien, router, ops>>

(***************************************************************************)
(* Deploys, which publish a host port.                                     *)
(***************************************************************************)
(* localHostPort: the port the row has, or a fresh one, reserved; then the  *)
(* env of the container, which reads the address of every database; then   *)
(* docker removes the container that is there.                             *)
StartDeployUnreserved(a) ==
  LET b == On[a]
      unlaned == {d \in carried \cap DbsOf(b) : lane[d] = None}
  IN
  /\ Tick
  /\ b \in ready /\ deploys[a] = NoDeploy
  /\ pub[a] # None \/ FreePorts # {}
  /\ LET port == IF pub[a] # None THEN pub[a] ELSE Lowest(FreePorts)
     IN /\ deploys' = [deploys EXCEPT ![a] = Asked(port)]
        /\ held' = held
        /\ \E f \in Allocations(unlaned, FreePorts) :
             lane' = [d \in Db |-> IF d \in unlaned THEN f[d] ELSE lane[d]]
  /\ queued' = queued + Cardinality(unlaned)
  /\ up' = [up EXCEPT ![a] = None]
  /\ UNCHANGED <<ready, gone, carried, pub, made, listing, alien, router, moved>>
StartDeploy(a) ==
  LET b == On[a]
      unlaned == {d \in carried \cap DbsOf(b) : lane[d] = None}
  IN
  /\ Tick
  /\ b \in ready /\ deploys[a] = NoDeploy
  /\ pub[a] # None \/ FreePorts # {}
  /\ LET port == IF pub[a] # None THEN pub[a] ELSE Lowest(FreePorts)
     IN /\ deploys' = [deploys EXCEPT ![a] = Asked(port)]
        /\ held' = IF pub[a] # None THEN held ELSE [held EXCEPT ![port] = b]
        /\ \E f \in Allocations(unlaned, FreePorts \ {port}) :
             lane' = [d \in Db |-> IF d \in unlaned THEN f[d] ELSE lane[d]]
  /\ queued' = queued + Cardinality(unlaned)
  /\ up' = [up EXCEPT ![a] = None]
  /\ UNCHANGED <<ready, gone, carried, pub, made, listing, alien, router, moved>>

StartContainer(a) ==
  /\ deploys[a] # NoDeploy /\ ~deploys[a].up
  /\ ~Bound(deploys[a].port)
  /\ deploys' = [deploys EXCEPT ![a].up = TRUE]
  /\ up' = [up EXCEPT ![a] = deploys[a].port]
  /\ UNCHANGED <<rows, made, listing, alien, router, queued, ops, moved>>

(* docker refused, the port being bound or for a reason of its own.        *)
DeployFails(a) ==
  LET port == deploys[a].port IN
  /\ deploys[a] # NoDeploy /\ ~deploys[a].up
  /\ held' = IF pub[a] = port THEN held ELSE [held EXCEPT ![port] = None]
  /\ deploys' = [deploys EXCEPT ![a] = NoDeploy]
  /\ UNCHANGED <<ready, gone, carried, lane, pub, made, listing, up, alien, router, queued, ops, moved>>

(* The row owns the port.  A service whose intent is stopped is created and *)
(* not started: its port is recorded and nothing listens on it.            *)
DeployCommits(a) ==
  LET port == deploys[a].port IN
  /\ deploys[a] # NoDeploy
  /\ pub' = [pub EXCEPT ![a] = port]
  /\ held' = [held EXCEPT ![port] = None]
  /\ deploys' = [deploys EXCEPT ![a] = NoDeploy]
  /\ Invalidate
  /\ UNCHANGED <<ready, gone, carried, lane, made, listing, up, alien, router, ops, moved>>

(* A container sleeps and wakes; docker start needs its port back.         *)
Sleep(a) ==
  /\ Tick /\ deploys[a] = NoDeploy /\ up[a] # None
  /\ up' = [up EXCEPT ![a] = None]
  /\ UNCHANGED <<rows, calls, alien, router, queued, moved>>
Wake(a) ==
  /\ Tick /\ deploys[a] = NoDeploy /\ up[a] = None /\ pub[a] # None /\ ~Bound(pub[a])
  /\ up' = [up EXCEPT ![a] = pub[a]]
  /\ UNCHANGED <<rows, calls, alien, router, queued, moved>>

AlienTakes(p) ==
  /\ Tick /\ ~Bound(p)
  /\ alien' = alien \cup {p}
  /\ UNCHANGED <<rows, calls, up, router, queued, moved>>
AlienLeaves(p) ==
  /\ Tick /\ p \in alien
  /\ alien' = alien \ {p}
  /\ UNCHANGED <<rows, calls, up, router, queued, moved>>

(***************************************************************************)
(* The router's reconcile.                                                 *)
(***************************************************************************)
(* wantedPerService: a listener for every route that has a port.           *)
WantedPerService == [d \in Db |-> IF d \in carried THEN lane[d] ELSE None]

Begin(s) ==
  LET kept == [d \in Db |-> IF lanes[d] = WantedPerService[d] THEN lanes[d] ELSE None]
  IN
  /\ queued > 0 /\ work[s] = Idle
  /\ queued' = queued - 1
  /\ sockets' = {k \in sockets : ~(lanes[k.db] = k.port /\ kept[k.db] = None)}
  /\ lanes' = kept
  /\ work' = [work EXCEPT ![s] = [Idle EXCEPT !.want = WantedPerService,
                                              !.todo = {d \in Db : WantedPerService[d] # None}]]
  /\ UNCHANGED <<rows, calls, up, alien, ops, moved>>

(* reconcileSerial: the next pass begins when the one before has ended.    *)
ReconcileAtOnce(s) == Begin(s)
Reconcile(s) ==
  /\ \A t \in Slot : work[t] = Idle
  /\ Begin(s)

(* openPerService: the next service without a listener.                    *)
OpenPerService(s) ==
  \E d \in work[s].todo :
    /\ work[s].at = None
    /\ work' = [work EXCEPT ![s].todo = @ \ {d},
                            ![s].at = IF lanes[d] = None THEN d ELSE None,
                            ![s].port = IF lanes[d] = None THEN work[s].want[d] ELSE None]
    /\ UNCHANGED <<rows, calls, up, alien, sockets, lanes, queued, ops, moved>>

Done(s) == [work[s] EXCEPT !.at = None, !.port = None, !.tries = 0]

Listening(s) ==
  LET d == work[s].at  port == work[s].port IN
  /\ d # None /\ ~Bound(port)
  /\ sockets' = sockets \cup {[db |-> d, port |-> port]}
  /\ lanes' = [lanes EXCEPT ![d] = port]
  /\ work' = [work EXCEPT ![s] = Done(s)]
  /\ UNCHANGED <<rows, calls, up, alien, queued, ops, moved>>

(* laneReallocator: the row, if it is still there, moves to the next port.  *)
(* The route is read again; a service that is gone keeps the port picked.  *)
ReallocLane(s) ==
  LET d == work[s].at  port == work[s].port  next == Lowest(FreePorts) IN
  /\ d # None /\ Bound(port)
  /\ FreePorts # {} /\ work[s].tries + 1 < Attempts
  /\ IF On[d] \in ready
       THEN /\ lane' = [lane EXCEPT ![d] = next]
            /\ held' = [held EXCEPT ![port] = None]
       ELSE UNCHANGED <<lane, held>>
  /\ work' = [work EXCEPT ![s].port = next, ![s].tries = @ + 1]
  /\ UNCHANGED <<ready, gone, carried, pub, calls, up, alien, sockets, lanes, queued, ops, moved>>

(* No port left, or none of Attempts could be bound: the pass ends here,   *)
(* and the services it had not reached stay without a listener.            *)
GiveUp(s) ==
  /\ work[s].at # None /\ Bound(work[s].port)
  /\ FreePorts = {} \/ work[s].tries + 1 = Attempts
  /\ IF FreePorts # {} /\ On[work[s].at] \in ready
       THEN /\ lane' = [lane EXCEPT ![work[s].at] = Lowest(FreePorts)]
            /\ held' = [held EXCEPT ![work[s].port] = None]
       ELSE UNCHANGED <<lane, held>>
  /\ work' = [work EXCEPT ![s] = Idle]
  /\ UNCHANGED <<ready, gone, carried, pub, calls, up, alien, sockets, lanes, queued, ops, moved>>

Reconciled(s) ==
  /\ work[s] # Idle /\ work[s].at = None /\ work[s].todo = {}
  /\ work' = [work EXCEPT ![s] = Idle]
  /\ UNCHANGED <<rows, calls, up, alien, sockets, lanes, queued, ops, moved>>

(* The daemon dies and boots: what was in flight is gone, containers are   *)
(* not, and a reservation no row answers for is dropped.                   *)
Restart ==
  /\ Tick
  /\ held' = [p \in Port |-> IF held[p] \in ready /\ p \in RowPorts THEN held[p] ELSE None]
  /\ gone' = gone \cup {b \in Branch : Making(b)}
  /\ made' = [d \in Db |-> None]
  /\ deploys' = [a \in App |-> NoDeploy]
  /\ listing' = [r \in Readers |-> None]
  /\ sockets' = {} /\ lanes' = [d \in Db |-> None]
  /\ work' = [s \in Slot |-> Idle] /\ queued' = 1
  /\ UNCHANGED <<ready, carried, lane, pub, up, alien, moved>>

Stopped ==
  /\ ops = MaxOps /\ queued = 0
  /\ \A s \in Slot : work[s] = Idle
  /\ \A a \in App : deploys[a] = NoDeploy
  /\ UNCHANGED lanesVars

LanesNext ==
  \/ \E b \in Branch : \/ \E D \in SUBSET Db : AllocLanes(b, D)
                       \/ ProvisionBranch(b) \/ Rollback(b) \/ Demolish(b)
  \/ \E d \in Db : \/ AddDb(d) \/ RemoveDb(d) \/ LaneFor(d)
                   \/ \E r \in Readers : StartListing(r, d)
  \/ \E r \in Readers : EndListing(r)
  \/ \E a \in App : \/ StartDeploy(a) \/ StartContainer(a) \/ DeployFails(a)
                    \/ DeployCommits(a) \/ Sleep(a) \/ Wake(a)
  \/ \E p \in Foreign : AlienTakes(p) \/ AlienLeaves(p)
  \/ \E s \in Slot : \/ Reconcile(s) \/ OpenPerService(s) \/ Listening(s)
                     \/ ReallocLane(s) \/ GiveUp(s) \/ Reconciled(s)
  \/ Restart
  \/ Stopped

(* A pass that is queued begins, and a pass that has begun goes on: node   *)
(* runs the chain, and listen() always answers.                            *)
Fairness == \A s \in Slot :
  WF_lanesVars(Reconcile(s) \/ OpenPerService(s) \/ Listening(s) \/ ReallocLane(s) \/ GiveUp(s) \/ Reconciled(s))

LanesSpec == LanesInit /\ [][LanesNext]_lanesVars /\ Fairness

-----------------------------------------------------------------------------
(* Unless a listing moved a lane, a port has one holder: a lane, a host     *)
(* port, a lane a create has reserved, or the port of a deploy in flight.  *)
(* Two allocators on one range: docker start failed with "address already  *)
(* in use" while a pick was not reserved (engine.ts:3392-3395).            *)
Holdings ==
  {<<d, lane[d]>> : d \in {e \in Db : lane[e] # None}}
    \cup {<<a, pub[a]>> : a \in {c \in App : pub[c] # None}}
    \cup {<<d, made[d]>> : d \in {e \in Db : made[e] # None}}
    \cup {<<a, deploys[a].port>> : a \in {c \in App : deploys[c] # NoDeploy}}
PortsApart == ~moved => \A h, k \in Holdings : h[2] = k[2] => h = k

(* Router.lanes knows every socket the router listens on, so that a later  *)
(* pass can close it (reconcileSerial's comment: a lost bind race leaked a  *)
(* listener nothing could close).                                          *)
NoListenerLost == sockets = {[db |-> d, port |-> lanes[d]] : d \in {e \in Db : lanes[e] # None}}

(* Unless a listing moved a lane, whoever dials the port a row names never *)
(* reaches another database that is still there, the window between the    *)
(* row and the reconcile that follows it included.                         *)
NeverCrossWired == ~moved =>
  \A k \in sockets, d \in Db : lane[d] = k.port /\ d # k.db => k.db \notin carried

(* A port leads to one service, as it is given out and as it is dialled.   *)
OnePerPort == PortsApart /\ NeverCrossWired

(* Neither the rows nor the sockets give a port to two, or lose one.       *)
PortsHold == OnePerPort /\ NoListenerLost

(* While at most one port is held by something no row knows, every database *)
(* with a lane ends up with its listener on the port its row names.        *)
LanesFollow ==
  [](Cardinality(Strangers) <= 1) => <>[](\A d \in carried : lane[d] # None => lanes[d] = lane[d])

(* laneFor is "idempotent and once per service" (engine.ts:3139): a lane,   *)
(* once recorded on a row that stays, only the router moves.               *)
LaneOnce ==
  [][\A d \in carried \cap carried' : lane[d] \notin {None, lane'[d]} =>
        \E s \in Slot : work[s].at = d]_lanesVars
=============================================================================
