------------------------------ MODULE Domains ------------------------------
(***************************************************************************)
(* Custom domains, engine.ts and router/domains.ts: hostnames people own,  *)
(* attached to a compute group on a branch, answered by the router's table *)
(* (router/table.ts), vouched for to the edge that buys their certificates *)
(* (router/internal.ts), and reported on by requests that look DNS up in   *)
(* the middle of everything else.  No route of theirs takes a lock; the    *)
(* operations that end a deployment take its domains with it.              *)
(*                                                                         *)
(* What ends a deployment is one step here: until the write at its end the *)
(* row is as it was, and a demolition that stops leaves it so.  The ghost  *)
(* meant[h] is the deployment the last accepted attach named, or Nil once  *)
(* that was detached or ended; `lost` once a rename took its group's name. *)
(***************************************************************************)
CONSTANTS
    Domain,    \* hostnames outside the daemon's own suffix
    Site,      \* branches; a demolished one comes back as the next of its name
    ProjectOf,     \* the project of each branch
    Project,   \* callers' projects
    Service,   \* names of compute groups
    Bucket,    \* names of buckets
    HasIp,     \* whether the installer recorded a public address
    Nil

ASSUME DomainsAssumption ==
    /\ ProjectOf \in [Site -> Project]
    /\ Nil \notin (Site \X Service) \cup [where : Site \X Service, lost : BOOLEAN]

VARIABLES
    sites,     \* branches with a row
    running,   \* by branch: the groups in its apps
    stored,    \* by branch: the buckets it carries
    entry,     \* customDomains
    meant,     \* (ghost) what each hostname was attached to
    dns,       \* where the world's DNS sends each hostname
    certified, \* hosts the edge has a certificate for; nothing takes one back
    strays,    \* (ghost) certificates bought for what the box did not serve
    check      \* the status request in flight

rowsOf == <<sites, running, stored>>
domainsVars == <<rowsOf, entry, meant, dns, certified, strays, check>>

World == {"cname", "address", "elsewhere", "missing", "silent"}
Quiet == [at |-> "idle", host |-> Nil, where |-> Nil, ours |-> FALSE,
          calm |-> TRUE, said |-> Nil]

DomainsInit ==
    /\ \E first \in Site : sites = {first}
    /\ running = [b \in Site |-> {}] /\ stored = [b \in Site |-> {}]
    /\ entry = [h \in Domain |-> Nil] /\ meant = [h \in Domain |-> Nil]
    /\ dns = [h \in Domain |-> "missing"]
    /\ certified = {} /\ strays = {}
    /\ check = Quiet

\* (ghost) a request in flight no longer sees one state of the world
Disturbed == check' = [check EXCEPT !.calm = check.at = "idle"]
-----------------------------------------------------------------------------
\* The table: what the router answers, what the daemon calls its own.

Minted(b, g) == <<"minted", b, g>>
Vhost(k) == <<"bucket", k>>
Static == {<<"api">>, <<"console">>, <<"s3">>}
Host == Domain \cup Static \cup {Minted(b, g) : b \in Site, g \in Service}
               \cup {Vhost(k) : k \in Bucket}

\* setComputeDomain refuses a hostname under the daemon's own suffix.
ASSUME OutsideAssumption ==
    \A h \in Domain :
        /\ h \notin Static /\ \A k \in Bucket : h # Vhost(k)
        /\ \A b \in Site, g \in Service : h # Minted(b, g)

Aliases(b, g) == {h \in Domain : entry[h] = <<b, g>>}
Routes ==
    {[key |-> s, hosts |-> {s}] : s \in Static} \cup
    UNION {{[key |-> <<b, g>>, hosts |-> {Minted(b, g)} \cup Aliases(b, g)]
              : g \in running[b]} : b \in sites}

Exact(host) == {r.key : r \in {r \in Routes : host \in r.hosts}}

\* Any single label in front of the object store's suffix reaches the store.
ByHost(host) == Exact(host) \cup {<<"s3">> : k \in {k \in Bucket : host = Vhost(k)}}

\* Mutant: what can be routed is ours.
RoutableHosts == {host \in Host : ByHost(host) # {}}

\* hosts(): the wildcard is routing, not ownership.
TableHosts ==
    (UNION {r.hosts : r \in Routes}) \cup (UNION {{Vhost(k) : k \in stored[b]} : b \in sites})

OwnsHostname(host) == host \in TableHosts
-----------------------------------------------------------------------------
\* The four routes.

\* domainTarget: the group named, or the branch's only one.
HasTarget(p, b, g) == b \in sites /\ ProjectOf[b] = p /\ g \in running[b]

SetComputeDomain(h, p, b, g) ==
    /\ HasTarget(p, b, g)
    /\ entry[h] \in {Nil, <<b, g>>}
    /\ entry' = [entry EXCEPT ![h] = <<b, g>>]
    /\ meant' = [meant EXCEPT ![h] = [where |-> <<b, g>>, lost |-> FALSE]]
    /\ Disturbed
    /\ UNCHANGED <<rowsOf, dns, certified, strays>>

RemoveComputeDomain(h, p) ==
    /\ entry[h] # Nil /\ ProjectOf[entry[h][1]] = p
    /\ entry' = [entry EXCEPT ![h] = Nil]
    /\ meant' = [meant EXCEPT ![h] = Nil]
    /\ Disturbed
    /\ UNCHANGED <<rowsOf, dns, certified, strays>>

\* computeDomainStatus: whose entry it is, then the two addresses that count as ours.
AskStatus(h, p) ==
    /\ check.at = "idle"
    /\ LET asked == [Quiet EXCEPT !.host = h] IN
       IF entry[h] = Nil \/ ProjectOf[entry[h][1]] # p
       THEN check' = [asked EXCEPT !.at = "done", !.said = "not added"]
       ELSE \E resolves \in BOOLEAN :
               check' = [asked EXCEPT !.at = "cname", !.where = entry[h],
                                      !.ours = HasIp \/ resolves]
    /\ UNCHANGED <<rowsOf, entry, meant, dns, certified, strays>>

\* Mutant: a record that resolves to us is all it takes.
ConfiguredByDns(record, h) == record = "ok"

\* domainResult, domainCertOk
Configured(record, h) == record = "ok" /\ h \in certified

Report(record) ==
    check' = [check EXCEPT !.at = "done",
        !.said = IF Configured(record, check.host) THEN "ready" ELSE "pending"]

LookUpCname ==
    /\ check.at = "cname"
    /\ IF dns[check.host] = "cname" THEN Report("ok") ELSE check' = [check EXCEPT !.at = "address"]
    /\ UNCHANGED <<rowsOf, entry, meant, dns, certified, strays>>

\* checkDns: by address a CNAME to us reads like an A record.
AddressRecord(seen) ==
    CASE seen \in {"cname", "address"} -> IF check.ours THEN "ok" ELSE "mismatch"
      [] seen = "elsewhere" -> "mismatch"
      [] seen = "missing" -> "missing"
      [] seen = "silent" -> "unchecked"

LookUpAddress ==
    /\ check.at = "address"
    /\ Report(AddressRecord(dns[check.host]))
    /\ UNCHANGED <<rowsOf, entry, meant, dns, certified, strays>>

Reported ==
    /\ check.at = "done" /\ check' = Quiet
    /\ UNCHANGED <<rowsOf, entry, meant, dns, certified, strays>>
-----------------------------------------------------------------------------
\* Deployments come and go.

\* Mutant: every branch's.
FreedEverywhere(b, groups) == {h \in Domain : \E c \in Site, g \in groups : entry[h] = <<c, g>>}

\* releaseDomainsFor: of one branch, of some of its groups.
Freed(b, groups) == {h \in Domain : \E g \in groups : entry[h] = <<b, g>>}

Release(b, groups) ==
    LET freed == Freed(b, groups) IN
    entry' = [h \in Domain |-> IF h \in freed THEN Nil ELSE entry[h]]

\* (ghost) the deployments on b that were meant are gone
Ended(b, groups) ==
    meant' = [h \in Domain |->
        IF meant[h] # Nil /\ meant[h].where \in {<<b, g>> : g \in groups} THEN Nil ELSE meant[h]]

DeployGroup(b, g) ==
    /\ b \in sites
    /\ running' = [running EXCEPT ![b] = @ \cup {g}]
    /\ Disturbed
    /\ UNCHANGED <<sites, stored, entry, meant, dns, certified, strays>>

\* removeComputeLocked, on a branch that runs the group or not
RemoveGroup(b, g) ==
    /\ b \in sites /\ \E c \in sites : ProjectOf[c] = ProjectOf[b] /\ g \in running[c]
    /\ running' = [running EXCEPT ![b] = @ \ {g}]
    /\ Release(b, {g}) /\ Ended(b, {g})
    /\ Disturbed
    /\ UNCHANGED <<sites, stored, dns, certified, strays>>

\* renameComputeServiceLocked: rows move on every branch of the project, no domain does.
RenameGroup(p, old, new) ==
    /\ \E b \in sites : ProjectOf[b] = p /\ old \in running[b]
    /\ \A b \in sites : ProjectOf[b] = p => new \notin running[b]
    /\ running' = [b \in Site |->
          IF ProjectOf[b] = p /\ old \in running[b] THEN (running[b] \ {old}) \cup {new} ELSE running[b]]
    /\ meant' = [h \in Domain |->
          IF meant[h] # Nil /\ ProjectOf[meant[h].where[1]] = p /\ meant[h].where[2] = old
          THEN [meant[h] EXCEPT !.lost = TRUE] ELSE meant[h]]
    /\ Disturbed
    /\ UNCHANGED <<sites, stored, entry, dns, certified, strays>>

\* createBranch: what its source runs and carries, none of its domains.
ForkSite(source, b) ==
    /\ source \in sites /\ b \in Site \ sites /\ ProjectOf[b] = ProjectOf[source]
    /\ sites' = sites \cup {b}
    /\ running' = [running EXCEPT ![b] = running[source]]
    /\ stored' = [stored EXCEPT ![b] = stored[source]]
    /\ Disturbed
    /\ UNCHANGED <<entry, meant, dns, certified, strays>>

\* teardownBranch, when all of it went: its domains, then its row.
Demolish(b) ==
    /\ b \in sites /\ sites # {b}
    /\ sites' = sites \ {b}
    /\ running' = [running EXCEPT ![b] = {}]
    /\ stored' = [stored EXCEPT ![b] = {}]
    /\ Release(b, Service) /\ Ended(b, Service)
    /\ Disturbed
    /\ UNCHANGED <<dns, certified, strays>>

\* A storage service added or removed.
Bucketed(b, some) ==
    /\ b \in sites
    /\ stored' = [stored EXCEPT ![b] = some]
    /\ UNCHANGED <<sites, running, entry, meant, dns, certified, strays, check>>
-----------------------------------------------------------------------------
\* The world: DNS records move, and the edge buys a certificate for a name on a handshake,
\* once the daemon's loopback listener vouches for it (/tls/ask).

Move(h, to) ==
    /\ dns' = [dns EXCEPT ![h] = to]
    /\ Disturbed
    /\ UNCHANGED <<rowsOf, entry, meant, certified, strays>>

\* Something on this box exists under the name.
Served(host) ==
    \/ host \in Static
    \/ \E b \in sites : \E g \in running[b] : host = Minted(b, g)
    \/ host \in Domain /\ entry[host] # Nil /\ entry[host][2] \in running[entry[host][1]]
    \/ \E b \in sites : \E k \in stored[b] : host = Vhost(k)

TlsAsk(host) ==
    /\ host \notin certified
    /\ OwnsHostname(host)
    /\ certified' = certified \cup ({host} \cap Domain)
    /\ strays' = IF Served(host) THEN strays ELSE strays \cup {host}
    /\ Disturbed
    /\ UNCHANGED <<rowsOf, entry, meant, dns>>

DomainsNext ==
    \/ \E h \in Domain, p \in Project :
          \/ \E b \in Site, g \in Service : SetComputeDomain(h, p, b, g)
          \/ RemoveComputeDomain(h, p) \/ AskStatus(h, p)
    \/ LookUpCname \/ LookUpAddress \/ Reported
    \/ \E b \in Site : Demolish(b) \/ \E source \in Site : ForkSite(source, b)
    \/ \E b \in Site, g \in Service : DeployGroup(b, g) \/ RemoveGroup(b, g)
    \/ \E p \in Project, g, new \in Service : RenameGroup(p, g, new)
    \/ \E b \in Site, some \in SUBSET Bucket : Bucketed(b, some)
    \/ \E h \in Domain, to \in World : Move(h, to)
    \/ \E host \in Host : TlsAsk(host)

DomainsSpec == DomainsInit /\ [][DomainsNext]_domainsVars
-----------------------------------------------------------------------------
\* A hostname goes to the deployment it was attached to for as long as that lasts, whatever
\* is removed, forked or demolished beside it, and to nothing afterwards.
StaysAttached ==
    \A h \in Domain :
        IF meant[h] = Nil THEN entry[h] = Nil
        ELSE meant[h].lost \/ (entry[h] = meant[h].where /\ Exact(h) = {meant[h].where})

\* Certificates are bought only for what the box serves: never for a name that merely routes
\* to the object store.
NoStrays == strays = {}

\* While nothing moved, the verdict is the truth: ready exactly for what is routed to a
\* running group, resolves to us as far as we can know, and has its certificate.
VerdictIsTrue ==
    check.at = "done" /\ check.calm /\ check.where # Nil
        /\ (meant[check.host] # Nil => ~meant[check.host].lost) =>
        (check.said = "ready" <=>
            /\ Exact(check.host) = {check.where}
            /\ \/ dns[check.host] = "cname"
               \/ dns[check.host] = "address" /\ check.ours
            /\ check.host \in certified)

DomainsHold == StaysAttached /\ NoStrays /\ VerdictIsTrue

\* What does not hold: "a rename moves them to the new group".  Nothing calls
\* releaseDomainsFor with a group to move to; the hostname stays with the old name, answers
\* nothing, and goes to whatever group takes that name next.
RenameMovesDomains ==
    \A h \in Domain : entry[h] # Nil => entry[h][2] \in running[entry[h][1]]
=============================================================================
