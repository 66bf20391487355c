------------------------------- MODULE Certs -------------------------------
(***************************************************************************)
(* The certificates the TLS lanes present (src/src/router/certs.ts and the  *)
(* default context of src/src/router/index.ts), server mode.               *)
(*                                                                         *)
(* A certificate is two files.  Somebody else replaces them, one rename    *)
(* after the other: the operator a supplied pair, the edge a pair it       *)
(* issued.  The daemon reads them one at a time, so a read may straddle a   *)
(* replacement; it tells a replaced file by a stamp taken before the bytes. *)
(* A lane that takes a SecureContext (pg) and the lanes that take bytes    *)
(* (redis, mongo) are brought along by refreshDefaultContext, at boot, on   *)
(* every reconcile and on the sweep's beat.  Each look runs in one piece   *)
(* as far as the daemon is concerned: only the writers come between.       *)
(***************************************************************************)
EXTENDS Naturals, FiniteSets

CONSTANTS Host,      \* hostnames clients ask for by SNI
          Api,       \* api.<domain>, the default for clients that send none
          Lane,      \* the SNI lanes
          MaxWrites, \* bound: files written or withdrawn
          None

ASSUME CertsAssumption ==
  /\ Api \in Host /\ MaxWrites \in Nat /\ "boot" \notin Host /\ "beat" \notin Host
  /\ None \notin Nat /\ None \notin [crt : Nat, key : Nat]
  /\ None \notin [v : Nat, stamp : [crt : Nat, key : Nat]]

VARIABLES
  supplied,   \* --tls custom: one pair for all hosts; else the edge issues one for each
  disk,       \* per pair, each half: whose certificate it is (0: not there), and its stamp
  writes,     \* files written so far; a write gives the file this as its stamp
  asked,      \* the pairs the edge has been asked for
  cache,      \* Certs.cache: a loaded context and the stamp of the pair it came from
  defaults,   \* Router.defaultContext
  material,   \* Router.defaultMaterial
  presented,  \* the certificate each SNI lane presents, 0 for none
  stage,      \* Router.start: the first look, then the lanes open
  task,       \* the look that is under way
  issuing,    \* looks that wait for the edge
  watch       \* SuppliedCertWatch: the stamp it read, and the certificate it found

files == <<supplied, disk, writes, asked>>
held == <<cache, defaults, material, presented>>
vars == <<files, held, stage, task, issuing, watch>>

FileOf(h) == IF supplied THEN Api ELSE h

Half == [v : 0..MaxWrites, at : 0..MaxWrites]
Stamps == [crt : 0..MaxWrites, key : 0..MaxWrites]
Contexts == [v : 1..MaxWrites, stamp : Stamps]
Looks == {"boot", "beat"} \cup Host
HostOf(w) == IF w \in {"boot", "beat"} THEN Api ELSE w
NoStamp == [crt |-> 0, key |-> 0]
NoTask == [who |-> None, pc |-> "none", again |-> FALSE, stamp |-> NoStamp, crt |-> 0, ctx |-> None]
Steps == {"none", "find", "findkey", "crt", "key", "mfind", "mcrt", "mkey"}

TypeOK ==
  /\ supplied \in BOOLEAN /\ disk \in [Host -> [crt : Half, key : Half]] /\ writes \in 0..MaxWrites /\ asked \subseteq Host
  /\ cache \in [Host -> Contexts \cup {None}] /\ defaults \in Contexts \cup {None}
  /\ material \in [crt : 1..MaxWrites, key : 1..MaxWrites] \cup {None}
  /\ presented \in [Lane -> 0..MaxWrites]
  /\ stage \in {"boot", "up"} /\ issuing \subseteq Looks
  /\ task \in [who : Looks \cup {None}, pc : Steps, again : BOOLEAN, stamp : Stamps,
               crt : 0..MaxWrites, ctx : Contexts \cup {None}]
  /\ watch \in [stamp : 0..MaxWrites, v : 0..MaxWrites]

Begin(w, again) == [NoTask EXCEPT !.who = w, !.pc = "find", !.again = again]

Init ==
  /\ supplied \in BOOLEAN
  /\ disk = [f \in Host |-> [crt |-> [v |-> 0, at |-> 0], key |-> [v |-> 0, at |-> 0]]]
  /\ writes = 0 /\ asked = {}
  /\ cache = [h \in Host |-> None] /\ defaults = None /\ material = None
  /\ presented = [l \in Lane |-> 0]
  /\ stage = "boot" /\ task = Begin("boot", FALSE) /\ issuing = {}
  /\ watch = [stamp |-> 0, v |-> 0]

There(half) == half.v # 0
Whole(f) == There(disk[f].crt) /\ disk[f].crt.v = disk[f].key.v

(* fileStamp: mtime, size, inode, ctime and mode; a rename moves it, even  *)
(* one that keeps the time of the file.                                    *)
FileStampByTime(half) == IF There(half) THEN 1 ELSE 0
FileStamp(half) == IF There(half) THEN half.at ELSE 0
PairStamp(f) == [crt |-> FileStamp(disk[f].crt), key |-> FileStamp(disk[f].key)]

(***************************************************************************)
(* The writers: half after half, in either order, until the pair is whole; *)
(* then perhaps another.  A half may be withdrawn and put back.            *)
(***************************************************************************)
Newest(f) == IF disk[f].crt.v > disk[f].key.v THEN disk[f].crt.v ELSE disk[f].key.v
Write(f, half, v) ==
  /\ writes < MaxWrites
  /\ writes' = writes + 1
  /\ disk' = [disk EXCEPT ![f][half] = [v |-> v, at |-> writes + 1]]
  /\ UNCHANGED <<supplied, asked, held, stage, task, issuing, watch>>

Replace(f, half) ==
  /\ f = FileOf(f) /\ (supplied \/ f \in asked)
  /\ Write(f, half, IF disk[f].crt.v = disk[f].key.v THEN Newest(f) + 1 ELSE Newest(f))
Withdraw(f, half) == There(disk[f][half]) /\ Write(f, half, 0)

(***************************************************************************)
(* One look at a pair: certFor, findCertFiles, contextFor.                 *)
(***************************************************************************)
(* A client's SNI, and the beat; neither comes while a look is under way.  *)
Hello(h) ==
  /\ stage = "up" /\ task = NoTask
  /\ task' = Begin(h, FALSE)
  /\ UNCHANGED <<files, held, stage, issuing, watch>>

Beat ==
  /\ stage = "up" /\ task = NoTask
  /\ There(disk[Api].crt) /\ There(disk[Api].key)
  /\ task' = Begin("beat", FALSE)
  /\ UNCHANGED <<files, held, stage, issuing, watch>>

Pair == disk[FileOf(HostOf(task.who))]

(* No pair: a supplied one is not issued instead, the edge is asked once.  *)
Missing ==
  LET f == FileOf(HostOf(task.who)) IN
  /\ task' = NoTask
  /\ IF ~supplied /\ ~task.again
       THEN issuing' = issuing \cup {task.who} /\ asked' = asked \cup {f}
       ELSE UNCHANGED <<issuing, asked>>
  /\ UNCHANGED <<supplied, disk, writes, held, stage, watch>>

Find ==
  /\ task.pc = "find"
  /\ IF There(Pair.crt) /\ There(Pair.key)
       THEN /\ task' = [task EXCEPT !.pc = "findkey", !.stamp.crt = FileStamp(Pair.crt)]
            /\ UNCHANGED <<files, held, stage, issuing, watch>>
       ELSE Missing

Gone == task' = NoTask /\ UNCHANGED <<files, held, stage, issuing, watch>>

(* A refresh goes on to the bytes, unless it has nothing new to commit.    *)
GoOn(ctx) == IF task.who \notin Host /\ ctx # defaults
             THEN [task EXCEPT !.pc = "mfind", !.ctx = ctx] ELSE NoTask

FindKey ==
  LET stamp == [task.stamp EXCEPT !.key = FileStamp(Pair.key)]
      hit == cache[HostOf(task.who)]
  IN
  /\ task.pc = "findkey"
  /\ IF ~There(Pair.key) THEN Missing
     ELSE /\ IF hit # None /\ (hit # None => hit.stamp = stamp)
               THEN task' = GoOn(hit)
               ELSE task' = [task EXCEPT !.pc = "crt", !.stamp = stamp]
          /\ UNCHANGED <<files, held, stage, issuing, watch>>

ReadCrt ==
  /\ task.pc \in {"crt", "mcrt"}
  /\ IF There(Pair.crt)
       THEN /\ task' = [task EXCEPT !.pc = IF @ = "crt" THEN "key" ELSE "mkey", !.crt = Pair.crt.v]
            /\ UNCHANGED <<files, held, stage, issuing, watch>>
       ELSE Gone

(* createSecureContext refuses halves that do not match; a context that    *)
(* loads is cached under the stamp taken before its bytes.                 *)
LoadStampedLate ==
  LET ctx == [v |-> Pair.key.v, stamp |-> PairStamp(FileOf(HostOf(task.who)))] IN
  /\ task.pc = "key"
  /\ IF There(Pair.key) /\ Pair.key.v = task.crt
       THEN /\ cache' = [cache EXCEPT ![HostOf(task.who)] = ctx]
            /\ task' = GoOn(ctx)
            /\ UNCHANGED <<files, defaults, material, presented, stage, issuing, watch>>
       ELSE Gone
Load ==
  LET ctx == [v |-> Pair.key.v, stamp |-> task.stamp] IN
  /\ task.pc = "key"
  /\ IF There(Pair.key) /\ Pair.key.v = task.crt
       THEN /\ cache' = [cache EXCEPT ![HostOf(task.who)] = ctx]
            /\ task' = GoOn(ctx)
            /\ UNCHANGED <<files, defaults, material, presented, stage, issuing, watch>>
       ELSE Gone

(* materialFor: the pair is looked up and read again, for its bytes.       *)
CommitEarly ==
  /\ task.pc = "mfind"
  /\ defaults' = task.ctx
  /\ task' = IF There(Pair.crt) /\ There(Pair.key) THEN [task EXCEPT !.pc = "mcrt"] ELSE NoTask
  /\ UNCHANGED <<files, cache, material, presented, stage, issuing, watch>>
MaterialFor ==
  /\ task.pc = "mfind"
  /\ task' = IF There(Pair.crt) /\ There(Pair.key) THEN [task EXCEPT !.pc = "mcrt"] ELSE NoTask
  /\ UNCHANGED <<files, held, stage, issuing, watch>>

(* Both reads have succeeded: the context and the bytes are committed, and *)
(* pushed to the lanes, which refuse halves that do not match.             *)
Commit ==
  /\ task.pc = "mkey"
  /\ IF There(Pair.key)
       THEN /\ defaults' = task.ctx
            /\ material' = [crt |-> task.crt, key |-> Pair.key.v]
            /\ presented' = [l \in Lane |-> IF stage = "up" /\ task.crt = Pair.key.v
                                            THEN task.crt ELSE presented[l]]
            /\ task' = NoTask
            /\ UNCHANGED <<files, cache, stage, issuing, watch>>
       ELSE Gone

(* The edge answered, or its 15 s passed: the store is read once more.     *)
Issued(w) ==
  /\ w \in issuing /\ task = NoTask
  /\ issuing' = issuing \ {w}
  /\ task' = Begin(w, TRUE)
  /\ UNCHANGED <<files, held, stage, watch>>

(* The lanes open on the bytes of the first look.  A lane refuses halves   *)
(* that do not match: start rejects, and the daemon is started again.      *)
OpenLanes ==
  /\ stage = "boot" /\ task = NoTask /\ "boot" \notin issuing
  /\ IF material = None \/ (material # None => material.crt = material.key)
       THEN /\ stage' = "up"
            /\ presented' = [l \in Lane |-> IF material = None THEN 0 ELSE material.crt]
            /\ UNCHANGED <<cache, defaults, material, task, issuing, watch>>
       ELSE /\ cache' = [h \in Host |-> None] /\ defaults' = None /\ material' = None
            /\ task' = Begin("boot", FALSE) /\ issuing' = {}
            /\ watch' = [stamp |-> 0, v |-> 0]
            /\ UNCHANGED <<stage, presented>>
  /\ UNCHANGED files

(* SuppliedCertWatch.sync: the certificate alone, read when its stamp moves. *)
Watched == disk[Api].crt
Sync ==
  /\ supplied
  /\ FileStamp(Watched) # watch.stamp
  /\ watch' = [stamp |-> FileStamp(Watched), v |-> Watched.v]
  /\ UNCHANGED <<files, held, stage, task, issuing>>

Looking == Find \/ FindKey \/ ReadCrt \/ Load \/ MaterialFor \/ Commit

Next ==
  \/ \E f \in Host, half \in {"crt", "key"} : Replace(f, half) \/ Withdraw(f, half)
  \/ \E h \in Host : Hello(h)
  \/ Beat \/ Looking \/ OpenLanes \/ Sync
  \/ \E w \in Looks : Issued(w)

(* The beat keeps coming and is not crowded out by handshakes; a look, an  *)
(* issuance and the boot come to an end.                                   *)
Fairness ==
  /\ WF_vars(Looking) /\ WF_vars(OpenLanes) /\ WF_vars(Sync)
  /\ SF_vars(Beat) /\ \A w \in Looks : SF_vars(Issued(w))

Spec == Init /\ [][Next]_vars /\ Fairness

-----------------------------------------------------------------------------
(* A context cached under the stamp the files have now is the one on disk:  *)
(* the cache never answers a replaced pair with the certificate it had     *)
(* (contextFor: "the lanes then served the old certificate for as long as  *)
(* the process lived").                                                    *)
CacheIsCurrent ==
  \A h \in Host : cache[h] # None =>
    LET f == FileOf(h) IN
    cache[h].stamp = PairStamp(f) => Whole(f) /\ cache[h].v = disk[f].crt.v

(* When the default context is that of the files, so that every later look *)
(* ends at "nothing moved", the lanes that take bytes have them too: pg    *)
(* never moves on without redis and mongo (refreshDefaultContext).         *)
NoLaneLeftBehind ==
  stage = "up" /\ defaults # None =>
    (defaults.stamp = PairStamp(Api) =>
       /\ material = [crt |-> defaults.v, key |-> defaults.v]
       /\ \A l \in Lane : presented[l] = defaults.v)

(* One pair of files, one certificate: in the cache and on every lane.      *)
OnePairEverywhere == CacheIsCurrent /\ NoLaneLeftBehind

(* A replacement that is over lands: once the pair of api.<domain> stays   *)
(* whole, every lane comes to present it to clients without SNI, and       *)
(* /healthz to report it, with no restart.                                 *)
RenewalLands ==
  <>[]Whole(Api) =>
    <>[](/\ defaults # None /\ defaults.v = disk[Api].crt.v
         /\ \A l \in Lane : presented[l] = disk[Api].crt.v
         /\ supplied => watch.v = disk[Api].crt.v)
=============================================================================
