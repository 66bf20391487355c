----------------------------- MODULE HostProofs -----------------------------
(***************************************************************************)
(* Proofs about what is kept on the host.                                  *)
(*                                                                         *)
(* Migration, for every number of versions: whatever is killed or failed,  *)
(* and wherever, the bytes of a store are always whole in one of its two   *)
(* homes and no container runs on others; and the migration implements     *)
(* DataMove, step by step.  Both say what of apps that write while their   *)
(* volume is walked, and of a database woken between two boots, the run    *)
(* leaves out.                                                             *)
(*                                                                         *)
(* Lanes, for any branches, databases, apps and ports, whoever else has    *)
(* ports of the host and whatever boots interrupt: a port is in one row,   *)
(* and a listener is where the row of its database says.  The argument is  *)
(* LanesInv: rows are of branches that were made, one pass runs at a time, *)
(* and while nothing was moved each port has one holder, whom the          *)
(* reservation of a port without a row names.                              *)
(***************************************************************************)
EXTENDS Migration, Lanes, FiniteSetTheorems, WellFoundedInduction, TLAPS

-------------------------------------------------------------------------------
\* The migration.

\* No app writes to a volume while that is walked, and nothing wakes the old container of the
\* database between two boots.
Undisturbed == ~LiveApps /\ "pg" \notin Woken

Bytes0 == {Absent, Partial, Torn} \cup Version
Copying == {"copy", "walk", "clear", "promote"}

MigrationTyped ==
    /\ arm \in Arm /\ pc \in PC
    /\ legacy \in [Arm -> Bytes0] /\ target \in [Arm -> Bytes0] /\ staging \in [Arm -> Bytes0]
    /\ old \in [Arm -> Container] /\ new \in [Arm -> Container]
    /\ newest \in [Arm -> {Absent} \cup Version]
    /\ row \in {"legacy", "fresh"}

\* A store without data never gets any.
Bare(a) ==
    newest[a] = Absent =>
        /\ legacy[a] = Absent /\ target[a] = Absent /\ staging[a] = Absent
        /\ old[a] = "none" /\ new[a] = "none"

\* The database: a whole copy in the data directory is the one that counts, whatever else is
\* there, and the old container does not run beside it; without one, the old container is
\* there, and the row names it.
PgInv ==
    newest["pg"] # Absent =>
        /\ Whole(target["pg"]) => target["pg"] = newest["pg"] /\ old["pg"] # "up"
        /\ ~Whole(target["pg"]) =>
              legacy["pg"] = newest["pg"] /\ old["pg"] # "none" /\ row = "legacy" /\ new["pg"] = "none"

\* A volume counts until a container is on the data directory.  When the old one is gone and
\* no new one came, the copy is whole or was taken away for another.
VolInv ==
    newest["vol"] # Absent =>
        /\ new["vol"] = "none" => legacy["vol"] = newest["vol"]
        /\ new["vol"] # "none" => old["vol"] = "none" /\ target["vol"] = newest["vol"]
        /\ new["vol"] = "none" /\ old["vol"] = "none" => target["vol"] \in {Absent, newest["vol"]}

\* A managed database's bytes go with its old container, which goes when they were copied.
MdInv ==
    newest["md"] # Absent =>
        /\ old["md"] = "none" => target["md"] = newest["md"] /\ legacy["md"] = Absent
        /\ old["md"] # "none" => legacy["md"] = newest["md"] /\ new["md"] = "none"

\* Stores whose bytes that count are in the data directory.
PgMoved == newest["pg"] # Absent => Whole(target["pg"])
VolMoved == newest["vol"] # Absent => new["vol"] # "none" \/ legacy["vol"] = Absent
MdMoved == newest["md"] # Absent => legacy["md"] = Absent

\* What the pass knows of the store it is at.
PassInv ==
    /\ pc = "stop" => arm # "vol" /\ old[arm] # "none" /\ newest[arm] # Absent
    /\ pc \in Copying =>
          /\ newest[arm] # Absent /\ legacy[arm] = newest[arm] /\ new[arm] = "none"
          /\ arm # "vol" => old[arm] = "down"
          /\ arm = "pg" => ~Whole(target["pg"])
    /\ pc \in {"clear", "promote"} => staging[arm] = newest[arm]
    /\ pc \in {"drop", "run"} =>
          /\ newest[arm] # Absent /\ target[arm] = newest[arm]
          /\ arm # "pg" => new[arm] = "none"
          /\ arm # "vol" => old[arm] # "up"
    /\ pc \in {"ready", "settle"} => newest[arm] # Absent /\ new[arm] # "none"
    /\ pc = "ready" => arm = "pg"
    /\ arm \in {"vol", "md"} => PgMoved
    /\ arm = "md" => VolMoved
    /\ pc = "stamp" => arm = "md" /\ MdMoved
    /\ stamped => pc = "serving" /\ arm = "md" /\ MdMoved

StoresBare == \A a \in Arm : Bare(a)

MigrationInv == MigrationTyped /\ StoresBare /\ PgInv /\ VolInv /\ MdInv /\ PassInv

-------------------------------------------------------------------------------

\* The steps of the pass, one lemma each.
USE DEF locals, records, bytes, containers, history, Goto, At, Fail, NextStore, NextArm, Arm,
        Absent, Partial, Torn

LEMMA ProbePgHolds == ASSUME Undisturbed, MigrationInv, ProbePg PROVE MigrationInv'
<1> USE DEF MigrationInv, ProbePg
<1>1. MigrationTyped'
  BY MigrationAssumption DEF MigrationTyped, PC, Bytes0, Container, Version
<1>2. StoresBare'
  BY DEF MigrationTyped, StoresBare, Bare, PassInv, Copying
<1>3. PgInv'
  BY DEF MigrationTyped, PgInv, PassInv, Copying
<1>4. VolInv'
  BY DEF MigrationTyped, VolInv, PassInv, Copying
<1>5. MdInv'
  BY DEF MigrationTyped, MdInv, PassInv, Copying
<1>6. PassInv'
  <2>1. /\ PgInv /\ Bare("pg") /\ PassInv /\ arm = "pg"
        /\ UNCHANGED <<row, stamped, legacy, target, staging, old, new, newest>>
    BY DEF StoresBare
  <2>2. /\ pc' \in {"serving", "stop", "run", "probe"}
        /\ pc' = "stop" => arm' = "pg" /\ old["pg"] # "none" /\ newest["pg"] # Absent
        /\ pc' = "run" => arm' = "pg" /\ Whole(target["pg"])
        /\ arm' \in {"pg", "vol"} /\ (arm' = "vol" => Settled \/ (~LegacyThere /\ ~Complete(target["pg"])))
    BY <2>1 DEF LegacyThere, Complete, Bare
  <2>3. arm' = "vol" => PgMoved'
    BY <2>1, <2>2 DEF Settled, LegacyThere, Complete, PgInv, PgMoved
  <2>4. pc' = "run" => newest["pg"] # Absent /\ target["pg"] = newest["pg"] /\ old["pg"] # "up"
    BY <2>1, <2>2 DEF PgInv, Bare, Whole, Version
  <2>5. ~stamped
    BY <2>1 DEF PassInv
  <2> QED BY <2>1, <2>2, <2>3, <2>4, <2>5 DEF PassInv, Copying
<1> QED BY <1>1, <1>2, <1>3, <1>4, <1>5, <1>6

LEMMA ProbeVolHolds == ASSUME Undisturbed, MigrationInv, ProbeVol PROVE MigrationInv'
<1> USE DEF MigrationInv, ProbeVol
<1>1. MigrationTyped'
  BY MigrationAssumption DEF MigrationTyped, PC, Bytes0, Container, Version
<1>2. StoresBare'
  BY DEF MigrationTyped, StoresBare, Bare, PassInv, Copying
<1>3. PgInv'
  BY DEF MigrationTyped, PgInv, PassInv, Copying
<1>4. VolInv'
  BY DEF MigrationTyped, VolInv, PassInv, Copying
<1>5. MdInv'
  BY DEF MigrationTyped, MdInv, PassInv, Copying
<1>6. PassInv'
  <2>1. /\ VolInv /\ Bare("vol") /\ PassInv /\ arm = "vol" /\ ~stamped
        /\ UNCHANGED <<row, stamped, legacy, target, staging, old, new, newest>>
    BY DEF StoresBare, PassInv
  <2>2. PgMoved' /\ PgMoved
    BY <2>1 DEF PassInv, PgMoved
  <2>3. CASE Goto("serving") \/ (legacy["vol"] = Absent /\ NextStore)
    BY <2>1, <2>2, <2>3 DEF PassInv, VolMoved, Copying
  <2>4. CASE legacy["vol"] # Absent /\ OnBindMount /\ Goto("settle")
    BY <2>1, <2>2, <2>4 DEF PassInv, OnBindMount, Copying, Bare
  <2>5. CASE legacy["vol"] # Absent /\ ~OnBindMount /\ Goto("copy")
    BY <2>1, <2>2, <2>5 DEF PassInv, OnBindMount, Copying, Bare, VolInv
  <2>6. CASE /\ legacy["vol"] # Absent /\ ~OnBindMount /\ Goto("drop")
             /\ old["vol"] = "none" /\ ~EmptyOrMissing(target["vol"])
    BY <2>1, <2>2, <2>6 DEF PassInv, OnBindMount, Copying, Bare, VolInv, EmptyOrMissing
  <2> QED BY <2>3, <2>4, <2>5, <2>6
<1> QED BY <1>1, <1>2, <1>3, <1>4, <1>5, <1>6

LEMMA ProbeMdHolds == ASSUME Undisturbed, MigrationInv, ProbeMd PROVE MigrationInv'
<1> USE DEF MigrationInv, ProbeMd
<1>1. MigrationTyped'
  BY MigrationAssumption DEF MigrationTyped, PC, Bytes0, Container, Version
<1>2. StoresBare'
  BY DEF MigrationTyped, StoresBare, Bare, PassInv, Copying
<1>3. PgInv'
  BY DEF MigrationTyped, PgInv, PassInv, Copying
<1>4. VolInv'
  BY DEF MigrationTyped, VolInv, PassInv, Copying
<1>5. MdInv'
  BY DEF MigrationTyped, MdInv, PassInv, Copying
<1>6. PassInv'
  BY DEF MigrationTyped, PgInv, VolInv, MdInv, StoresBare, Bare, PassInv, Copying, PgMoved, VolMoved, MdMoved
<1> QED BY <1>1, <1>2, <1>3, <1>4, <1>5, <1>6

LEMMA StopForCopyHolds == ASSUME Undisturbed, MigrationInv, StopForCopy PROVE MigrationInv'
<1> USE DEF MigrationInv, StopForCopy
<1>1. MigrationTyped'
  BY MigrationAssumption DEF MigrationTyped, PC, Bytes0, Container, Version
<1>2. StoresBare'
  BY DEF MigrationTyped, StoresBare, Bare, PassInv, Copying
<1>3. PgInv'
  BY DEF MigrationTyped, PgInv, PassInv, Copying
<1>4. VolInv'
  BY DEF MigrationTyped, VolInv, PassInv, Copying
<1>5. MdInv'
  BY DEF MigrationTyped, MdInv, PassInv, Copying
<1>6. PassInv'
  <2>1. PassInv /\ arm \in {"pg", "md"} /\ ~stamped /\ newest[arm] # Absent
        /\ UNCHANGED <<row, stamped, legacy, staging, target, new, newest, arm>>
    BY DEF PassInv, MigrationTyped
  <2>2. pc' \in {"drop", "copy"} => old'[arm] = "down"
    BY <2>1 DEF MigrationTyped
  <2>3. pc' = "drop" => arm = "pg" /\ target[arm] = newest[arm]
    BY <2>1 DEF PgInv, Complete, PassInv
  <2>4. pc' = "copy" => legacy[arm] = newest[arm] /\ new[arm] = "none"
                        /\ (arm = "pg" => ~Whole(target["pg"]))
    BY <2>1 DEF PgInv, MdInv, Complete, PassInv
  <2>5. pc' \in {"drop", "copy", "serving"}
    OBVIOUS
  <2> QED BY <2>1, <2>2, <2>3, <2>4, <2>5 DEF PassInv, Copying, PgMoved, VolMoved, MdMoved
<1> QED BY <1>1, <1>2, <1>3, <1>4, <1>5, <1>6

LEMMA CopyHolds == ASSUME Undisturbed, MigrationInv, Copy PROVE MigrationInv'
<1> USE DEF MigrationInv, Copy
<1>1. MigrationTyped'
  BY MigrationAssumption DEF MigrationTyped, PC, Bytes0, Container, Version
<1>2. StoresBare'
  BY DEF MigrationTyped, StoresBare, Bare, PassInv, Copying
<1>3. PgInv'
  BY DEF MigrationTyped, PgInv, PassInv, Copying
<1>4. VolInv'
  BY DEF MigrationTyped, VolInv, PassInv, Copying
<1>5. MdInv'
  BY DEF MigrationTyped, MdInv, PassInv, Copying
<1>6. PassInv'
  BY DEF MigrationTyped, PgInv, VolInv, MdInv, StoresBare, Bare, PassInv, Copying, PgMoved, VolMoved, MdMoved
<1> QED BY <1>1, <1>2, <1>3, <1>4, <1>5, <1>6

LEMMA WalkHolds == ASSUME Undisturbed, MigrationInv, Walk PROVE MigrationInv'
<1> USE DEF MigrationInv, Walk
<1>1. MigrationTyped'
  BY MigrationAssumption DEF MigrationTyped, PC, Bytes0, Container, Version
<1>2. StoresBare'
  BY DEF MigrationTyped, StoresBare, Bare, PassInv, Copying
<1>3. PgInv'
  BY DEF MigrationTyped, PgInv, PassInv, Copying
<1>4. VolInv'
  BY DEF MigrationTyped, VolInv, PassInv, Copying
<1>5. MdInv'
  BY DEF MigrationTyped, MdInv, PassInv, Copying
<1>6. PassInv'
  <2>1. PassInv /\ arm \in Arm /\ newest[arm] # Absent /\ legacy[arm] = newest[arm] /\ ~stamped
        /\ UNCHANGED <<row, stamped, legacy, target, old, new, newest, arm>>
    BY DEF PassInv, Copying, MigrationTyped
  <2>2. ~Writer(arm)
    BY <2>1 DEF Undisturbed, Writer, PassInv, Copying
  <2>3. pc' = "serving" \/ (pc' = "clear" /\ staging' = [staging EXCEPT ![arm] = legacy[arm]])
    BY <2>2
  <2>4. pc' = "clear" => staging'[arm] = newest[arm]
    BY <2>1, <2>3 DEF MigrationTyped
  <2> QED BY <2>1, <2>3, <2>4 DEF PassInv, Copying, PgMoved, VolMoved, MdMoved
<1> QED BY <1>1, <1>2, <1>3, <1>4, <1>5, <1>6

LEMMA ClearHolds == ASSUME Undisturbed, MigrationInv, Clear PROVE MigrationInv'
<1> USE DEF MigrationInv, Clear
<1>1. MigrationTyped'
  BY MigrationAssumption DEF MigrationTyped, PC, Bytes0, Container, Version
<1>2. StoresBare'
  BY DEF MigrationTyped, StoresBare, Bare, PassInv, Copying
<1>3. PgInv'
  <2>1. CASE arm = "pg"
    BY <2>1 DEF MigrationTyped, PgInv, PassInv, Copying, Whole, Version
  <2>2. CASE arm = "vol"
    BY <2>2 DEF MigrationTyped, PgInv, PassInv, Copying, Whole, Version
  <2>3. CASE arm = "md"
    BY <2>3 DEF MigrationTyped, PgInv, PassInv, Copying, Whole, Version
  <2> QED BY <2>1, <2>2, <2>3 DEF MigrationTyped
<1>4. VolInv'
  BY DEF MigrationTyped, VolInv, PassInv, Copying
<1>5. MdInv'
  BY DEF MigrationTyped, MdInv, PassInv, Copying
<1>6. PassInv'
  <2>1. PassInv /\ arm \in Arm /\ ~stamped /\ pc' \in {"promote", "serving"}
        /\ UNCHANGED <<row, stamped, legacy, staging, old, new, newest, arm>>
    BY DEF PassInv, MigrationTyped
  <2>2. arm = "pg" => ~Whole(target'["pg"])
    BY <2>1 DEF PassInv, MigrationTyped, Copying, Whole, Version
  <2>3. arm # "pg" => target'["pg"] = target["pg"]
    BY <2>1 DEF MigrationTyped
  <2> QED BY <2>1, <2>2, <2>3 DEF PassInv, Copying, PgMoved, VolMoved, MdMoved
<1> QED BY <1>1, <1>2, <1>3, <1>4, <1>5, <1>6

LEMMA PromoteHolds == ASSUME Undisturbed, MigrationInv, Promote PROVE MigrationInv'
<1> USE DEF MigrationInv, Promote
<1>1. MigrationTyped'
  BY MigrationAssumption DEF MigrationTyped, PC, Bytes0, Container, Version
<1>2. StoresBare'
  BY DEF MigrationTyped, StoresBare, Bare, PassInv, Copying
<1>3. PgInv'
  BY DEF MigrationTyped, PgInv, PassInv, Copying
<1>4. VolInv'
  BY DEF MigrationTyped, VolInv, PassInv, Copying
<1>5. MdInv'
  BY DEF MigrationTyped, MdInv, PassInv, Copying
<1>6. PassInv'
  BY DEF MigrationTyped, PgInv, VolInv, MdInv, StoresBare, Bare, PassInv, Copying, PgMoved, VolMoved, MdMoved
<1> QED BY <1>1, <1>2, <1>3, <1>4, <1>5, <1>6

LEMMA DropHolds == ASSUME Undisturbed, MigrationInv, Drop PROVE MigrationInv'
<1> USE DEF MigrationInv, Drop
<1>1. MigrationTyped'
  BY MigrationAssumption DEF MigrationTyped, PC, Bytes0, Container, Version
<1>2. StoresBare'
  BY DEF MigrationTyped, StoresBare, Bare, PassInv, Copying
<1>3. PgInv'
  <2>1. CASE arm = "pg"
    BY <2>1 DEF MigrationTyped, PgInv, PassInv, Copying, Whole, Version
  <2>2. CASE arm = "vol"
    BY <2>2 DEF MigrationTyped, PgInv, PassInv, Copying, Whole, Version
  <2>3. CASE arm = "md"
    BY <2>3 DEF MigrationTyped, PgInv, PassInv, Copying, Whole, Version
  <2> QED BY <2>1, <2>2, <2>3 DEF MigrationTyped
<1>4. VolInv'
  BY DEF MigrationTyped, VolInv, PassInv, Copying
<1>5. MdInv'
  BY DEF MigrationTyped, MdInv, PassInv, Copying
<1>6. PassInv'
  BY DEF MigrationTyped, PgInv, VolInv, MdInv, StoresBare, Bare, PassInv, Copying, PgMoved, VolMoved, MdMoved
<1> QED BY <1>1, <1>2, <1>3, <1>4, <1>5, <1>6

LEMMA RemoveFreshHolds == ASSUME Undisturbed, MigrationInv, RemoveFresh PROVE MigrationInv'
<1> USE DEF MigrationInv, RemoveFresh
<1>1. MigrationTyped'
  BY MigrationAssumption DEF MigrationTyped, PC, Bytes0, Container, Version
<1>2. StoresBare'
  BY DEF MigrationTyped, StoresBare, Bare, PassInv, Copying
<1>3. PgInv'
  BY DEF MigrationTyped, PgInv, PassInv, Copying
<1>4. VolInv'
  BY DEF MigrationTyped, VolInv, PassInv, Copying
<1>5. MdInv'
  BY DEF MigrationTyped, MdInv, PassInv, Copying
<1>6. PassInv'
  BY DEF MigrationTyped, PgInv, VolInv, MdInv, StoresBare, Bare, PassInv, Copying, PgMoved, VolMoved, MdMoved
<1> QED BY <1>1, <1>2, <1>3, <1>4, <1>5, <1>6

LEMMA RunHolds == ASSUME MigrationInv, Run PROVE MigrationInv'
<1>1. /\ arm \in Arm /\ newest[arm] # Absent /\ target[arm] = newest[arm]
      /\ arm # "pg" => new[arm] = "none"
      /\ arm # "vol" => old[arm] # "up"
  BY DEF Run, MigrationInv, MigrationTyped, PassInv
<1>2. /\ UNCHANGED <<arm, row, stamped, legacy, target, staging, old, newest>>
      /\ pc' \in {"ready", "settle", "serving"}
      /\ pc' = "ready" => arm = "pg"
  BY <1>1 DEF Run, Goto, Fail, locals, records, bytes, history, Arm
<1>3. PICK w \in Container :
        /\ new' = [new EXCEPT ![arm] = w]
        /\ w # new[arm] => NameFree
        /\ pc' \in {"ready", "settle"} => w # "none"
  <2>1. new[arm] \in Container /\ new = [new EXCEPT ![arm] = new[arm]]
    BY <1>1 DEF MigrationInv, MigrationTyped
  <2>2. CASE new' = new
    <3>1. CASE pc' = "serving"
      BY <2>1, <2>2, <3>1
    <3>2. CASE pc' # "serving"
      BY <1>1, <1>2, <2>1, <2>2, <3>2 DEF Run, Goto, Fail, Started, Container, MigrationInv, MigrationTyped
    <3> QED BY <3>1, <3>2
  <2>3. CASE new' # new
    BY <2>1, <2>3 DEF Run, Goto, Fail, Started, Container
  <2> QED BY <2>2, <2>3
<1>4. new \in [Arm -> Container] /\ new' \in [Arm -> Container] /\ new'[arm] = w
      /\ \A a \in Arm \ {arm} : new'[a] = new[a]
  BY <1>1, <1>3 DEF MigrationInv, MigrationTyped
<1>5. w # new[arm] /\ arm # "pg" => old[arm] = "none"
  BY <1>3 DEF NameFree
<1>6. MigrationTyped'
  BY <1>2, <1>4 DEF MigrationInv, MigrationTyped, PC
<1>7. StoresBare'
  BY <1>1, <1>2, <1>4 DEF MigrationInv, StoresBare, Bare
<1>8. PgInv'
  <2>1. CASE arm = "pg"
    <3>1. newest["pg"] \in Version
      BY <1>1, <2>1 DEF MigrationInv, MigrationTyped, Absent
    <3> QED BY <1>1, <1>2, <2>1, <3>1 DEF MigrationInv, PgInv, Whole
  <2>2. CASE arm # "pg"
    BY <1>2, <1>4, <2>2 DEF MigrationInv, PgInv, Arm
  <2> QED BY <2>1, <2>2
<1>9. VolInv'
  <2>1. CASE arm = "vol"
    BY <1>1, <1>2, <1>4, <1>5, <2>1 DEF MigrationInv, VolInv
  <2>2. CASE arm # "vol"
    BY <1>2, <1>4, <2>2 DEF MigrationInv, VolInv, Arm
  <2> QED BY <2>1, <2>2
<1>10. MdInv'
  <2>1. CASE arm = "md"
    BY <1>1, <1>2, <1>4, <1>5, <2>1 DEF MigrationInv, MdInv
  <2>2. CASE arm # "md"
    BY <1>2, <1>4, <2>2 DEF MigrationInv, MdInv, Arm
  <2> QED BY <2>1, <2>2
<1>11. VolMoved => VolMoved'
  <2>1. new["vol"] # "none" => new'["vol"] # "none"
    BY <1>1, <1>2, <1>3, <1>4 DEF Arm, VolMoved, MigrationInv, VolInv, NameFree, Run, Goto, Fail, Started
  <2> QED BY <1>2, <2>1 DEF VolMoved
<1>12. PassInv'
  BY <1>1, <1>2, <1>3, <1>4, <1>11 DEF MigrationInv, PassInv, PgMoved, MdMoved, Copying, Run
<1> QED BY <1>6, <1>7, <1>8, <1>9, <1>10, <1>12 DEF MigrationInv

LEMMA ReadyHolds == ASSUME Undisturbed, MigrationInv, Ready PROVE MigrationInv'
<1> USE DEF MigrationInv, Ready
<1>1. MigrationTyped'
  BY MigrationAssumption DEF MigrationTyped, PC, Bytes0, Container, Version
<1>2. StoresBare'
  BY DEF MigrationTyped, StoresBare, Bare, PassInv, Copying
<1>3. PgInv'
  BY DEF MigrationTyped, PgInv, PassInv, Copying
<1>4. VolInv'
  BY DEF MigrationTyped, VolInv, PassInv, Copying
<1>5. MdInv'
  BY DEF MigrationTyped, MdInv, PassInv, Copying
<1>6. PassInv'
  BY DEF MigrationTyped, PgInv, VolInv, MdInv, StoresBare, Bare, PassInv, Copying, PgMoved, VolMoved, MdMoved
<1> QED BY <1>1, <1>2, <1>3, <1>4, <1>5, <1>6

LEMMA SettleHolds == ASSUME Undisturbed, MigrationInv, Settle PROVE MigrationInv'
<1> USE DEF MigrationInv, Settle
<1>1. MigrationTyped'
  BY MigrationAssumption DEF MigrationTyped, PC, Bytes0, Container, Version
<1>2. StoresBare'
  BY DEF MigrationTyped, StoresBare, Bare, PassInv, Copying
<1>3. PgInv'
  BY DEF MigrationTyped, PgInv, PassInv, Copying
<1>4. VolInv'
  BY DEF MigrationTyped, VolInv, PassInv, Copying
<1>5. MdInv'
  BY DEF MigrationTyped, MdInv, PassInv, Copying
<1>6. PassInv'
  BY DEF MigrationTyped, PgInv, VolInv, MdInv, StoresBare, Bare, PassInv, Copying, PgMoved, VolMoved, MdMoved
<1> QED BY <1>1, <1>2, <1>3, <1>4, <1>5, <1>6

LEMMA StampHolds == ASSUME Undisturbed, MigrationInv, Stamp PROVE MigrationInv'
<1> USE DEF MigrationInv, Stamp
<1>1. MigrationTyped'
  BY MigrationAssumption DEF MigrationTyped, PC, Bytes0, Container, Version
<1>2. StoresBare'
  BY DEF MigrationTyped, StoresBare, Bare, PassInv, Copying
<1>3. PgInv'
  BY DEF MigrationTyped, PgInv, PassInv, Copying
<1>4. VolInv'
  BY DEF MigrationTyped, VolInv, PassInv, Copying
<1>5. MdInv'
  BY DEF MigrationTyped, MdInv, PassInv, Copying
<1>6. PassInv'
  BY DEF MigrationTyped, PgInv, VolInv, MdInv, StoresBare, Bare, PassInv, Copying, PgMoved, VolMoved, MdMoved
<1> QED BY <1>1, <1>2, <1>3, <1>4, <1>5, <1>6

LEMMA KillHolds == ASSUME Undisturbed, MigrationInv, Kill PROVE MigrationInv'
<1> USE DEF MigrationInv, Kill
<1>1. MigrationTyped'
  BY MigrationAssumption DEF MigrationTyped, PC, Bytes0, Container, Version
<1>2. StoresBare'
  BY DEF MigrationTyped, StoresBare, Bare, PassInv, Copying
<1>3. PgInv'
  BY DEF MigrationTyped, PgInv, PassInv, Copying
<1>4. VolInv'
  BY DEF MigrationTyped, VolInv, PassInv, Copying
<1>5. MdInv'
  BY DEF MigrationTyped, MdInv, PassInv, Copying
<1>6. PassInv'
  BY DEF MigrationTyped, PgInv, VolInv, MdInv, StoresBare, Bare, PassInv, Copying, PgMoved, VolMoved, MdMoved
<1> QED BY <1>1, <1>2, <1>3, <1>4, <1>5, <1>6

LEMMA BootHolds == ASSUME Undisturbed, MigrationInv, Boot PROVE MigrationInv'
<1> USE DEF MigrationInv, Boot
<1>1. MigrationTyped'
  BY MigrationAssumption DEF MigrationTyped, PC, Bytes0, Container, Version
<1>2. StoresBare'
  BY DEF MigrationTyped, StoresBare, Bare, PassInv, Copying
<1>3. PgInv'
  BY DEF MigrationTyped, PgInv, PassInv, Copying
<1>4. VolInv'
  BY DEF MigrationTyped, VolInv, PassInv, Copying
<1>5. MdInv'
  BY DEF MigrationTyped, MdInv, PassInv, Copying
<1>6. PassInv'
  BY DEF MigrationTyped, PgInv, VolInv, MdInv, StoresBare, Bare, PassInv, Copying, PgMoved, VolMoved, MdMoved
<1> QED BY <1>1, <1>2, <1>3, <1>4, <1>5, <1>6

LEMMA CalmHolds == ASSUME Undisturbed, MigrationInv, Calm PROVE MigrationInv'
<1> USE DEF MigrationInv, Calm
<1>1. MigrationTyped'
  BY MigrationAssumption DEF MigrationTyped, PC, Bytes0, Container, Version
<1>2. StoresBare'
  BY DEF MigrationTyped, StoresBare, Bare, PassInv, Copying
<1>3. PgInv'
  BY DEF MigrationTyped, PgInv, PassInv, Copying
<1>4. VolInv'
  BY DEF MigrationTyped, VolInv, PassInv, Copying
<1>5. MdInv'
  BY DEF MigrationTyped, MdInv, PassInv, Copying
<1>6. PassInv'
  BY DEF MigrationTyped, PgInv, VolInv, MdInv, StoresBare, Bare, PassInv, Copying, PgMoved, VolMoved, MdMoved
<1> QED BY <1>1, <1>2, <1>3, <1>4, <1>5, <1>6

HIDE DEF locals, records, bytes, containers, history, Goto, At, Fail, NextStore, NextArm, Arm,
         Absent, Partial, Torn

\* What happens between two boots.
LEMMA WakeOldHolds == ASSUME Undisturbed, MigrationInv, NEW a \in Arm, WakeOld(a) PROVE MigrationInv'
<1>1. /\ old' = [old EXCEPT ![a] = "up"] /\ old[a] = "down" /\ new[a] = "none" /\ pc = "serving"
      /\ a # "pg" /\ UNCHANGED <<arm, pc, row, stamped, legacy, target, staging, new, newest>>
  BY DEF WakeOld, records, bytes, history, Undisturbed
<1>2. old'[a] = "up" /\ \A b \in Arm \ {a} : old'[b] = old[b]
  BY <1>1 DEF MigrationInv, MigrationTyped
<1>3. MigrationTyped'
  BY <1>1 DEF MigrationInv, MigrationTyped, Container
<1>4. StoresBare'
  BY <1>1, <1>2 DEF MigrationInv, StoresBare, Bare
<1>5. PgInv' /\ VolInv' /\ MdInv'
  BY <1>1, <1>2 DEF MigrationInv, PgInv, VolInv, MdInv, Arm
<1>6. PassInv'
  BY <1>1 DEF MigrationInv, PassInv, PgMoved, VolMoved, MdMoved, Copying
<1> QED BY <1>3, <1>4, <1>5, <1>6 DEF MigrationInv

\* A write goes to the home of the store, and nothing but the serving daemon and its own
\* container see it.
LEMMA WriteHolds == ASSUME Undisturbed, MigrationInv, NEW a \in Arm, Write(a) PROVE MigrationInv'
<1>1. /\ newest[a] \in Version /\ newest[a] + 1 \in Version /\ newest[a] # Absent
      /\ newest' = [newest EXCEPT ![a] = newest[a] + 1]
      /\ UNCHANGED <<arm, pc, row, stamped, staging, old, new>>
  BY MigrationAssumption DEF Write, Version, records, containers, Absent
<1>2. /\ newest'[a] = newest[a] + 1 /\ newest'[a] # Absent
      /\ \A b \in Arm \ {a} : newest'[b] = newest[b]
  BY <1>1 DEF MigrationInv, MigrationTyped, Version, Absent
<1>3. CASE new[a] = "up" /\ target' = [target EXCEPT ![a] = newest[a] + 1] /\ UNCHANGED legacy
  <2>1. target'[a] = newest'[a] /\ \A b \in Arm \ {a} : target'[b] = target[b]
    BY <1>2, <1>3 DEF MigrationInv, MigrationTyped
  <2>2. MigrationTyped'
    BY <1>1, <1>3 DEF MigrationInv, MigrationTyped, Bytes0
  <2>3. StoresBare'
    BY <1>2, <1>1, <1>3, <2>1 DEF MigrationInv, StoresBare, Bare
  <2>4. a = "pg" => Whole(target["pg"]) /\ Whole(target'["pg"]) /\ old["pg"] # "up"
    BY <1>1, <1>2, <1>3, <2>1 DEF MigrationInv, PgInv, Whole
  <2>5. PgInv' /\ (PgMoved => PgMoved')
    BY <1>1, <1>2, <1>3, <2>1, <2>4 DEF MigrationInv, PgInv, PgMoved, Arm
  <2>6. VolInv' /\ MdInv' /\ (VolMoved => VolMoved') /\ (MdMoved => MdMoved')
    BY <1>1, <1>2, <1>3, <2>1 DEF MigrationInv, VolInv, MdInv, VolMoved, MdMoved, Arm
  <2>7. PassInv'
    <3>1. pc \in Copying => arm # a
      BY <1>3 DEF MigrationInv, PassInv
    <3>2. pc \in {"drop", "run"} => target'[arm] = newest'[arm] /\ newest'[arm] # Absent
      BY <1>1, <1>2, <1>3, <2>1 DEF MigrationInv, PassInv, MigrationTyped
    <3>3. \A b \in Arm : newest[b] # Absent => newest'[b] # Absent
      BY <1>2
    <3>4. pc \in Copying => legacy'[arm] = newest'[arm] /\ target'[arm] = target[arm]
                            /\ newest'[arm] = newest[arm]
      BY <1>2, <1>3, <2>1, <3>1 DEF MigrationInv, PassInv, MigrationTyped
    <3> QED BY <1>1, <1>3, <2>5, <2>6, <3>2, <3>3, <3>4 DEF MigrationInv, PassInv, MigrationTyped, Copying
  <2> QED BY <2>2, <2>3, <2>5, <2>6, <2>7 DEF MigrationInv
<1>4. CASE /\ new[a] # "up" /\ old[a] = "up" /\ (pc = "serving" \/ Writer(a))
           /\ legacy' = [legacy EXCEPT ![a] = newest[a] + 1] /\ UNCHANGED target
  <2>1. legacy'[a] = newest'[a] /\ \A b \in Arm \ {a} : legacy'[b] = legacy[b]
    BY <1>2, <1>4 DEF MigrationInv, MigrationTyped
  <2>2. MigrationTyped'
    BY <1>1, <1>4 DEF MigrationInv, MigrationTyped, Bytes0
  <2>3. StoresBare'
    BY <1>1, <1>2, <1>4, <2>1 DEF MigrationInv, StoresBare, Bare
  <2>4. PgInv' /\ VolInv' /\ MdInv' /\ (PgMoved => PgMoved')
    BY <1>1, <1>2, <1>4, <2>1 DEF MigrationInv, PgInv, VolInv, MdInv, PgMoved, Arm
  <2>5. (VolMoved => VolMoved') /\ (MdMoved => MdMoved')
    BY <1>1, <1>2, <1>4, <2>1 DEF MigrationInv, VolInv, MdInv, VolMoved, MdMoved, Arm, Absent
  <2>6. PassInv'
    <3>1. pc \in Copying \cup {"drop", "run"} => arm # a
      BY <1>4 DEF MigrationInv, PassInv, Writer, Undisturbed, Copying
    <3>2. pc \in Copying \cup {"drop", "run"} => legacy'[arm] = legacy[arm] /\ newest'[arm] = newest[arm]
      BY <1>2, <2>1, <3>1 DEF MigrationInv, MigrationTyped
    <3>3. \A b \in Arm : newest[b] # Absent => newest'[b] # Absent
      BY <1>2
    <3> QED BY <1>1, <1>4, <2>4, <2>5, <3>2, <3>3 DEF MigrationInv, PassInv, MigrationTyped, Copying
  <2> QED BY <2>2, <2>3, <2>4, <2>6 DEF MigrationInv
<1> QED BY <1>3, <1>4 DEF Write

LEMMA MigrationInitHolds == Init => MigrationInv
<1> SUFFICES ASSUME Init PROVE MigrationInv
  OBVIOUS
<1> DEFINE Begun(has, ran, bare, half) ==
          /\ legacy = [a \in Arm |-> IF a \in bare THEN EmptyTree ELSE IF a \in has THEN 2 ELSE Absent]
          /\ target = [a \in Arm |-> IF a \in half THEN Partial ELSE Absent]
          /\ old = [a \in Arm |-> IF a \in ran THEN "up" ELSE IF a \in has THEN "down" ELSE "none"]
          /\ wanted = [a \in Arm |-> a \in ran]
<1>1. PICK has \in Present : \E ran \in SUBSET has : \E bare \in SUBSET (has \cap {"vol"}) :
         \E half \in {{}, has} : Begun(has, ran, bare, half)
  BY Zenon DEF Init
<1>11. PICK ran \in SUBSET has : \E bare \in SUBSET (has \cap {"vol"}) :
         \E half \in {{}, has} : Begun(has, ran, bare, half)
  BY <1>1
<1>2. PICK bare \in SUBSET (has \cap {"vol"}), half \in {{}, has} : Begun(has, ran, bare, half)
  BY <1>11
<1>3. /\ arm = "pg" /\ pc = "probe" /\ row = "legacy" /\ stamped = FALSE /\ newest = legacy
      /\ staging = [a \in Arm |-> Absent] /\ new = [a \in Arm |-> "none"]
  BY DEF Init
<1>4. 1 \in Version /\ 2 \in Version /\ 0 \notin Version /\ -1 \notin Version
  BY MigrationAssumption DEF Version
<1>5. \A a \in Arm : /\ legacy[a] \in {Absent} \cup Version /\ target[a] \in {Absent, Partial}
                     /\ old[a] \in Container
                     /\ legacy[a] = Absent <=> a \notin has
  BY <1>2, <1>4 DEF EmptyTree, Absent, Partial, Container
<1>6. MigrationTyped
  BY <1>2, <1>3, <1>4, <1>5 DEF MigrationTyped, Arm, PC, Bytes0, Container
<1>7. StoresBare
  BY <1>2, <1>3, <1>5 DEF StoresBare, Bare
<1>8. \A a \in Arm : ~Whole(target[a]) /\ (legacy[a] # Absent => old[a] # "none")
  BY <1>2, <1>4, <1>5 DEF Whole, Absent, Partial, Torn
<1>9. PgInv /\ VolInv /\ MdInv
  BY <1>3, <1>8 DEF PgInv, VolInv, MdInv, Arm
<1>10. PassInv
  BY <1>3 DEF PassInv, Copying
<1> QED BY <1>6, <1>7, <1>9, <1>10 DEF MigrationInv

THEOREM MigrationInvariant == ASSUME Undisturbed PROVE Spec => []MigrationInv
<1>1. MigrationInv /\ [Next]_vars => MigrationInv'
  <2> SUFFICES ASSUME MigrationInv, [Next]_vars PROVE MigrationInv'
    OBVIOUS
  <2>1. CASE UNCHANGED vars
    BY <2>1 DEF vars, locals, records, bytes, containers, history, MigrationInv, MigrationTyped,
                StoresBare, Bare, PgInv, VolInv, MdInv, PassInv, PgMoved, VolMoved, MdMoved, Copying
  <2>2. CASE Pass
    BY <2>2, ProbePgHolds, ProbeVolHolds, ProbeMdHolds, StopForCopyHolds, CopyHolds, WalkHolds,
       ClearHolds, PromoteHolds, DropHolds, RemoveFreshHolds, RunHolds, ReadyHolds, SettleHolds,
       StampHolds DEF Pass
  <2>3. CASE Kill \/ Boot \/ Calm
    BY <2>3, KillHolds, BootHolds, CalmHolds
  <2>4. ASSUME NEW a \in Arm, WakeOld(a) \/ Write(a) PROVE MigrationInv'
    BY <2>4, WakeOldHolds, WriteHolds
  <2> QED BY <2>1, <2>2, <2>3, <2>4 DEF Next
<1> QED BY <1>1, MigrationInitHolds, PTL DEF Spec

\* The last version a store wrote is whole in one of its two homes at every moment, through
\* kills between any two steps and failures of any docker call, and no container ever runs on
\* a partial or a torn copy.
THEOREM MigrationTheorem == ASSUME Undisturbed PROVE Spec => []BytesAreSafe
<1>1. MigrationInv => BytesAreSafe
  <2> SUFFICES ASSUME MigrationInv, NEW a \in Arm
               PROVE  /\ newest[a] \in {legacy[a], target[a]}
                      /\ new[a] = "up" => target[a] \in Version
                      /\ old[a] = "up" => legacy[a] \in Version
    BY DEF BytesAreSafe, NothingLost, RunsOnWhole
  <2>1. CASE newest[a] = Absent
    BY <2>1 DEF MigrationInv, StoresBare, Bare
  <2>2. CASE newest[a] # Absent
    <3>1. newest[a] \in Version
      BY <2>2 DEF MigrationInv, MigrationTyped
    <3>2. CASE a = "pg"
      BY <2>2, <3>1, <3>2 DEF MigrationInv, PgInv
    <3>3. CASE a = "vol"
      BY <2>2, <3>1, <3>3 DEF MigrationInv, VolInv
    <3>4. CASE a = "md"
      <4>1. new["md"] # "none" => target["md"] = newest["md"]
        BY <2>2, <3>4 DEF MigrationInv, MdInv
      <4> QED BY <2>2, <3>1, <3>4, <4>1 DEF MigrationInv, MdInv
    <3> QED BY <3>2, <3>3, <3>4 DEF Arm
  <2> QED BY <2>1, <2>2
<1> QED BY <1>1, MigrationInvariant, PTL

-------------------------------------------------------------------------------
\* Which copy counts, store by store, and that it holds what was written last.
HomeTyped ==
    /\ \A a \in Arm : Home(a) \in {"legacy", "target"}
    /\ [a \in Arm |-> Bytes(a)] = newest

LEMMA HomeHolds == ASSUME MigrationInv PROVE HomeTyped
<1>1. Home("pg") = "target" <=> newest["pg"] # Absent /\ Whole(target["pg"])
  BY DEF Home
<1>2. Home("vol") = "target" <=> newest["vol"] # Absent /\ (new["vol"] # "none" \/ legacy["vol"] = Absent)
  BY DEF Home
<1>3. Home("md") = "target" <=> newest["md"] # Absent /\ legacy["md"] = Absent
  BY DEF Home
<1>4. \A a \in Arm : Home(a) \in {"legacy", "target"}
  BY DEF Home
<1>5. Bytes("pg") = newest["pg"]
  BY <1>1, <1>4 DEF Bytes, MigrationInv, PgInv, StoresBare, Bare, Arm
<1>6. Bytes("vol") = newest["vol"]
  BY <1>2, <1>4 DEF Bytes, MigrationInv, VolInv, StoresBare, Bare, Arm
<1>7. Bytes("md") = newest["md"]
  BY <1>3, <1>4 DEF Bytes, MigrationInv, MdInv, StoresBare, Bare, Arm
<1>8. \A a \in Arm : Bytes(a) = newest[a]
  BY <1>5, <1>6, <1>7 DEF Arm
<1>9. newest = [a \in Arm |-> newest[a]]
  BY DEF MigrationInv, MigrationTyped
<1> QED BY <1>4, <1>8, <1>9 DEF HomeTyped


\* A step of the pass moves the store it is at, or none, and never back.
LEMMA PassMoves ==
    ASSUME Undisturbed, MigrationInv, Pass, ~Stamp
    PROVE  /\ UNCHANGED <<newest, stamped>> /\ ~stamped
           /\ \A a \in Arm : /\ Home(a) = "target" => Home(a)' = "target"
                             /\ a # arm => Home(a)' = Home(a)
<1> USE DEF locals, records, bytes, containers, history
<1>1. newest' = newest /\ stamped' = stamped
  BY DEF Pass, ProbePg, ProbeVol, ProbeMd, StopForCopy, Copy, Walk, Clear, Promote, Drop,
         RemoveFresh, Run, Ready, Settle
<1>2. ~stamped
  BY DEF Pass, ProbePg, ProbeVol, ProbeMd, StopForCopy, Copy, Walk, Clear, Promote, Drop,
         RemoveFresh, Run, Ready, Settle, MigrationInv, PassInv, At
<1>3. CASE ~Clear /\ ~Promote /\ ~Drop /\ ~RemoveFresh /\ ~Run /\ ~Settle
  <2>1. UNCHANGED <<legacy, target, new>>
    BY <1>3 DEF Pass, ProbePg, ProbeVol, ProbeMd, StopForCopy, Copy, Walk, Ready
  <2> QED BY <1>1, <1>2, <2>1 DEF Home, Arm
<1>4. CASE Clear
  <2>1. arm # "pg" => target'["pg"] = target["pg"]
    BY <1>4 DEF Clear, Fail, Goto, MigrationInv, MigrationTyped, Arm
  <2>2. arm = "pg" => ~Whole(target["pg"])
    BY <1>4 DEF Clear, MigrationInv, PassInv, Copying
  <2>3. UNCHANGED <<legacy, new>>
    BY <1>4 DEF Clear
  <2> QED BY <1>1, <1>2, <2>1, <2>2, <2>3 DEF Home, Arm
<1>5. CASE Promote
  <2>1. UNCHANGED <<legacy, new>> /\ (arm # "pg" => target'["pg"] = target["pg"])
    BY <1>5 DEF Promote, Fail, Goto, MigrationInv, MigrationTyped, Arm
  <2>2. arm = "pg" => ~Whole(target["pg"])
    BY <1>5 DEF Promote, MigrationInv, PassInv, Copying
  <2> QED BY <1>1, <1>2, <2>1, <2>2 DEF Home, Arm
<1>6. CASE Drop
  <2>1. /\ UNCHANGED <<target, new>> /\ legacy'["vol"] = legacy["vol"]
        /\ legacy'["md"] = legacy["md"] \/ (arm = "md" /\ legacy'["md"] = Absent)
    BY <1>6 DEF Drop, MigrationInv, MigrationTyped, Arm
  <2> QED BY <1>1, <1>2, <2>1 DEF Home, Arm
<1>7. CASE RemoveFresh
  <2>1. UNCHANGED <<target, legacy>> /\ new'["vol"] = new["vol"]
    BY <1>7 DEF RemoveFresh, MigrationInv, MigrationTyped, Arm
  <2> QED BY <1>1, <1>2, <2>1 DEF Home, Arm
<1>8. CASE Run
  <2>1. UNCHANGED <<target, legacy>> /\ (arm # "vol" => new'["vol"] = new["vol"])
    BY <1>8 DEF Run, MigrationInv, MigrationTyped, Arm
  <2>2. arm = "vol" => new["vol"] = "none" /\ legacy["vol"] # Absent
    BY <1>8 DEF Run, MigrationInv, PassInv, VolInv
  <2> QED BY <1>1, <1>2, <2>1, <2>2 DEF Home, Arm
<1>9. CASE Settle
  <2>1. /\ UNCHANGED target /\ new'["vol"] = new["vol"] /\ legacy'["md"] = legacy["md"]
        /\ arm # "vol" => legacy'["vol"] = legacy["vol"]
    BY <1>9 DEF Settle, MigrationInv, MigrationTyped, Arm
  <2>2. arm = "vol" => new["vol"] # "none"
    BY <1>9 DEF Settle, MigrationInv, PassInv
  <2> QED BY <1>1, <1>2, <2>1, <2>2 DEF Home, Arm
<1> QED BY <1>3, <1>4, <1>5, <1>6, <1>7, <1>8, <1>9

\* What a store holds when it is written to stays where it is.
LEMMA WriteStays ==
    ASSUME MigrationInv, NEW a \in Arm, Write(a)
    PROVE  \A b \in Arm : Home(b)' = Home(b)
<1>1. /\ newest[a] \in Version /\ newest[a] # Absent /\ newest'[a] # Absent
      /\ newest' = [newest EXCEPT ![a] = newest[a] + 1] /\ UNCHANGED <<old, new>>
      /\ newest[a] + 1 \in Version /\ newest[a] + 1 # Absent
      /\ \A b \in Arm \ {a} : newest'[b] = newest[b]
  BY MigrationAssumption DEF Write, Version, containers, Absent, MigrationInv, MigrationTyped
<1>2. CASE new[a] = "up" /\ target' = [target EXCEPT ![a] = newest[a] + 1] /\ UNCHANGED legacy
  <2>1. a = "pg" => Whole(target["pg"]) /\ Whole(target'["pg"])
    BY <1>1, <1>2 DEF MigrationInv, MigrationTyped, PgInv, Whole
  <2>2. a # "pg" => target'["pg"] = target["pg"]
    BY <1>2 DEF MigrationInv, MigrationTyped
  <2> QED BY <1>1, <1>2, <2>1, <2>2 DEF Home, Arm
<1>3. CASE new[a] # "up" /\ old[a] = "up" /\ legacy' = [legacy EXCEPT ![a] = newest[a] + 1] /\ UNCHANGED target
  <2>1. legacy[a] # Absent \/ a = "pg"
    BY <1>1, <1>3 DEF MigrationInv, VolInv, MdInv, Arm
  <2>2. legacy'[a] # Absent /\ \A b \in Arm \ {a} : legacy'[b] = legacy[b]
    BY <1>1, <1>3 DEF MigrationInv, MigrationTyped
  <2> QED BY <1>1, <1>3, <2>1, <2>2 DEF Home, Arm
<1> QED BY <1>2, <1>3 DEF Write

\* The bytes of every store are at one home, change only by a write, and move once, without
\* changing; and a branch is stamped only when all of them have moved.
THEOREM MigrationRefinement == ASSUME Undisturbed PROVE Spec => ImplementsDataMove
<1> DEFINE homes == [a \in Arm |-> Home(a)]
           values == [a \in Arm |-> Bytes(a)]
<1>1. MigrationInv => HomeTyped
  BY HomeHolds
<1>2. Init => Promise!Init
  <2> SUFFICES ASSUME Init PROVE Promise!Init
    OBVIOUS
  <2>1. MigrationInv /\ HomeTyped
    BY MigrationInitHolds, HomeHolds
  <2>2. values \in [Arm -> {0} \cup Version]
    BY <2>1 DEF HomeTyped, MigrationInv, MigrationTyped, Absent
  <2>3. \A a \in Arm : Home(a) = "legacy"
    <3>1. /\ \A a \in Arm : target[a] \in {Absent, Partial} /\ new[a] = "none"
          /\ newest = legacy
      BY DEF Init
    <3>2. \A a \in Arm : ~Whole(target[a])
      BY <3>1 DEF Whole, Version, Absent, Partial, Torn
    <3> QED BY <3>1, <3>2 DEF Home, Arm
  <2>4. homes = [a \in Arm |-> "legacy"] /\ stamped = FALSE
    BY <2>3 DEF Init
  <2> QED BY <2>2, <2>4 DEF Promise!Init
<1>3. MigrationInv /\ HomeTyped /\ HomeTyped' /\ [Next]_vars => [Promise!Next]_(Promise!vars)
  <2> SUFFICES ASSUME MigrationInv, HomeTyped, HomeTyped', [Next]_vars
               PROVE  [Promise!Next]_(Promise!vars)
    OBVIOUS
  <2>1. values = newest /\ values' = newest'
    BY DEF HomeTyped
  <2>2. homes \in [Arm -> {"legacy", "target"}] /\ homes' \in [Arm -> {"legacy", "target"}]
    BY DEF HomeTyped
  <2>3. CASE Pass /\ ~Stamp
    <3>1. PICK b \in Arm :
            /\ UNCHANGED <<newest, stamped>> /\ ~stamped
            /\ \A a \in Arm : /\ Home(a) = "target" => Home(a)' = "target"
                              /\ a # b => Home(a)' = Home(a)
      BY <2>3, PassMoves DEF MigrationInv, MigrationTyped
    <3>2. CASE Home(b)' = Home(b)
      <4>1. \A a \in Arm : Home(a)' = Home(a)
        BY <3>1, <3>2
      <4>2. homes' = homes
        BY <4>1
      <4> QED BY <2>1, <3>1, <4>2 DEF Promise!vars
    <3>3. CASE Home(b)' # Home(b)
      <4>1. Home(b) = "legacy" /\ Home(b)' = "target"
        BY <3>1, <3>3 DEF HomeTyped
      <4>2. homes[b] = "legacy" /\ homes' = [homes EXCEPT ![b] = "target"]
        BY <2>2, <3>1, <4>1
      <4>3. Promise!Move(b)
        BY <2>1, <3>1, <4>2 DEF Promise!Move
      <4> QED BY <3>1, <4>3 DEF Promise!Next
    <3> QED BY <3>2, <3>3
  <2>4. CASE Stamp
    <3>1. ~stamped /\ stamped' /\ UNCHANGED <<newest, legacy, target, new>>
      BY <2>4 DEF Stamp, MigrationInv, PassInv, bytes, containers, history
    <3>2. homes' = homes
      BY <3>1 DEF Home
    <3>3. \A a \in Arm : newest[a] # Absent => Home(a) = "target"
      BY <2>4 DEF Stamp, MigrationInv, PassInv, PgMoved, VolMoved, MdMoved, Home, Arm
    <3>4. Promise!Seal
      BY <2>1, <3>1, <3>2, <3>3, <2>4 DEF Promise!Seal, Absent, Stamp
    <3> QED BY <3>4 DEF Promise!Next
  <2>5. ASSUME NEW a \in Arm, Write(a) PROVE Promise!Next
    <3>1. homes' = homes /\ stamped' = stamped
      BY <2>5, WriteStays DEF Write, records
    <3>2. /\ newest[a] \in Version /\ newest[a] + 1 \in Version /\ newest[a] # 0
          /\ newest' = [newest EXCEPT ![a] = newest[a] + 1] /\ newest[a] + 1 > newest[a]
      BY <2>5, MigrationAssumption DEF Write, Version
    <3>3. Promise!Write(a)
      BY <2>1, <3>1, <3>2 DEF Promise!Write
    <3> QED BY <3>3 DEF Promise!Next
  <2>6. ASSUME Kill \/ Boot \/ Calm \/ (\E a \in Arm : WakeOld(a)) \/ UNCHANGED vars
        PROVE  UNCHANGED Promise!vars
    <3>1. UNCHANGED <<newest, legacy, target, new, stamped>>
      BY <2>6 DEF Kill, Boot, Calm, WakeOld, vars, records, bytes, containers, history
    <3>2. homes' = homes
      BY <3>1 DEF Home
    <3> QED BY <2>1, <3>1, <3>2 DEF Promise!vars
  <2> QED BY <2>3, <2>4, <2>5, <2>6 DEF Next
<1> QED BY <1>1, <1>2, <1>3, MigrationInvariant, PTL DEF Spec, ImplementsDataMove, Promise!Spec

-------------------------------------------------------------------------------
\* The lanes.

\* The passes a slot can be in.
Works == [want : [Db -> Ports], todo : SUBSET Db, at : Db \cup {None}, port : Ports,
          tries : 0..Attempts]

\* Branches that were made: none of them is made a second time.
Known == ready \cup gone

\* What a row of a service implies of its branch, and a port that is being used of its row.
RowsOfBranches ==
    /\ ready \cap gone = {}
    /\ \A d \in Db : d \in carried \/ lane[d] # None => On[d] \in ready
    /\ \A d \in Db : made[d] # None => On[d] \notin Known
    /\ \A a \in App : deploys[a] # NoDeploy => On[a] \in ready /\ deploys[a].port # None

\* One pass at a time, which opens listeners that are not there, for branches that were made.
OnePass ==
    /\ \A s, t \in Slot : work[s] # Idle /\ work[t] # Idle => s = t
    /\ \A s \in Slot : work[s].at # None =>
          /\ work[s].port # None /\ lanes[work[s].at] = None
          /\ On[work[s].at] \in Known /\ work[s].at \notin work[s].todo
    /\ \A s \in Slot : \A d \in work[s].todo : work[s].want[d] # None /\ On[d] \in Known
    /\ \A d \in Db : lanes[d] # None => On[d] \in Known

\* Who holds a port, in a row or for a row to come.
Holds(x, p) ==
    \/ x \in Db /\ p \in {lane[x], made[x]}
    \/ x \in App /\ p \in {pub[x], deploys[x].port}

OneHolds == \A p \in Port : \A x, y \in Db \cup App : Holds(x, p) /\ Holds(y, p) => x = y

\* What no row names yet is reserved.
Reserved ==
    /\ \A d \in Db : made[d] # None => held[made[d]] = On[d]
    /\ \A a \in App : deploys[a] # NoDeploy /\ pub[a] # deploys[a].port => held[deploys[a].port] = On[a]

\* A listener, and what the pass is about to open, is where the row of a branch that is there
\* says.
Followed ==
    /\ \A d \in Db : lanes[d] # None /\ On[d] \in ready => lane[d] = lanes[d]
    /\ \A s \in Slot : \A d \in Db :
          /\ work[s].at = d /\ On[d] \in ready => lane[d] = work[s].port
          /\ d \in work[s].todo /\ On[d] \in ready => lane[d] = work[s].want[d]

LanesInv ==
    /\ LanesTypeOK /\ RowsOfBranches /\ OnePass /\ NoListenerLost
    /\ ~moved => OneHolds /\ Reserved /\ Followed

-------------------------------------------------------------------------------
\* The lowest of some ports is one of them.
LEMMA LowestIsThere ==
    ASSUME NEW S \in SUBSET Port, S # {}
    PROVE  Lowest(S) \in S
<1>1. \E p \in S : \A q \in S : <<q, p>> \notin OpToRel(<, Nat)
  BY LanesAssumption, NatLessThanWellFounded, WFMin, Zenon
<1>2. PICK p \in S : \A q \in S : <<q, p>> \notin OpToRel(<, Nat)
  BY <1>1
<1>3. p \in Nat /\ S \subseteq Nat
  BY LanesAssumption
<1>4. \A q \in S : p <= q
  <2> TAKE q \in S
  <2>1. ~ (q < p)
    BY <1>2, <1>3 DEF OpToRel
  <2> QED BY <2>1, <1>3
<1> QED BY <1>4 DEF Lowest

\* No reservation, row or call of a service holds a free port.
LEMMA FreeIsFree ==
    ASSUME LanesTypeOK, RowsOfBranches, Reserved, NEW p \in FreePorts, NEW x \in Db \cup App
    PROVE  ~Holds(x, p)
<1>1. p \in Port /\ p \notin RowPorts /\ held[p] = None /\ p # None
  BY LanesAssumption DEF FreePorts, TakenLanePorts
<1>2. CASE x \in Db
  <2>1. lane[x] # p
    BY <1>1, <1>2 DEF RowPorts
  <2>2. made[x] # p
    <3> SUFFICES ASSUME made[x] = p PROVE FALSE
      OBVIOUS
    <3>1. held[p] = On[x]
      BY <1>1, <1>2 DEF Reserved
    <3>2. On[x] \in Branch
      BY <1>2, LanesAssumption
    <3> QED BY <3>1, <3>2, <1>1, LanesAssumption
  <2> QED BY <2>1, <2>2, <1>2, LanesAssumption DEF Holds
<1>3. CASE x \in App
  <2>1. pub[x] # p
    BY <1>1, <1>3 DEF RowPorts
  <2>2. deploys[x].port # p
    <3> SUFFICES ASSUME deploys[x].port = p PROVE FALSE
      OBVIOUS
    <3>1. deploys[x] # NoDeploy
      BY <1>1 DEF NoDeploy, Asked
    <3>2. held[p] = On[x]
      BY <3>1, <2>1, <1>3 DEF Reserved
    <3>3. On[x] \in Branch
      BY <1>3, LanesAssumption
    <3> QED BY <3>2, <3>3, <1>1, LanesAssumption
  <2> QED BY <2>1, <2>2, <1>3, LanesAssumption DEF Holds
<1> QED BY <1>2, <1>3

-------------------------------------------------------------------------------
\* The first state.
LEMMA LanesBegin == LanesInit => LanesInv
<1> SUFFICES ASSUME LanesInit PROVE LanesInv
  OBVIOUS
<1>1. LanesTypeOK
  <2>1. Idle \in Works
    BY LanesAssumption DEF Idle, Works, Ports
  <2>2. NoDeploy \in [port : Ports, up : BOOLEAN]
    BY DEF NoDeploy, Asked, Ports
  <2>3. work \in [Slot -> Works] /\ deploys \in [App -> [port : Ports, up : BOOLEAN]]
    BY <2>1, <2>2 DEF LanesInit
  <2>4. 0 \in 0..MaxOps /\ 1 \in Nat
    BY LanesAssumption
  <2> QED BY <2>3, <2>4 DEF LanesInit, LanesTypeOK, Works, Ports
<1>2. RowsOfBranches
  BY DEF LanesInit, RowsOfBranches, Known
<1>3. OnePass
  BY DEF LanesInit, OnePass, Idle
<1>4. NoListenerLost
  BY DEF LanesInit, NoListenerLost
<1>5. OneHolds
  BY LanesAssumption DEF LanesInit, OneHolds, Holds, NoDeploy, Asked
<1>6. Reserved
  BY DEF LanesInit, Reserved
<1>7. Followed
  BY LanesAssumption DEF LanesInit, Followed, Idle
<1> QED BY <1>1, <1>2, <1>3, <1>4, <1>5, <1>6, <1>7 DEF LanesInv

\* A port a pick gives out is one of the range.
LEMMA FreeArePorts == FreePorts \subseteq Port /\ (FreePorts # {} => Lowest(FreePorts) \in FreePorts)
<1>1. FreePorts \in SUBSET Port
  BY DEF FreePorts
<1> QED BY <1>1, LowestIsThere

LEMMA LanesTyped ==
    ASSUME LanesTypeOK, OnePass, LanesNext
    PROVE  LanesTypeOK'
<1> USE LanesAssumption, FreeArePorts
<1>1. ASSUME NEW b \in Branch, NEW D \in SUBSET Db, AllocLanes(b, D) PROVE LanesTypeOK'
  <2>1. (made \in [Db -> Ports])'
    <3>1. PICK f \in Allocations(D, FreePorts) :
             made' = [d \in Db |-> IF d \in D THEN f[d] ELSE made[d]]
      BY <1>1 DEF AllocLanes
    <3> QED BY <3>1 DEF LanesTypeOK, Ports, Allocations
  <2>2. (held \in [Port -> Branch \cup {None}])'
    BY <1>1 DEF AllocLanes, LanesTypeOK, Ports, Allocations
  <2>3. (ops \in 0..MaxOps)'
    BY <1>1 DEF AllocLanes, LanesTypeOK, Ports, Tick
  <2> QED
    BY ONLY <1>1, LanesTypeOK, <2>1, <2>2, <2>3
    DEF AllocLanes, LanesTypeOK, Works, rows, calls, router, Tick
<1>2. ASSUME NEW b \in Branch, ProvisionBranch(b) PROVE LanesTypeOK'
  <2>1. (ready \subseteq Branch)'
    BY <1>2 DEF ProvisionBranch, LanesTypeOK, Ports
  <2>2. (carried \subseteq Db)'
    BY <1>2 DEF ProvisionBranch, LanesTypeOK, Ports, DbsOf
  <2>3. (lane \in [Db -> Ports])'
    BY <1>2 DEF ProvisionBranch, LanesTypeOK, Ports
  <2>4. (held \in [Port -> Branch \cup {None}])'
    BY <1>2 DEF ProvisionBranch, LanesTypeOK, Ports, NotHeldBy
  <2>5. (made \in [Db -> Ports])'
    BY <1>2 DEF ProvisionBranch, LanesTypeOK, Ports, Unmade
  <2>6. (queued \in Nat)'
    BY <1>2 DEF ProvisionBranch, LanesTypeOK, Ports, Invalidate
  <2>7. (ops \in 0..MaxOps)'
    BY <1>2 DEF ProvisionBranch, LanesTypeOK, Ports, Tick
  <2> QED
    BY ONLY <1>2, LanesTypeOK, <2>1, <2>2, <2>3, <2>4, <2>5, <2>6, <2>7
    DEF ProvisionBranch, LanesTypeOK, Works, rows, calls, router, Tick
<1>3. ASSUME NEW b \in Branch, Rollback(b) PROVE LanesTypeOK'
  <2>1. (held \in [Port -> Branch \cup {None}])'
    BY <1>3 DEF Rollback, LanesTypeOK, Ports, NotHeldBy
  <2>2. (made \in [Db -> Ports])'
    BY <1>3 DEF Rollback, LanesTypeOK, Ports, Unmade
  <2>3. (gone \subseteq Branch)'
    BY <1>3 DEF Rollback, LanesTypeOK, Ports
  <2> QED
    BY ONLY <1>3, LanesTypeOK, <2>1, <2>2, <2>3
    DEF Rollback, LanesTypeOK, Works, rows, calls, router
<1>4. ASSUME NEW b \in Branch, Demolish(b) PROVE LanesTypeOK'
  <2>1. (ready \subseteq Branch)'
    BY <1>4 DEF Demolish, LanesTypeOK, Ports
  <2>2. (gone \subseteq Branch)'
    BY <1>4 DEF Demolish, LanesTypeOK, Ports
  <2>3. (carried \subseteq Db)'
    BY <1>4 DEF Demolish, LanesTypeOK, Ports, DbsOf
  <2>4. (lane \in [Db -> Ports])'
    BY <1>4 DEF Demolish, LanesTypeOK, Ports
  <2>5. (pub \in [App -> Ports])'
    BY <1>4 DEF Demolish, LanesTypeOK, Ports
  <2>6. (up \in [App -> Ports])'
    BY <1>4 DEF Demolish, LanesTypeOK, Ports
  <2>7. (held \in [Port -> Branch \cup {None}])'
    BY <1>4 DEF Demolish, LanesTypeOK, Ports, NotHeldBy
  <2>8. (queued \in Nat)'
    BY <1>4 DEF Demolish, LanesTypeOK, Ports, Invalidate
  <2>9. (ops \in 0..MaxOps)'
    BY <1>4 DEF Demolish, LanesTypeOK, Ports, Tick
  <2> QED
    BY ONLY <1>4, LanesTypeOK, <2>1, <2>2, <2>3, <2>4, <2>5, <2>6, <2>7, <2>8, <2>9
    DEF Demolish, LanesTypeOK, Works, rows, calls, router, Tick
<1>5. ASSUME NEW d \in Db, AddDb(d) PROVE LanesTypeOK'
  <2>1. (carried \subseteq Db)'
    BY <1>5 DEF AddDb, LanesTypeOK, Ports
  <2>2. (queued \in Nat)'
    BY <1>5 DEF AddDb, LanesTypeOK, Ports, Invalidate
  <2>3. (ops \in 0..MaxOps)'
    BY <1>5 DEF AddDb, LanesTypeOK, Ports, Tick
  <2> QED
    BY ONLY <1>5, LanesTypeOK, <2>1, <2>2, <2>3
    DEF AddDb, LanesTypeOK, Works, rows, calls, router, Tick
<1>6. ASSUME NEW d \in Db, RemoveDb(d) PROVE LanesTypeOK'
  <2>1. (carried \subseteq Db)'
    BY <1>6 DEF RemoveDb, LanesTypeOK, Ports
  <2>2. (queued \in Nat)'
    BY <1>6 DEF RemoveDb, LanesTypeOK, Ports, Invalidate
  <2>3. (ops \in 0..MaxOps)'
    BY <1>6 DEF RemoveDb, LanesTypeOK, Ports, Tick
  <2> QED
    BY ONLY <1>6, LanesTypeOK, <2>1, <2>2, <2>3
    DEF RemoveDb, LanesTypeOK, Works, rows, calls, router, Tick
<1>7. ASSUME NEW d \in Db, LaneFor(d) PROVE LanesTypeOK'
  <2>1. (lane \in [Db -> Ports])'
    BY <1>7 DEF LaneFor, LanesTypeOK, Ports, Record
  <2>2. (held \in [Port -> Branch \cup {None}])'
    BY <1>7 DEF LaneFor, LanesTypeOK, Ports, Record
  <2>3. (queued \in Nat)'
    BY <1>7 DEF LaneFor, LanesTypeOK, Ports, Invalidate
  <2> QED
    BY ONLY <1>7, LanesTypeOK, <2>1, <2>2, <2>3
    DEF LaneFor, LanesTypeOK, Works, rows, calls, router, Record, Invalidate
<1>8. ASSUME NEW d \in Db, NEW r \in Readers, StartListing(r, d) PROVE LanesTypeOK'
  <2>1. (listing \in [Readers -> Db \cup {None}])'
    BY <1>8 DEF StartListing, LanesTypeOK, Ports
  <2>2. (ops \in 0..MaxOps)'
    BY <1>8 DEF StartListing, LanesTypeOK, Ports, Tick
  <2> QED
    BY ONLY <1>8, LanesTypeOK, <2>1, <2>2
    DEF StartListing, LanesTypeOK, Works, rows, calls, router, Tick
<1>9. ASSUME NEW r \in Readers, EndListing(r) PROVE LanesTypeOK'
  <2>1. (listing \in [Readers -> Db \cup {None}])'
    BY <1>9 DEF EndListing, LanesTypeOK, Ports
  <2>2. (lane \in [Db -> Ports])'
    <3>1. CASE On[listing[r]] \in ready
      <4>1. Lowest(FreePorts) \in Port
        BY <1>9 DEF EndListing
      <4>2. lane' = [lane EXCEPT ![listing[r]] = Lowest(FreePorts)]
        BY ONLY <1>9, <3>1 DEF EndListing, Record
      <4> QED BY <4>1, <4>2 DEF LanesTypeOK, Ports
    <3>2. CASE On[listing[r]] \notin ready
      BY <1>9, <3>2 DEF EndListing, LanesTypeOK, Ports
    <3> QED BY <3>1, <3>2
  <2>3. (held \in [Port -> Branch \cup {None}])'
    BY <1>9 DEF EndListing, LanesTypeOK, Ports, Record
  <2>4. (moved \in BOOLEAN)'
    BY <1>9 DEF EndListing, LanesTypeOK, Ports
  <2>5. (queued \in Nat)'
    BY <1>9 DEF EndListing, LanesTypeOK, Ports, Invalidate
  <2> QED
    BY ONLY <1>9, LanesTypeOK, <2>1, <2>2, <2>3, <2>4, <2>5
    DEF EndListing, LanesTypeOK, Works, rows, calls, router, Record, Invalidate
<1>10. ASSUME NEW a \in App, StartContainer(a) PROVE LanesTypeOK'
  <2>1. (deploys \in [App -> [port : Ports, up : BOOLEAN]])'
    <3>1. deploys[a] \in [port : Ports, up : BOOLEAN]
      BY DEF LanesTypeOK
    <3>2. [deploys[a] EXCEPT !.up = TRUE] \in [port : Ports, up : BOOLEAN]
      BY <3>1
    <3>3. deploys' = [deploys EXCEPT ![a] = [deploys[a] EXCEPT !.up = TRUE]]
      BY <1>10 DEF StartContainer
    <3> QED BY <3>2, <3>3 DEF LanesTypeOK
  <2>2. (up \in [App -> Ports])'
    BY <1>10 DEF StartContainer, LanesTypeOK, Ports
  <2> QED
    BY ONLY <1>10, LanesTypeOK, <2>1, <2>2
    DEF StartContainer, LanesTypeOK, Works, rows, calls, router
<1>11. ASSUME NEW a \in App, DeployFails(a) PROVE LanesTypeOK'
  <2>1. (held \in [Port -> Branch \cup {None}])'
    BY <1>11 DEF DeployFails, LanesTypeOK, Ports
  <2>2. (deploys \in [App -> [port : Ports, up : BOOLEAN]])'
    BY <1>11 DEF DeployFails, LanesTypeOK, Ports, NoDeploy, Asked
  <2> QED
    BY ONLY <1>11, LanesTypeOK, <2>1, <2>2
    DEF DeployFails, LanesTypeOK, Works, rows, calls, router
<1>12. ASSUME NEW a \in App, DeployCommits(a) PROVE LanesTypeOK'
  <2>1. (pub \in [App -> Ports])'
    BY <1>12 DEF DeployCommits, LanesTypeOK, Ports
  <2>2. (held \in [Port -> Branch \cup {None}])'
    BY <1>12 DEF DeployCommits, LanesTypeOK, Ports
  <2>3. (deploys \in [App -> [port : Ports, up : BOOLEAN]])'
    BY <1>12 DEF DeployCommits, LanesTypeOK, Ports, NoDeploy, Asked
  <2>4. (queued \in Nat)'
    BY <1>12 DEF DeployCommits, LanesTypeOK, Ports, Invalidate
  <2> QED
    BY ONLY <1>12, LanesTypeOK, <2>1, <2>2, <2>3, <2>4
    DEF DeployCommits, LanesTypeOK, Works, rows, calls, router
<1>13. ASSUME NEW a \in App, Sleep(a) PROVE LanesTypeOK'
  <2>1. (up \in [App -> Ports])'
    BY <1>13 DEF Sleep, LanesTypeOK, Ports
  <2>2. (ops \in 0..MaxOps)'
    BY <1>13 DEF Sleep, LanesTypeOK, Ports, Tick
  <2> QED
    BY ONLY <1>13, LanesTypeOK, <2>1, <2>2
    DEF Sleep, LanesTypeOK, Works, rows, calls, router, Tick
<1>14. ASSUME NEW a \in App, Wake(a) PROVE LanesTypeOK'
  <2>1. (up \in [App -> Ports])'
    BY <1>14 DEF Wake, LanesTypeOK, Ports
  <2>2. (ops \in 0..MaxOps)'
    BY <1>14 DEF Wake, LanesTypeOK, Ports, Tick
  <2> QED
    BY ONLY <1>14, LanesTypeOK, <2>1, <2>2
    DEF Wake, LanesTypeOK, Works, rows, calls, router, Tick
<1>15. ASSUME NEW p \in Foreign, AlienTakes(p) PROVE LanesTypeOK'
  <2>1. (alien \subseteq Foreign)'
    BY <1>15 DEF AlienTakes, LanesTypeOK, Ports
  <2>2. (ops \in 0..MaxOps)'
    BY <1>15 DEF AlienTakes, LanesTypeOK, Ports, Tick
  <2> QED
    BY ONLY <1>15, LanesTypeOK, <2>1, <2>2
    DEF AlienTakes, LanesTypeOK, Works, rows, calls, router, Tick
<1>16. ASSUME NEW p \in Foreign, AlienLeaves(p) PROVE LanesTypeOK'
  <2>1. (alien \subseteq Foreign)'
    BY <1>16 DEF AlienLeaves, LanesTypeOK, Ports
  <2>2. (ops \in 0..MaxOps)'
    BY <1>16 DEF AlienLeaves, LanesTypeOK, Ports, Tick
  <2> QED
    BY ONLY <1>16, LanesTypeOK, <2>1, <2>2
    DEF AlienLeaves, LanesTypeOK, Works, rows, calls, router, Tick
<1>17. ASSUME NEW s \in Slot, Reconcile(s) PROVE LanesTypeOK'
  <2>1. (queued \in Nat)'
    BY <1>17 DEF Reconcile, LanesTypeOK, Ports, Begin
  <2>2. (sockets \subseteq [db : Db, port : Port])'
    BY <1>17 DEF Reconcile, LanesTypeOK, Ports, Begin
  <2>3. (lanes \in [Db -> Ports])'
    BY <1>17 DEF Reconcile, LanesTypeOK, Ports, Begin
  <2>4. (work \in [Slot -> Works])'
    BY <1>17 DEF Reconcile, LanesTypeOK, Ports, Begin, Works, Idle, WantedPerService
  <2> QED
    BY ONLY <1>17, LanesTypeOK, <2>1, <2>2, <2>3, <2>4
    DEF Reconcile, LanesTypeOK, Works, rows, calls, router, Begin
<1>18. ASSUME NEW s \in Slot, OpenPerService(s) PROVE LanesTypeOK'
  <2>1. (work \in [Slot -> Works])'
    <3>1. PICK d \in work[s].todo : work' = [work EXCEPT ![s].todo = @ \ {d},
                            ![s].at = IF lanes[d] = None THEN d ELSE None,
                            ![s].port = IF lanes[d] = None THEN work[s].want[d] ELSE None]
      BY <1>18 DEF OpenPerService
    <3>2. work[s] \in Works /\ d \in Db
      BY DEF LanesTypeOK, Works
    <3>3. work[s].want[d] \in Ports /\ work[s].todo \ {d} \in SUBSET Db
      BY <3>2 DEF Works
    <3>4. [work[s] EXCEPT !.todo = work[s].todo \ {d}, !.at = IF lanes[d] = None THEN d ELSE None,
              !.port = IF lanes[d] = None THEN work[s].want[d] ELSE None] \in Works
      BY <3>2, <3>3 DEF Works, Ports
    <3>5. work' = [work EXCEPT ![s] = [work[s] EXCEPT !.todo = work[s].todo \ {d},
              !.at = IF lanes[d] = None THEN d ELSE None,
              !.port = IF lanes[d] = None THEN work[s].want[d] ELSE None]]
      BY <3>1
    <3> QED BY <3>4, <3>5 DEF LanesTypeOK, Works
  <2> QED
    BY ONLY <1>18, LanesTypeOK, <2>1
    DEF OpenPerService, LanesTypeOK, Works, rows, calls, router
<1>19. ASSUME NEW s \in Slot, Listening(s) PROVE LanesTypeOK'
  <2>1. (sockets \subseteq [db : Db, port : Port])'
    BY <1>19 DEF Listening, LanesTypeOK, Ports, OnePass, Works
  <2>2. (lanes \in [Db -> Ports])'
    BY <1>19 DEF Listening, LanesTypeOK, Ports, Works
  <2>3. (work \in [Slot -> Works])'
    <3>1. work[s] \in Works
      BY DEF LanesTypeOK, Works
    <3>2. Done(s) \in Works
      <4>1. 0 \in 0..Attempts /\ None \in Ports
        BY DEF Ports
      <4> QED BY <3>1, <4>1 DEF Done, Works
    <3> QED BY <1>19, <3>2 DEF Listening, LanesTypeOK, Works
  <2> QED
    BY ONLY <1>19, LanesTypeOK, <2>1, <2>2, <2>3
    DEF Listening, LanesTypeOK, Works, rows, calls, router
<1>20. ASSUME NEW s \in Slot, ReallocLane(s) PROVE LanesTypeOK'
  <2>1. (lane \in [Db -> Ports])'
    BY <1>20 DEF ReallocLane, LanesTypeOK, Ports, Works
  <2>2. (held \in [Port -> Branch \cup {None}])'
    BY <1>20 DEF ReallocLane, LanesTypeOK, Ports, Works
  <2>3. (work \in [Slot -> Works])'
    BY <1>20 DEF ReallocLane, LanesTypeOK, Ports, Works
  <2> QED
    BY ONLY <1>20, LanesTypeOK, <2>1, <2>2, <2>3
    DEF ReallocLane, LanesTypeOK, Works, rows, calls, router
<1>21. ASSUME NEW s \in Slot, GiveUp(s) PROVE LanesTypeOK'
  <2>1. (lane \in [Db -> Ports])'
    <3>1. CASE FreePorts # {} /\ On[work[s].at] \in ready
      <4>1. Lowest(FreePorts) \in Port /\ lane' = [lane EXCEPT ![work[s].at] = Lowest(FreePorts)]
        BY <1>21, <3>1, Zenon DEF GiveUp
      <4> QED BY <4>1 DEF LanesTypeOK, Ports
    <3>2. CASE ~(FreePorts # {} /\ On[work[s].at] \in ready)
      BY <1>21, <3>2 DEF GiveUp, LanesTypeOK
    <3> QED BY <3>1, <3>2
  <2>2. (held \in [Port -> Branch \cup {None}])'
    BY <1>21 DEF GiveUp, LanesTypeOK, Ports, Works
  <2>3. (work \in [Slot -> Works])'
    BY <1>21 DEF GiveUp, LanesTypeOK, Ports, Works, Idle
  <2> QED
    BY ONLY <1>21, LanesTypeOK, <2>1, <2>2, <2>3
    DEF GiveUp, LanesTypeOK, Works, rows, calls, router
<1>22. ASSUME NEW s \in Slot, Reconciled(s) PROVE LanesTypeOK'
  <2>1. (work \in [Slot -> Works])'
    BY <1>22 DEF Reconciled, LanesTypeOK, Ports, Works, Idle
  <2> QED
    BY ONLY <1>22, LanesTypeOK, <2>1
    DEF Reconciled, LanesTypeOK, Works, rows, calls, router
<1>23. ASSUME Restart PROVE LanesTypeOK'
  <2>1. (held \in [Port -> Branch \cup {None}])'
    BY <1>23 DEF Restart, LanesTypeOK, Ports
  <2>2. (gone \subseteq Branch)'
    BY <1>23 DEF Restart, LanesTypeOK, Ports
  <2>3. (made \in [Db -> Ports])'
    BY <1>23 DEF Restart, LanesTypeOK, Ports
  <2>4. (deploys \in [App -> [port : Ports, up : BOOLEAN]])'
    BY <1>23 DEF Restart, LanesTypeOK, Ports, NoDeploy, Asked
  <2>5. (listing \in [Readers -> Db \cup {None}])'
    BY <1>23 DEF Restart, LanesTypeOK, Ports
  <2>6. (sockets \subseteq [db : Db, port : Port])'
    BY <1>23 DEF Restart, LanesTypeOK, Ports
  <2>7. (lanes \in [Db -> Ports])'
    BY <1>23 DEF Restart, LanesTypeOK, Ports
  <2>8. (work \in [Slot -> Works])'
    BY <1>23 DEF Restart, LanesTypeOK, Ports, Works, Idle
  <2>9. (queued \in Nat)'
    BY <1>23 DEF Restart, LanesTypeOK, Ports
  <2>10. (ops \in 0..MaxOps)'
    BY <1>23 DEF Restart, LanesTypeOK, Ports, Tick
  <2> QED
    BY ONLY <1>23, LanesTypeOK, <2>1, <2>2, <2>3, <2>4, <2>5, <2>6, <2>7, <2>8, <2>9, <2>10
    DEF Restart, LanesTypeOK, Works, rows, calls, router, Tick
<1>24. ASSUME NEW a \in App, StartDeploy(a) PROVE LanesTypeOK'
  <2> DEFINE unlaned == {d \in carried \cap DbsOf(On[a]) : lane[d] = None}
             port == IF pub[a] # None THEN pub[a] ELSE Lowest(FreePorts)
  <2>1. IsFiniteSet(unlaned)
    BY FS_Subset DEF LanesTypeOK
  <2>2. Cardinality(unlaned) \in Nat
    BY <2>1, FS_CardinalityType
  <2>3. port \in Port
    BY <1>24 DEF StartDeploy, LanesTypeOK, Ports
  <2>4. PICK f \in Allocations(unlaned, FreePorts \ {port}) :
           lane' = [d \in Db |-> IF d \in unlaned THEN f[d] ELSE lane[d]]
    BY <1>24 DEF StartDeploy
  <2>5. (lane \in [Db -> Ports])'
    BY <2>4 DEF LanesTypeOK, Allocations, Ports
  <2>6. deploys' = [deploys EXCEPT ![a] = Asked(port)]
    BY <1>24 DEF StartDeploy
  <2>7. (deploys \in [App -> [port : Ports, up : BOOLEAN]])'
    BY <2>3, <2>6 DEF Asked, LanesTypeOK, Ports
  <2>8. (held \in [Port -> Branch \cup {None}])'
    BY <1>24 DEF StartDeploy, LanesTypeOK
  <2>9. (queued \in Nat)'
    BY <1>24, <2>2 DEF StartDeploy, LanesTypeOK
  <2>10. (up \in [App -> Ports])'
    BY <1>24 DEF StartDeploy, LanesTypeOK, Ports
  <2>11. (ops \in 0..MaxOps)'
    BY <1>24 DEF StartDeploy, LanesTypeOK, Tick
  <2> QED
    BY ONLY <1>24, LanesTypeOK, <2>5, <2>7, <2>8, <2>9, <2>10, <2>11
    DEF StartDeploy, LanesTypeOK, router
<1>25. ASSUME Stopped PROVE LanesTypeOK'
  BY <1>25 DEF Stopped, lanesVars, rows, calls, router, LanesTypeOK
<1> QED
  BY <1>1, <1>2, <1>3, <1>4, <1>5, <1>6, <1>7, <1>8, <1>9, <1>10, <1>11, <1>12, <1>13, <1>14, <1>15, <1>16, <1>17, <1>18, <1>19, <1>20, <1>21, <1>22, <1>23, <1>24, <1>25 DEF LanesNext

-------------------------------------------------------------------------------
\* What rows and ports imply of branches.
LEMMA KnownStays == LanesNext => Known \subseteq Known'
<1> USE DEF Known, rows, calls, router
<1>1. ASSUME NEW b \in Branch, Demolish(b) \/ ProvisionBranch(b) \/ Rollback(b)
      PROVE  Known \subseteq Known'
  BY <1>1 DEF Demolish, ProvisionBranch, Rollback
<1>2. ASSUME Restart PROVE Known \subseteq Known'
  BY <1>2 DEF Restart
<1> QED
  BY <1>1, <1>2
  DEF LanesNext, AllocLanes, AddDb, RemoveDb, LaneFor, StartListing, EndListing, StartDeploy,
      StartContainer, DeployFails, DeployCommits, Sleep, Wake, AlienTakes, AlienLeaves, Reconcile,
      Begin, OpenPerService, Listening, ReallocLane, GiveUp, Reconciled, Stopped, lanesVars

LEMMA RowsKept ==
    ASSUME LanesTypeOK, RowsOfBranches, OnePass, LanesNext
    PROVE  RowsOfBranches'
<1> USE LanesAssumption, FreeArePorts DEF RowsOfBranches, Known
<1>0. ASSUME UNCHANGED <<ready, gone, carried, lane, made, deploys>> PROVE RowsOfBranches'
  BY ONLY RowsOfBranches, <1>0 DEF RowsOfBranches, Known, NoDeploy, Asked
<1>1. ASSUME NEW b \in Branch, NEW D \in SUBSET Db, AllocLanes(b, D) PROVE RowsOfBranches'
  BY <1>1 DEF AllocLanes, DbsOf, LanesTypeOK
<1>2. ASSUME NEW b \in Branch, ProvisionBranch(b) PROVE RowsOfBranches'
  BY <1>2 DEF ProvisionBranch, DbsOf, Unmade, calls, LanesTypeOK
<1>3. ASSUME NEW b \in Branch, Rollback(b) PROVE RowsOfBranches'
  BY <1>3 DEF Rollback, Making, DbsOf, Unmade, LanesTypeOK
<1>4. ASSUME NEW b \in Branch, Demolish(b) PROVE RowsOfBranches'
  BY <1>4 DEF Demolish, DbsOf, AppsOf, LanesTypeOK
<1>5. ASSUME NEW d \in Db, AddDb(d) \/ RemoveDb(d) PROVE RowsOfBranches'
  BY <1>5 DEF AddDb, RemoveDb, calls, LanesTypeOK
<1>6. ASSUME NEW d \in Db, LaneFor(d) PROVE RowsOfBranches'
  BY <1>6 DEF LaneFor, Record, calls, LanesTypeOK
<1>7. ASSUME NEW d \in Db, NEW r \in Readers, StartListing(r, d) PROVE RowsOfBranches'
  BY <1>7, <1>0 DEF StartListing, rows
<1>8. ASSUME NEW r \in Readers, EndListing(r) PROVE RowsOfBranches'
  <2>1. CASE On[listing[r]] \in ready
    <3>1. lane' = [lane EXCEPT ![listing[r]] = Lowest(FreePorts)]
      BY ONLY <1>8, <2>1 DEF EndListing, Record
    <3> QED BY <1>8, <2>1, <3>1 DEF EndListing, LanesTypeOK
  <2>2. CASE On[listing[r]] \notin ready
    BY <1>8, <2>2, <1>0 DEF EndListing
  <2> QED BY <2>1, <2>2
<1>9. ASSUME NEW a \in App, StartDeploy(a) PROVE RowsOfBranches'
  <2> DEFINE unlaned == {d \in carried \cap DbsOf(On[a]) : lane[d] = None}
             port == IF pub[a] # None THEN pub[a] ELSE Lowest(FreePorts)
  <2>1. port \in Port /\ On[a] \in ready
    BY <1>9 DEF StartDeploy, LanesTypeOK, Ports
  <2>2. PICK f \in Allocations(unlaned, FreePorts \ {port}) :
           lane' = [d \in Db |-> IF d \in unlaned THEN f[d] ELSE lane[d]]
    BY <1>9 DEF StartDeploy
  <2>3. deploys' = [deploys EXCEPT ![a] = Asked(port)]
    BY <1>9 DEF StartDeploy
  <2>4. \A d \in unlaned : On[d] \in ready
    BY DEF DbsOf
  <2>5. \A d \in Db : d \in carried \/ lane'[d] # None => On[d] \in ready
    BY <2>2, <2>4
  <2>6. \A c \in App : deploys'[c] # NoDeploy => On[c] \in ready /\ deploys'[c].port # None
    BY <2>1, <2>3 DEF LanesTypeOK, Asked
  <2> QED BY <1>9, <2>5, <2>6 DEF StartDeploy, NoDeploy, Asked
<1>10. ASSUME NEW a \in App, StartContainer(a) PROVE RowsOfBranches'
  <2>1. deploys[a].port # None /\ On[a] \in ready
    BY <1>10 DEF StartContainer
  <2>2. deploys'[a].port = deploys[a].port /\ \A c \in App \ {a} : deploys'[c] = deploys[c]
    BY <1>10 DEF StartContainer, LanesTypeOK
  <2> QED BY <1>10, <2>1, <2>2 DEF StartContainer, rows, NoDeploy, Asked
<1>11. ASSUME NEW a \in App, DeployFails(a) \/ DeployCommits(a) PROVE RowsOfBranches'
  <2>1. deploys' = [deploys EXCEPT ![a] = NoDeploy]
    BY <1>11 DEF DeployFails, DeployCommits
  <2> QED BY <1>11, <2>1 DEF DeployFails, DeployCommits, LanesTypeOK, NoDeploy, Asked
<1>13. ASSUME NEW a \in App, Sleep(a) \/ Wake(a) PROVE RowsOfBranches'
  BY <1>13, <1>0 DEF Sleep, Wake, rows, calls
<1>14. ASSUME NEW p \in Foreign, AlienTakes(p) \/ AlienLeaves(p) PROVE RowsOfBranches'
  BY <1>14, <1>0 DEF AlienTakes, AlienLeaves, rows, calls
<1>15. ASSUME NEW s \in Slot, Reconcile(s) \/ OpenPerService(s) \/ Listening(s) \/ Reconciled(s)
       PROVE  RowsOfBranches'
  BY <1>15, <1>0 DEF Reconcile, Begin, OpenPerService, Listening, Reconciled, rows, calls
<1>16. ASSUME NEW s \in Slot, ReallocLane(s) \/ GiveUp(s) PROVE RowsOfBranches'
  <2>1. work[s].at \in Db
    BY <1>16 DEF ReallocLane, GiveUp, LanesTypeOK
  <2>2. \/ On[work[s].at] \in ready /\ lane' = [lane EXCEPT ![work[s].at] = Lowest(FreePorts)]
        \/ lane' = lane
    BY <1>16 DEF ReallocLane, GiveUp
  <2>3. \A d \in Db : d \in carried \/ lane'[d] # None => On[d] \in ready
    BY <2>1, <2>2 DEF LanesTypeOK
  <2> QED BY ONLY <1>16, <2>3, RowsOfBranches
          DEF ReallocLane, GiveUp, calls, RowsOfBranches, Known, NoDeploy, Asked
<1>17. ASSUME Restart PROVE RowsOfBranches'
  <2>1. made' = [d \in Db |-> None] /\ deploys' = [a \in App |-> NoDeploy]
    BY <1>17 DEF Restart
  <2>2. \A b \in Branch : Making(b) => b \notin ready
    BY DEF Making
  <2> QED BY <1>17, <2>1, <2>2 DEF Restart, NoDeploy, Asked
<1>18. ASSUME Stopped PROVE RowsOfBranches'
  BY <1>18, <1>0 DEF Stopped, lanesVars, rows, calls
<1> QED
  BY <1>1, <1>2, <1>3, <1>4, <1>5, <1>6, <1>7, <1>8, <1>9, <1>10, <1>11, <1>13, <1>14,
     <1>15, <1>16, <1>17, <1>18 DEF LanesNext

-------------------------------------------------------------------------------
\* The router's passes.
LEMMA PassKept ==
    ASSUME LanesTypeOK, RowsOfBranches, OnePass, LanesNext
    PROVE  OnePass'
<1> USE LanesAssumption, FreeArePorts
<1>1. Known \subseteq Known'
  BY KnownStays
<1>2. ASSUME UNCHANGED <<work, lanes>> PROVE OnePass'
  BY ONLY <1>1, <1>2, OnePass DEF OnePass
<1>3. ASSUME NEW s \in Slot, Reconcile(s) PROVE OnePass'
  <2>1. \A t \in Slot : work[t] = Idle
    BY <1>3 DEF Reconcile
  <2>2. \A t \in Slot \ {s} : work'[t] = Idle
    BY <1>3, <2>1 DEF Reconcile, Begin, LanesTypeOK
  <2>3. /\ work'[s].at = None
        /\ work'[s].todo = {d \in Db : WantedPerService[d] # None}
        /\ work'[s].want = WantedPerService
    BY <1>3 DEF Reconcile, Begin, LanesTypeOK, Idle
  <2>4. \A d \in Db : WantedPerService[d] # None => On[d] \in Known
    BY DEF WantedPerService, RowsOfBranches, Known
  <2>5. Idle.at = None /\ Idle.todo = {}
    BY DEF Idle
  <2>6. \A d \in Db : lanes'[d] \in {lanes[d], None}
    BY <1>3 DEF Reconcile, Begin
  <2>7. \A t, u \in Slot : work'[t] # Idle /\ work'[u] # Idle => t = u
    BY <2>2
  <2>8. \A t \in Slot : work'[t].at = None
    BY <2>2, <2>3, <2>5
  <2>9. \A t \in Slot : \A d \in work'[t].todo : work'[t].want[d] # None /\ On[d] \in Known'
    BY <2>2, <2>3, <2>4, <2>5, <1>1
  <2>10. \A d \in Db : lanes'[d] # None => On[d] \in Known'
    BY <2>6, <1>1 DEF OnePass
  <2> QED BY <2>7, <2>8, <2>9, <2>10 DEF OnePass
<1>4. ASSUME NEW s \in Slot, OpenPerService(s) PROVE OnePass'
  <2>1. PICK d \in work[s].todo : work' = [work EXCEPT ![s].todo = @ \ {d},
                            ![s].at = IF lanes[d] = None THEN d ELSE None,
                            ![s].port = IF lanes[d] = None THEN work[s].want[d] ELSE None]
    BY <1>4 DEF OpenPerService
  <2>2. /\ work'[s].todo = work[s].todo \ {d}
        /\ work'[s].at = IF lanes[d] = None THEN d ELSE None
        /\ work'[s].port = IF lanes[d] = None THEN work[s].want[d] ELSE None
        /\ work'[s].want = work[s].want
        /\ \A t \in Slot \ {s} : work'[t] = work[t]
    BY <2>1 DEF LanesTypeOK
  <2>3. work[s] # Idle
    BY <2>1 DEF Idle
  <2>4. lanes' = lanes
    BY <1>4 DEF OpenPerService
  <2>5. d \in Db /\ work[s].want[d] # None /\ On[d] \in Known
    BY DEF OnePass, LanesTypeOK
  <2>6. \A t, u \in Slot : work'[t] # Idle /\ work'[u] # Idle => t = u
    BY <2>2, <2>3 DEF OnePass
  <2>7. \A t \in Slot : work'[t].at # None =>
          /\ work'[t].port # None /\ lanes'[work'[t].at] = None
          /\ On[work'[t].at] \in Known' /\ work'[t].at \notin work'[t].todo
    BY <2>2, <2>4, <2>5, <1>1 DEF OnePass
  <2>8. \A t \in Slot : \A e \in work'[t].todo : work'[t].want[e] # None /\ On[e] \in Known'
    BY <2>2, <1>1 DEF OnePass
  <2> QED BY <2>4, <2>6, <2>7, <2>8, <1>1 DEF OnePass
<1>5. ASSUME NEW s \in Slot, Listening(s) PROVE OnePass'
  <2>1. /\ work'[s].at = None /\ work'[s].todo = work[s].todo /\ work'[s].want = work[s].want
        /\ \A t \in Slot \ {s} : work'[t] = work[t]
    BY <1>5 DEF Listening, Done, LanesTypeOK
  <2>2. work[s].at # None /\ work[s] # Idle /\ work[s].at \in Db
    BY <1>5 DEF Listening, Idle, LanesTypeOK
  <2>3. \A t \in Slot \ {s} : work[t] = Idle
    BY <2>2 DEF OnePass
  <2>4. \A d \in Db : lanes'[d] # None => On[d] \in Known
    BY <1>5, <2>2 DEF Listening, OnePass, LanesTypeOK
  <2>5. \A t, u \in Slot : work'[t] # Idle /\ work'[u] # Idle => t = u
    BY <2>1, <2>3
  <2>6. \A t \in Slot : work'[t].at = None
    BY <2>1, <2>3 DEF Idle
  <2>7. \A t \in Slot : \A d \in work'[t].todo : work'[t].want[d] # None /\ On[d] \in Known'
    BY <2>1, <1>1 DEF OnePass
  <2> QED BY <2>4, <2>5, <2>6, <2>7, <1>1 DEF OnePass
<1>6. ASSUME NEW s \in Slot, ReallocLane(s) PROVE OnePass'
  <2>1. work' = [work EXCEPT ![s].port = Lowest(FreePorts), ![s].tries = @ + 1]
    BY <1>6 DEF ReallocLane
  <2>2. /\ work'[s].at = work[s].at /\ work'[s].todo = work[s].todo /\ work'[s].want = work[s].want
        /\ work'[s].port = Lowest(FreePorts)
        /\ \A t \in Slot \ {s} : work'[t] = work[t]
    BY <2>1 DEF LanesTypeOK
  <2>3. work[s].at # None /\ work[s] # Idle /\ lanes' = lanes /\ Lowest(FreePorts) # None
    BY <1>6 DEF ReallocLane, Idle
  <2>4. \A t, u \in Slot : work'[t] # Idle /\ work'[u] # Idle => t = u
    BY <2>2, <2>3 DEF OnePass
  <2>5. \A t \in Slot : work'[t].at # None =>
          /\ work'[t].port # None /\ lanes'[work'[t].at] = None
          /\ On[work'[t].at] \in Known' /\ work'[t].at \notin work'[t].todo
    BY <2>2, <2>3, <1>1 DEF OnePass
  <2>6. \A t \in Slot : \A e \in work'[t].todo : work'[t].want[e] # None /\ On[e] \in Known'
    BY <2>2, <1>1 DEF OnePass
  <2> QED BY <2>3, <2>4, <2>5, <2>6, <1>1 DEF OnePass
<1>7. ASSUME NEW s \in Slot, GiveUp(s) \/ Reconciled(s) PROVE OnePass'
  <2>1. work' = [work EXCEPT ![s] = Idle] /\ lanes' = lanes
    BY <1>7 DEF GiveUp, Reconciled
  <2>2. work'[s] = Idle /\ \A t \in Slot \ {s} : work'[t] = work[t]
    BY <2>1 DEF LanesTypeOK
  <2>3. Idle.at = None /\ Idle.todo = {}
    BY DEF Idle
  <2> QED BY <2>1, <2>2, <2>3, <1>1 DEF OnePass
<1>8. ASSUME Restart PROVE OnePass'
  <2>1. work' = [s \in Slot |-> Idle] /\ lanes' = [d \in Db |-> None]
    BY <1>8 DEF Restart
  <2>2. Idle.at = None /\ Idle.todo = {}
    BY DEF Idle
  <2> QED BY <2>1, <2>2 DEF OnePass
<1> QED
  BY <1>2, <1>3, <1>4, <1>5, <1>6, <1>7, <1>8
  DEF LanesNext, AllocLanes, ProvisionBranch, Rollback, Demolish, AddDb, RemoveDb, LaneFor,
      StartListing, EndListing, StartDeploy, StartContainer, DeployFails, DeployCommits, Sleep, Wake,
      AlienTakes, AlienLeaves, Stopped, lanesVars, router

LEMMA ListenersKept ==
    ASSUME LanesTypeOK, OnePass, NoListenerLost, LanesNext
    PROVE  NoListenerLost'
<1>1. ASSUME UNCHANGED <<sockets, lanes>> PROVE NoListenerLost'
  BY ONLY <1>1, NoListenerLost DEF NoListenerLost
<1>2. ASSUME NEW s \in Slot, Reconcile(s) PROVE NoListenerLost'
  <2> DEFINE kept == [d \in Db |-> IF lanes[d] = WantedPerService[d] THEN lanes[d] ELSE None]
  <2>1. lanes' = kept /\ sockets' = {k \in sockets : ~(lanes[k.db] = k.port /\ kept[k.db] = None)}
    BY <1>2 DEF Reconcile, Begin
  <2>2. \A k \in sockets : k.db \in Db /\ k.port = lanes[k.db] /\ k.port # None
                             /\ k = [db |-> k.db, port |-> lanes[k.db]]
    BY DEF NoListenerLost
  <2>3. ASSUME NEW k \in sockets'
        PROVE  \E d \in {e \in Db : lanes'[e] # None} : k = [db |-> d, port |-> lanes'[d]]
    <3>1. k.db \in Db /\ k = [db |-> k.db, port |-> lanes[k.db]] /\ kept[k.db] # None
      BY <2>1, <2>2
    <3>2. kept[k.db] = lanes[k.db]
      BY <3>1
    <3> QED BY <2>1, <3>1, <3>2
  <2>4. ASSUME NEW d \in Db, lanes'[d] # None PROVE [db |-> d, port |-> lanes'[d]] \in sockets'
    <3>1. lanes'[d] = lanes[d]
      BY <2>1, <2>4
    <3>2. [db |-> d, port |-> lanes[d]] \in sockets
      BY <2>4, <3>1 DEF NoListenerLost
    <3> QED BY <2>1, <2>4, <3>1, <3>2
  <2> QED BY <2>3, <2>4 DEF NoListenerLost
<1>3. ASSUME NEW s \in Slot, Listening(s) PROVE NoListenerLost'
  <2> DEFINE d == work[s].at
             port == work[s].port
  <2>1. d \in Db /\ port # None /\ lanes[d] = None
    BY <1>3 DEF Listening, OnePass, LanesTypeOK
  <2>2. sockets' = sockets \cup {[db |-> d, port |-> port]} /\ lanes' = [lanes EXCEPT ![d] = port]
    BY <1>3 DEF Listening
  <2>3. lanes'[d] = port /\ \A e \in Db \ {d} : lanes'[e] = lanes[e]
    BY <2>1, <2>2 DEF LanesTypeOK
  <2> HIDE DEF d, port
  <2> QED BY <2>1, <2>2, <2>3 DEF NoListenerLost
<1>4. ASSUME Restart PROVE NoListenerLost'
  BY <1>4 DEF Restart, NoListenerLost
<1> QED
  BY <1>1, <1>2, <1>3, <1>4
  DEF LanesNext, AllocLanes, ProvisionBranch, Rollback, Demolish, AddDb, RemoveDb, LaneFor,
      StartListing, EndListing, StartDeploy, StartContainer, DeployFails, DeployCommits, Sleep, Wake,
      AlienTakes, AlienLeaves, OpenPerService, ReallocLane, GiveUp, Reconciled, Stopped, lanesVars,
      router

-------------------------------------------------------------------------------
\* One holder per port.
Apart == OneHolds /\ Reserved /\ Followed

\* Who holds less, holds apart.
LEMMA FewerHold ==
    ASSUME OneHolds, \A x \in Db \cup App, p \in Port : Holds(x, p)' => Holds(x, p)
    PROVE  OneHolds'
BY DEF OneHolds

\* Free ports given out one each.
LEMMA NewHold ==
    ASSUME LanesTypeOK, RowsOfBranches, OneHolds, Reserved, NEW N,
           \A x \in Db \cup App, p \in Port : Holds(x, p)' => Holds(x, p) \/ <<x, p>> \in N,
           \A x, y \in Db \cup App, p \in Port : <<x, p>> \in N => p \in FreePorts /\ (<<y, p>> \in N => x = y)
    PROVE  OneHolds'
BY FreeIsFree DEF OneHolds

\* A database that has no lane is given a port: by its address being read, or by a listing.
LEMMA GivesLane ==
    ASSUME LanesTypeOK, RowsOfBranches, OnePass, Apart, NEW d \in Db,
           lane[d] = None, On[d] \in ready, NEW p \in FreePorts,
           lane' = [lane EXCEPT ![d] = p], held' = [held EXCEPT ![p] = None],
           UNCHANGED <<ready, pub, made, deploys, lanes, work>>
    PROVE  Apart'
<1> USE LanesAssumption DEF Apart
<1>1. p \in Port /\ p # None /\ held[p] = None
  BY FreeArePorts DEF FreePorts, TakenLanePorts
<1>2. lane'[d] = p /\ \A e \in Db \ {d} : lane'[e] = lane[e]
  BY DEF LanesTypeOK
<1>3. held' = held
  BY <1>1 DEF LanesTypeOK
<1>4. OneHolds'
  <2>1. \A x \in Db \cup App, q \in Port : Holds(x, q)' => Holds(x, q) \/ <<x, q>> \in {<<d, p>>}
    BY <1>2 DEF Holds
  <2>2. \A x, y \in Db \cup App, q \in Port :
           <<x, q>> \in {<<d, p>>} => q \in FreePorts /\ (<<y, q>> \in {<<d, p>>} => x = y)
    OBVIOUS
  <2> QED BY <2>1, <2>2, NewHold
<1>5. Reserved'
  BY <1>3 DEF Reserved, NoDeploy, Asked
<1>6. Followed'
  <2>1. lanes[d] = None
    BY DEF Followed
  <2>2. \A s \in Slot : work[s].at # d
    BY DEF Followed, OnePass
  <2>3. \A s \in Slot : d \notin work[s].todo
    BY DEF Followed, OnePass
  <2> QED BY <1>2, <2>1, <2>2, <2>3 DEF Followed
<1> QED BY <1>4, <1>5, <1>6

\* What concerns neither rows nor the router's passes.
LEMMA ApartStays ==
    ASSUME Apart, UNCHANGED <<ready, lane, pub, held, made, deploys, lanes, work>>
    PROVE  Apart'
BY DEF Apart, OneHolds, Holds, Reserved, Followed, NoDeploy, Asked

\* Creating and dropping branches.
LEMMA BranchesApart ==
    ASSUME LanesTypeOK, RowsOfBranches, OnePass, Apart, NEW b \in Branch,
           (\E D \in SUBSET Db : AllocLanes(b, D)) \/ ProvisionBranch(b) \/ Rollback(b) \/ Demolish(b)
    PROVE  Apart'
<1> USE LanesAssumption DEF Apart
<1>1. ASSUME NEW D \in SUBSET Db, AllocLanes(b, D) PROVE Apart'
  <2>1. PICK f \in Allocations(D, FreePorts) :
          /\ made' = [d \in Db |-> IF d \in D THEN f[d] ELSE made[d]]
          /\ held' = [p \in Port |-> IF p \in {f[d] : d \in D} THEN b ELSE held[p]]
    BY <1>1 DEF AllocLanes
  <2>2. /\ \A d \in D : f[d] \in FreePorts /\ On[d] = b
        /\ \A d, e \in D : f[d] = f[e] => d = e
    BY <1>1 DEF Allocations, AllocLanes, DbsOf
  <2>3. UNCHANGED <<ready, lane, pub, deploys, lanes, work>>
    BY <1>1 DEF AllocLanes, router
  <2>4. OneHolds'
    <3> DEFINE N == {<<d, f[d]>> : d \in D}
    <3>1. \A x \in Db \cup App, q \in Port : Holds(x, q)' => Holds(x, q) \/ <<x, q>> \in N
      BY <2>1, <2>3 DEF Holds
    <3>2. \A x, y \in Db \cup App, q \in Port :
             <<x, q>> \in N => q \in FreePorts /\ (<<y, q>> \in N => x = y)
      BY <2>2
    <3> HIDE DEF N
    <3> QED BY <3>1, <3>2, NewHold
  <2>5. \A x \in Db \cup App, q \in Port : Holds(x, q) => held'[q] = held[q]
    BY <2>1, <2>2, FreeIsFree DEF LanesTypeOK
  <2>6. \A d \in D : f[d] \in Port /\ held'[f[d]] = On[d]
    BY <2>1, <2>2, FreeArePorts
  <2>7. Reserved'
    <3>1. ASSUME NEW d \in Db, made'[d] # None PROVE held'[made'[d]] = On[d]
      <4>1. CASE d \in D
        BY <2>1, <2>6, <4>1
      <4>2. CASE d \notin D
        <5>1. made'[d] = made[d] /\ made[d] \in Port
          BY <2>1, <3>1, <4>2 DEF LanesTypeOK, Ports
        <5>2. Holds(d, made[d])
          BY DEF Holds
        <5> QED BY <2>5, <3>1, <5>1, <5>2 DEF Reserved
      <4> QED BY <4>1, <4>2
    <3>2. ASSUME NEW a \in App, deploys[a] # NoDeploy, pub[a] # deploys[a].port
          PROVE  held'[deploys[a].port] = On[a]
      <4>1. deploys[a].port \in Port
        BY <3>2 DEF LanesTypeOK, Ports, RowsOfBranches
      <4>2. Holds(a, deploys[a].port)
        BY DEF Holds
      <4> QED BY <2>5, <3>2, <4>1, <4>2 DEF Reserved
    <3> QED BY <3>1, <3>2, <2>3 DEF Reserved, NoDeploy, Asked
  <2>8. Followed'
    BY <2>3 DEF Followed
  <2> QED BY <2>4, <2>7, <2>8
<1>2. ASSUME ProvisionBranch(b) PROVE Apart'
  <2>1. /\ b \notin Known /\ ready' = ready \cup {b}
        /\ lane' = [d \in Db |-> IF On[d] = b THEN made[d] ELSE lane[d]]
        /\ held' = NotHeldBy(b) /\ made' = Unmade(b)
        /\ UNCHANGED <<pub, deploys, lanes, work>>
    BY <1>2 DEF ProvisionBranch, Known, router
  <2>2. OneHolds'
    <3>1. \A x \in Db \cup App, q \in Port : Holds(x, q)' => Holds(x, q)
      BY <2>1 DEF Holds, Unmade
    <3> QED BY <3>1, FewerHold
  <2>3. Reserved'
    <3>1. ASSUME NEW d \in Db, made'[d] # None PROVE held'[made'[d]] = On[d]
      <4>1. On[d] # b /\ made'[d] = made[d] /\ made[d] \in Port
        BY <2>1, <3>1 DEF Unmade, LanesTypeOK, Ports
      <4>2. held[made[d]] = On[d]
        BY <3>1, <4>1 DEF Reserved
      <4> QED BY <2>1, <4>1, <4>2 DEF NotHeldBy
    <3>2. ASSUME NEW a \in App, deploys[a] # NoDeploy, pub[a] # deploys[a].port
          PROVE  held'[deploys[a].port] = On[a]
      <4>1. deploys[a].port \in Port /\ On[a] # b
        BY <2>1, <3>2 DEF LanesTypeOK, Ports, RowsOfBranches, Known
      <4>2. held[deploys[a].port] = On[a]
        BY <3>2 DEF Reserved
      <4> QED BY <2>1, <4>1, <4>2 DEF NotHeldBy
    <3> QED BY <3>1, <3>2, <2>1 DEF Reserved, NoDeploy, Asked
  <2>4. Followed'
    <3>1. \A d \in Db : On[d] \in Known => lane'[d] = lane[d] /\ (On[d] \in ready' => On[d] \in ready)
      BY <2>1
    <3> QED BY <2>1, <3>1 DEF Followed, OnePass
  <2> QED BY <2>2, <2>3, <2>4
<1>3. ASSUME Rollback(b) PROVE Apart'
  <2>1. /\ b \notin ready /\ held' = NotHeldBy(b) /\ made' = Unmade(b)
        /\ UNCHANGED <<ready, lane, pub, deploys, lanes, work>>
    BY <1>3 DEF Rollback, Making, router
  <2>2. OneHolds'
    <3>1. \A x \in Db \cup App, q \in Port : Holds(x, q)' => Holds(x, q)
      BY <2>1 DEF Holds, Unmade
    <3> QED BY <3>1, FewerHold
  <2>3. Reserved'
    <3>1. ASSUME NEW d \in Db, made'[d] # None PROVE held'[made'[d]] = On[d]
      <4>1. On[d] # b /\ made'[d] = made[d] /\ made[d] \in Port
        BY <2>1, <3>1 DEF Unmade, LanesTypeOK, Ports
      <4>2. held[made[d]] = On[d]
        BY <3>1, <4>1 DEF Reserved
      <4> QED BY <2>1, <4>1, <4>2 DEF NotHeldBy
    <3>2. ASSUME NEW a \in App, deploys[a] # NoDeploy, pub[a] # deploys[a].port
          PROVE  held'[deploys[a].port] = On[a]
      <4>1. deploys[a].port \in Port /\ On[a] # b
        BY <2>1, <3>2 DEF LanesTypeOK, Ports, RowsOfBranches
      <4>2. held[deploys[a].port] = On[a]
        BY <3>2 DEF Reserved
      <4> QED BY <2>1, <4>1, <4>2 DEF NotHeldBy
    <3> QED BY <3>1, <3>2, <2>1 DEF Reserved, NoDeploy, Asked
  <2>4. Followed'
    BY <2>1 DEF Followed
  <2> QED BY <2>2, <2>3, <2>4
<1>4. ASSUME Demolish(b) PROVE Apart'
  <2>1. /\ b \in ready /\ ready' = ready \ {b} /\ held' = NotHeldBy(b)
        /\ lane' = [d \in Db |-> IF On[d] = b THEN None ELSE lane[d]]
        /\ pub' = [a \in App |-> IF On[a] = b THEN None ELSE pub[a]]
        /\ \A a \in App : On[a] = b => deploys[a] = NoDeploy
        /\ UNCHANGED <<made, deploys, lanes, work>>
    BY <1>4 DEF Demolish, AppsOf, router
  <2>2. OneHolds'
    <3>1. \A x \in Db \cup App, q \in Port : Holds(x, q)' => Holds(x, q)
      BY <2>1 DEF Holds
    <3> QED BY <3>1, FewerHold
  <2>3. Reserved'
    <3>1. ASSUME NEW d \in Db, made[d] # None PROVE held'[made[d]] = On[d]
      <4>1. On[d] # b /\ made[d] \in Port
        BY <2>1, <3>1 DEF LanesTypeOK, Ports, RowsOfBranches, Known
      <4>2. held[made[d]] = On[d]
        BY <3>1 DEF Reserved
      <4> QED BY <2>1, <4>1, <4>2 DEF NotHeldBy
    <3>2. ASSUME NEW a \in App, deploys[a] # NoDeploy, pub'[a] # deploys[a].port
          PROVE  held'[deploys[a].port] = On[a]
      <4>1. deploys[a].port \in Port /\ On[a] # b
        BY <2>1, <3>2 DEF LanesTypeOK, Ports, RowsOfBranches
      <4>2. held[deploys[a].port] = On[a]
        BY <2>1, <3>2, <4>1 DEF Reserved
      <4> QED BY <2>1, <4>1, <4>2 DEF NotHeldBy
    <3> QED BY <3>1, <3>2, <2>1 DEF Reserved, NoDeploy, Asked
  <2>4. Followed'
    BY <2>1 DEF Followed
  <2> QED BY <2>2, <2>3, <2>4
<1> QED BY <1>1, <1>2, <1>3, <1>4

\* Deploys.
LEMMA DeploysApart ==
    ASSUME LanesTypeOK, RowsOfBranches, OnePass, Apart, NEW a \in App,
           StartDeploy(a) \/ StartContainer(a) \/ DeployFails(a) \/ DeployCommits(a)
    PROVE  Apart'
<1> USE LanesAssumption DEF Apart
<1>1. ASSUME StartDeploy(a) PROVE Apart'
  <2> DEFINE unlaned == {d \in carried \cap DbsOf(On[a]) : lane[d] = None}
             port == IF pub[a] # None THEN pub[a] ELSE Lowest(FreePorts)
  <2>1. PICK f \in Allocations(unlaned, FreePorts \ {port}) :
           lane' = [d \in Db |-> IF d \in unlaned THEN f[d] ELSE lane[d]]
    BY <1>1 DEF StartDeploy
  <2>2. /\ deploys' = [deploys EXCEPT ![a] = Asked(port)]
        /\ held' = IF pub[a] # None THEN held ELSE [held EXCEPT ![port] = On[a]]
        /\ (pub[a] # None \/ FreePorts # {}) /\ deploys[a] = NoDeploy
        /\ UNCHANGED <<ready, pub, made, lanes, work>>
    BY <1>1 DEF StartDeploy, router
  <2>3. /\ pub[a] = None => port \in FreePorts
        /\ port \in Port
    BY <2>2, FreeArePorts DEF LanesTypeOK, Ports
  <2>4. /\ \A d \in unlaned : f[d] \in FreePorts /\ f[d] # port /\ On[d] \in ready
                               /\ d \in Db /\ lane[d] = None
        /\ \A d, e \in unlaned : f[d] = f[e] => d = e
    BY DEF Allocations, DbsOf, RowsOfBranches
  <2>5. deploys'[a] = Asked(port) /\ \A c \in App \ {a} : deploys'[c] = deploys[c]
    BY <2>2 DEF LanesTypeOK
  <2> HIDE DEF unlaned, port
  <2>6. OneHolds'
    <3> DEFINE N == {<<d, f[d]>> : d \in unlaned} \cup (IF pub[a] = None THEN {<<a, port>>} ELSE {})
    <3>1. \A x \in Db \cup App, q \in Port : Holds(x, q)' => Holds(x, q) \/ <<x, q>> \in N
      <4> SUFFICES ASSUME NEW x \in Db \cup App, NEW q \in Port, Holds(x, q)'
                   PROVE  Holds(x, q) \/ <<x, q>> \in N
        OBVIOUS
      <4>1. CASE x \in Db
        BY <2>1, <2>2, <4>1 DEF Holds
      <4>2. CASE x \in App \ {a}
        BY <2>2, <2>5, <4>2 DEF Holds
      <4>3. CASE x = a
        <5>1. q = pub[a] \/ q = port
          BY <2>2, <2>5, <4>3 DEF Holds, Asked
        <5>2. pub[a] # None => port = pub[a]
          BY DEF port
        <5> QED BY <4>3, <5>1, <5>2 DEF Holds
      <4> QED BY <4>1, <4>2, <4>3
    <3>2. \A x, y \in Db \cup App, q \in Port :
             <<x, q>> \in N => q \in FreePorts /\ (<<y, q>> \in N => x = y)
      BY <2>3, <2>4
    <3> HIDE DEF N
    <3> QED BY <3>1, <3>2, NewHold
  <2>7. \A x \in Db \cup App, q \in Port : Holds(x, q) => held'[q] = held[q]
    BY <2>2, <2>3, FreeIsFree DEF LanesTypeOK
  <2>8. Reserved'
    <3>1. ASSUME NEW d \in Db, made[d] # None PROVE held'[made[d]] = On[d]
      <4>1. made[d] \in Port /\ Holds(d, made[d])
        BY <3>1 DEF LanesTypeOK, Ports, Holds
      <4> QED BY <2>7, <3>1, <4>1 DEF Reserved
    <3>2. ASSUME NEW c \in App, deploys'[c] # NoDeploy, pub[c] # deploys'[c].port
          PROVE  held'[deploys'[c].port] = On[c]
      <4>1. CASE c = a
        <5>1. pub[a] # port
          BY <2>5, <3>2, <4>1 DEF Asked
        <5>2. pub[a] = None
          BY <5>1 DEF port
        <5> QED BY <2>2, <2>3, <2>5, <4>1, <5>2 DEF LanesTypeOK, Asked
      <4>2. CASE c # a
        <5>1. deploys'[c] = deploys[c] /\ deploys[c].port \in Port
          BY <2>5, <3>2, <4>2 DEF LanesTypeOK, Ports, RowsOfBranches
        <5>2. Holds(c, deploys[c].port)
          BY DEF Holds
        <5> QED BY <2>7, <3>2, <5>1, <5>2 DEF Reserved
      <4> QED BY <4>1, <4>2
    <3> QED BY <3>1, <3>2, <2>2 DEF Reserved, NoDeploy, Asked
  <2>9. Followed'
    <3>1. \A d \in unlaned : lanes[d] = None
      BY <2>4 DEF Followed
    <3>2. \A d \in unlaned, s \in Slot : work[s].at # d /\ d \notin work[s].todo
      BY <2>4 DEF Followed, OnePass
    <3>3. \A d \in Db \ unlaned : lane'[d] = lane[d]
      BY <2>1
    <3> QED BY <2>2, <3>1, <3>2, <3>3 DEF Followed
  <2> QED BY <2>6, <2>8, <2>9
<1>2. ASSUME StartContainer(a) PROVE Apart'
  <2>1. /\ deploys[a] # NoDeploy /\ deploys'[a].port = deploys[a].port
        /\ \A c \in App \ {a} : deploys'[c] = deploys[c]
        /\ UNCHANGED <<ready, lane, pub, held, made, lanes, work>>
    BY <1>2 DEF StartContainer, LanesTypeOK, rows, router
  <2>2. OneHolds'
    <3>1. \A x \in Db \cup App, q \in Port : Holds(x, q)' => Holds(x, q)
      BY <2>1 DEF Holds
    <3> QED BY <3>1, FewerHold
  <2>3. Reserved'
    BY <2>1 DEF Reserved, NoDeploy, Asked
  <2>4. Followed'
    BY <2>1 DEF Followed
  <2> QED BY <2>2, <2>3, <2>4
<1>3. ASSUME DeployFails(a) \/ DeployCommits(a) PROVE Apart'
  <2> DEFINE port == deploys[a].port
  <2>1. /\ deploys[a] # NoDeploy /\ deploys' = [deploys EXCEPT ![a] = NoDeploy]
        /\ held' \in {held, [held EXCEPT ![port] = None]}
        /\ pub' \in {pub, [pub EXCEPT ![a] = port]}
        /\ UNCHANGED <<ready, lane, made, lanes, work>>
    BY <1>3 DEF DeployFails, DeployCommits, router
  <2>2. port \in Port
    BY <2>1 DEF RowsOfBranches, LanesTypeOK, Ports
  <2>3. deploys'[a] = NoDeploy /\ \A c \in App \ {a} : deploys'[c] = deploys[c] /\ pub'[c] = pub[c]
    BY <2>1 DEF LanesTypeOK
  <2>4. OneHolds'
    <3>1. \A x \in Db \cup App, q \in Port : Holds(x, q)' => Holds(x, q)
      BY <2>1, <2>3 DEF Holds, NoDeploy, Asked, LanesTypeOK
    <3> QED BY <3>1, FewerHold
  <2>5. \A x \in Db \cup App, q \in Port : Holds(x, q) /\ x # a => held'[q] = held[q]
    <3>1. Holds(a, port)
      BY DEF Holds
    <3>2. ASSUME NEW x \in Db \cup App, Holds(x, port) PROVE x = a
      <4>1. a \in Db \cup App
        OBVIOUS
      <4> QED BY ONLY <4>1, <2>2, <3>1, <3>2, OneHolds DEF OneHolds
    <3> QED BY <2>1, <3>2 DEF LanesTypeOK
  <2>6. Reserved'
    <3>1. ASSUME NEW d \in Db, made[d] # None PROVE held'[made[d]] = On[d]
      <4>1. made[d] \in Port /\ Holds(d, made[d]) /\ d # a
        BY <3>1 DEF LanesTypeOK, Ports, Holds
      <4> QED BY <2>5, <3>1, <4>1 DEF Reserved
    <3>2. ASSUME NEW c \in App, deploys'[c] # NoDeploy, pub'[c] # deploys'[c].port
          PROVE  held'[deploys'[c].port] = On[c]
      <4>1. c # a
        BY <2>3, <3>2
      <4>2. deploys'[c] = deploys[c] /\ pub'[c] = pub[c] /\ deploys[c].port \in Port
        BY <2>3, <3>2, <4>1 DEF LanesTypeOK, Ports, RowsOfBranches
      <4>3. Holds(c, deploys[c].port)
        BY DEF Holds
      <4> QED BY <2>5, <3>2, <4>1, <4>2, <4>3 DEF Reserved
    <3> QED BY <3>1, <3>2, <2>1 DEF Reserved, NoDeploy, Asked
  <2>7. Followed'
    BY <2>1 DEF Followed
  <2> QED BY <2>4, <2>6, <2>7
<1> QED BY <1>1, <1>2, <1>3

\* The router's passes, and a restart.
LEMMA RouterApart ==
    ASSUME LanesTypeOK, RowsOfBranches, OnePass, Apart, NEW s \in Slot,
           Reconcile(s) \/ OpenPerService(s) \/ Listening(s) \/ ReallocLane(s) \/ GiveUp(s)
             \/ Reconciled(s)
    PROVE  Apart'
<1> USE LanesAssumption DEF Apart
<1>1. ASSUME UNCHANGED <<lane, pub, held, made, deploys>> PROVE OneHolds' /\ Reserved'
  BY <1>1 DEF OneHolds, Holds, Reserved, NoDeploy, Asked
<1>2. Idle.at = None /\ Idle.todo = {}
  BY DEF Idle
<1>3. ASSUME Reconcile(s) PROVE Apart'
  <2>1. \A t \in Slot \ {s} : work'[t] = Idle
    BY <1>3 DEF Reconcile, Begin, LanesTypeOK
  <2>2. /\ work'[s].at = None
        /\ work'[s].todo = {d \in Db : WantedPerService[d] # None}
        /\ work'[s].want = WantedPerService
    BY <1>3 DEF Reconcile, Begin, LanesTypeOK, Idle
  <2>3. /\ \A d \in Db : lanes'[d] \in {lanes[d], None}
        /\ UNCHANGED <<ready, lane, pub, held, made, deploys>>
    BY <1>3 DEF Reconcile, Begin, rows, calls
  <2>4. \A d \in Db : WantedPerService[d] # None => WantedPerService[d] = lane[d]
    BY DEF WantedPerService
  <2>5. Followed'
    <3>1. \A d \in Db : lanes'[d] # None /\ On[d] \in ready' => lane'[d] = lanes'[d]
      BY <2>3 DEF Followed
    <3>2. \A t \in Slot : work'[t].at = None
      BY <2>1, <2>2, <1>2
    <3>3. \A t \in Slot : \A d \in Db : d \in work'[t].todo => lane'[d] = work'[t].want[d]
      BY <2>1, <2>2, <2>3, <2>4, <1>2
    <3> QED BY <3>1, <3>2, <3>3 DEF Followed
  <2> QED BY <2>3, <2>5, <1>1
<1>4. ASSUME OpenPerService(s) PROVE Apart'
  <2>1. PICK d \in work[s].todo : work' = [work EXCEPT ![s].todo = @ \ {d},
                            ![s].at = IF lanes[d] = None THEN d ELSE None,
                            ![s].port = IF lanes[d] = None THEN work[s].want[d] ELSE None]
    BY <1>4 DEF OpenPerService
  <2>2. /\ work'[s].todo = work[s].todo \ {d}
        /\ work'[s].at = IF lanes[d] = None THEN d ELSE None
        /\ work'[s].port = IF lanes[d] = None THEN work[s].want[d] ELSE None
        /\ work'[s].want = work[s].want
        /\ \A t \in Slot \ {s} : work'[t] = work[t]
    BY <2>1 DEF LanesTypeOK
  <2>3. UNCHANGED <<ready, lane, pub, held, made, deploys, lanes>>
    BY <1>4 DEF OpenPerService, rows, calls
  <2>4. d \in Db
    BY DEF LanesTypeOK
  <2>5. Followed'
    BY <2>2, <2>3, <2>4 DEF Followed
  <2> QED BY <2>3, <2>5, <1>1
<1>5. ASSUME Listening(s) PROVE Apart'
  <2>1. /\ work'[s].at = None /\ work'[s].todo = work[s].todo /\ work'[s].want = work[s].want
        /\ \A t \in Slot \ {s} : work'[t] = work[t]
    BY <1>5 DEF Listening, Done, LanesTypeOK
  <2>2. work[s].at \in Db
    BY <1>5 DEF Listening, LanesTypeOK
  <2>3. /\ lanes'[work[s].at] = work[s].port
        /\ \A d \in Db \ {work[s].at} : lanes'[d] = lanes[d]
    BY <1>5, <2>2 DEF Listening, LanesTypeOK
  <2>4. UNCHANGED <<ready, lane, pub, held, made, deploys>>
    BY <1>5 DEF Listening, rows, calls
  <2>5. Followed'
    <3>1. \A d \in Db : lanes'[d] # None /\ On[d] \in ready' => lane'[d] = lanes'[d]
      BY <2>2, <2>3, <2>4 DEF Followed
    <3>2. \A t \in Slot : \A d \in Db :
             /\ work'[t].at = d /\ On[d] \in ready' => lane'[d] = work'[t].port
             /\ d \in work'[t].todo /\ On[d] \in ready' => lane'[d] = work'[t].want[d]
      BY <2>1, <2>4 DEF Followed
    <3> QED BY <3>1, <3>2 DEF Followed
  <2> QED BY <2>4, <2>5, <1>1
<1>6. ASSUME ReallocLane(s) \/ GiveUp(s) PROVE Apart'
  <2> DEFINE d == work[s].at
             port == work[s].port
             next == Lowest(FreePorts)
  <2>1. /\ d \in Db /\ d # None
        /\ \/ work' = [work EXCEPT ![s].port = next, ![s].tries = @ + 1]
           \/ work' = [work EXCEPT ![s] = Idle]
        /\ UNCHANGED <<ready, pub, made, deploys, lanes>>
    BY <1>6 DEF ReallocLane, GiveUp, LanesTypeOK, calls
  <2>2. /\ work'[s].todo \in {work[s].todo, {}} /\ (work'[s].want = work[s].want \/ work'[s].todo = {})
        /\ work'[s].at = None \/ (work'[s].at = d /\ work'[s].port = next)
        /\ \A t \in Slot \ {s} : work'[t] = work[t]
    BY <2>1, <1>2 DEF LanesTypeOK
  <2>3. \A t \in Slot \ {s} : work[t] = Idle
    BY <2>1, <1>2 DEF OnePass
  <2>4. CASE On[d] \in ready /\ FreePorts # {}
    <3>1. /\ lane' = [lane EXCEPT ![d] = next] /\ held' = [held EXCEPT ![port] = None]
          /\ next \in FreePorts /\ next \in Port
      BY <1>6, <2>4, FreeArePorts DEF ReallocLane, GiveUp
    <3>2. lane[d] = port /\ port \in Port /\ lanes[d] = None /\ d \notin work[s].todo
      BY <2>1, <2>4 DEF Followed, OnePass, LanesTypeOK, Ports
    <3>3. Holds(d, port) /\ made[d] = None
      BY <2>1, <2>4, <3>2 DEF Holds, RowsOfBranches, Known
    <3>4. lane'[d] = next /\ \A e \in Db \ {d} : lane'[e] = lane[e]
      BY <2>1, <3>1 DEF LanesTypeOK
    <3> HIDE DEF d, port, next
    <3>5. OneHolds'
      <4>1. \A x \in Db \cup App, q \in Port : Holds(x, q)' => Holds(x, q) \/ <<x, q>> \in {<<d, next>>}
        BY <2>1, <3>4 DEF Holds
      <4>2. \A x, y \in Db \cup App, q \in Port :
               <<x, q>> \in {<<d, next>>} => q \in FreePorts /\ (<<y, q>> \in {<<d, next>>} => x = y)
        BY <3>1
      <4> QED BY <4>1, <4>2, NewHold
    <3>6. \A x \in Db \cup App, q \in Port : Holds(x, q) /\ x # d => held'[q] = held[q]
      <4>1. ASSUME NEW x \in Db \cup App, Holds(x, port) PROVE x = d
        <5>1. d \in Db \cup App
          BY <2>1
        <5> QED BY ONLY <5>1, <3>2, <3>3, <4>1, OneHolds DEF OneHolds
      <4> QED BY <3>1, <4>1 DEF LanesTypeOK
    <3>7. Reserved'
      <4>1. ASSUME NEW e \in Db, made[e] # None PROVE held'[made[e]] = On[e]
        <5>1. made[e] \in Port /\ Holds(e, made[e]) /\ e # d
          BY <4>1, <3>3 DEF LanesTypeOK, Ports, Holds
        <5> QED BY <3>6, <4>1, <5>1 DEF Reserved
      <4>2. ASSUME NEW a \in App, deploys[a] # NoDeploy, pub[a] # deploys[a].port
            PROVE  held'[deploys[a].port] = On[a]
        <5>1. deploys[a].port \in Port /\ Holds(a, deploys[a].port) /\ a # d
          BY <2>1, <4>2 DEF LanesTypeOK, Ports, RowsOfBranches, Holds
        <5> QED BY <3>6, <4>2, <5>1 DEF Reserved
      <4> QED BY <4>1, <4>2, <2>1 DEF Reserved, NoDeploy, Asked
    <3>8. Followed'
      <4>1. \A e \in Db : lanes'[e] # None /\ On[e] \in ready' => lane'[e] = lanes'[e]
        BY <2>1, <3>2, <3>4 DEF Followed
      <4>2. \A e \in Db : /\ work'[s].at = e => lane'[e] = work'[s].port
                          /\ e \in work'[s].todo /\ On[e] \in ready' => lane'[e] = work'[s].want[e]
        BY <2>1, <2>2, <3>2, <3>4 DEF Followed
      <4>3. \A t \in Slot \ {s} : work'[t].at = None /\ work'[t].todo = {}
        BY <2>2, <2>3, <1>2
      <4> QED BY <4>1, <4>2, <4>3 DEF Followed
    <3> QED BY <3>5, <3>7, <3>8
  <2>5. CASE ~(On[d] \in ready /\ FreePorts # {})
    <3>1. UNCHANGED <<lane, held>>
      BY <1>6, <2>5 DEF ReallocLane, GiveUp
    <3>2. On[d] \in ready => work'[s] = Idle
      BY <1>6, <2>5 DEF ReallocLane, GiveUp, LanesTypeOK
    <3>3. Followed'
      <4>1. \A e \in Db : /\ work'[s].at = e /\ On[e] \in ready' => lane'[e] = work'[s].port
                          /\ e \in work'[s].todo /\ On[e] \in ready' => lane'[e] = work'[s].want[e]
        BY <2>1, <2>2, <3>1, <3>2, <1>2 DEF Followed
      <4>2. \A t \in Slot \ {s} : work'[t].at = None /\ work'[t].todo = {}
        BY <2>2, <2>3, <1>2
      <4> QED BY <2>1, <3>1, <4>1, <4>2 DEF Followed
    <3> QED BY <2>1, <3>1, <3>3, <1>1
  <2> QED BY <2>4, <2>5
<1>7. ASSUME Reconciled(s) PROVE Apart'
  <2>1. /\ work' = [work EXCEPT ![s] = Idle]
        /\ UNCHANGED <<ready, lane, pub, held, made, deploys, lanes>>
    BY <1>7 DEF Reconciled, rows, calls
  <2>2. work'[s] = Idle /\ \A t \in Slot \ {s} : work'[t] = work[t]
    BY <2>1 DEF LanesTypeOK
  <2>3. Followed'
    BY <2>1, <2>2, <1>2 DEF Followed
  <2> QED BY <2>1, <2>3, <1>1
<1> QED BY <1>3, <1>4, <1>5, <1>6, <1>7

LEMMA RestartApart ==
    ASSUME LanesTypeOK, Apart, Restart
    PROVE  Apart'
<1> USE LanesAssumption
<1>1. /\ made' = [d \in Db |-> None] /\ deploys' = [a \in App |-> NoDeploy]
      /\ lanes' = [d \in Db |-> None] /\ work' = [s \in Slot |-> Idle]
      /\ UNCHANGED <<ready, lane, pub>>
  BY DEF Restart
<1>2. OneHolds'
  <2>1. \A x \in Db \cup App, q \in Port : Holds(x, q)' => Holds(x, q)
    BY <1>1 DEF Holds, NoDeploy, Asked
  <2> QED BY <2>1, FewerHold DEF Apart
<1>3. Reserved'
  BY <1>1 DEF Reserved, NoDeploy, Asked
<1>4. Followed'
  BY <1>1 DEF Followed, Idle
<1> QED BY <1>2, <1>3, <1>4 DEF Apart

\* A step after which no listing has moved a lane.
LEMMA StepApart ==
    ASSUME LanesTypeOK, RowsOfBranches, OnePass, ~moved => Apart, LanesNext, ~moved'
    PROVE  Apart'
<1> USE LanesAssumption, FreeArePorts
<1>1. ~moved /\ moved' = FALSE
  BY DEF LanesNext, AllocLanes, ProvisionBranch, Rollback, Demolish, AddDb, RemoveDb, LaneFor,
         StartListing, EndListing, StartDeploy, StartContainer, DeployFails, DeployCommits, Sleep, Wake,
         AlienTakes, AlienLeaves, Reconcile, Begin, OpenPerService, Listening, ReallocLane, GiveUp,
         Reconciled, Restart, Stopped, lanesVars, LanesTypeOK
<1>2. Apart
  BY <1>1
<1>3. ASSUME NEW d \in Db, LaneFor(d) PROVE Apart'
  <2>1. Lowest(FreePorts) \in FreePorts /\ On[d] \in ready
    BY <1>3 DEF LaneFor, RowsOfBranches
  <2> QED BY <1>2, <1>3, <2>1, GivesLane DEF LaneFor, Record, calls, router
<1>4. ASSUME NEW r \in Readers, EndListing(r) PROVE Apart'
  <2>1. CASE On[listing[r]] \in ready
    <3>1. /\ listing[r] \in Db /\ FreePorts # {}
          /\ lane' = [lane EXCEPT ![listing[r]] = Lowest(FreePorts)]
          /\ held' = [held EXCEPT ![Lowest(FreePorts)] = None]
          /\ UNCHANGED <<ready, pub, made, deploys, lanes, work>>
      BY <1>4, <2>1 DEF EndListing, Record, router, LanesTypeOK
    <3>2. lane[listing[r]] = None
      BY <1>1, <1>4, <2>1 DEF EndListing
    <3> QED BY <1>2, <2>1, <3>1, <3>2, GivesLane
  <2>2. CASE On[listing[r]] \notin ready
    BY <1>2, <1>4, <2>2, ApartStays DEF EndListing, router
  <2> QED BY <2>1, <2>2
<1>5. ASSUME NEW d \in Db, AddDb(d) \/ RemoveDb(d) \/ \E r \in Readers : StartListing(r, d) PROVE Apart'
  BY <1>2, <1>5, ApartStays DEF AddDb, RemoveDb, StartListing, rows, calls, router
<1>6. ASSUME NEW a \in App, Sleep(a) \/ Wake(a) PROVE Apart'
  BY <1>2, <1>6, ApartStays DEF Sleep, Wake, rows, calls, router
<1>7. ASSUME NEW p \in Foreign, AlienTakes(p) \/ AlienLeaves(p) PROVE Apart'
  BY <1>2, <1>7, ApartStays DEF AlienTakes, AlienLeaves, rows, calls, router
<1>8. ASSUME Stopped PROVE Apart'
  BY <1>2, <1>8, ApartStays DEF Stopped, lanesVars, rows, calls, router
<1>9. ASSUME NEW b \in Branch,
             (\E D \in SUBSET Db : AllocLanes(b, D)) \/ ProvisionBranch(b) \/ Rollback(b) \/ Demolish(b)
      PROVE  Apart'
  BY <1>2, <1>9, BranchesApart
<1>10. ASSUME NEW a \in App,
              StartDeploy(a) \/ StartContainer(a) \/ DeployFails(a) \/ DeployCommits(a)
       PROVE  Apart'
  BY <1>2, <1>10, DeploysApart
<1>11. ASSUME NEW s \in Slot, Reconcile(s) \/ OpenPerService(s) \/ Listening(s) \/ ReallocLane(s)
                                \/ GiveUp(s) \/ Reconciled(s)
       PROVE  Apart'
  BY <1>2, <1>11, RouterApart
<1>12. ASSUME Restart PROVE Apart'
  BY <1>2, <1>12, RestartApart
<1> QED
  BY <1>3, <1>4, <1>5, <1>6, <1>7, <1>8, <1>9, <1>10, <1>11, <1>12 DEF LanesNext

LEMMA LanesStep == LanesInv /\ [LanesNext]_lanesVars => LanesInv'
<1> SUFFICES ASSUME LanesInv, [LanesNext]_lanesVars PROVE LanesInv'
  OBVIOUS
<1>1. CASE LanesNext
  <2>1. LanesTypeOK' /\ RowsOfBranches' /\ OnePass' /\ NoListenerLost'
    BY <1>1, LanesTyped, RowsKept, PassKept, ListenersKept DEF LanesInv
  <2>2. ~moved' => Apart'
    BY <1>1, StepApart DEF LanesInv, Apart
  <2> QED BY <2>1, <2>2 DEF LanesInv, Apart
<1>2. CASE UNCHANGED lanesVars
  <2>1. UNCHANGED <<ready, gone, carried, lane, pub, held, made, deploys, listing, moved, up, alien,
                    sockets, lanes, work, queued, ops>>
    BY <1>2 DEF lanesVars, rows, calls, router
  <2>2. LanesTypeOK'
    BY <2>1 DEF LanesInv, LanesTypeOK
  <2>3. RowsOfBranches' /\ OnePass' /\ NoListenerLost'
    <3>1. RowsOfBranches'
      BY ONLY <2>1, LanesInv DEF LanesInv, RowsOfBranches, Known, NoDeploy, Asked
    <3>2. OnePass'
      BY ONLY <2>1, LanesInv DEF LanesInv, OnePass, Known, Idle
    <3>3. NoListenerLost'
      BY ONLY <2>1, LanesInv DEF LanesInv, NoListenerLost
    <3> QED BY <3>1, <3>2, <3>3
  <2>4. ~moved' => Apart'
    BY <2>1, ApartStays DEF LanesInv, Apart
  <2> QED BY <2>2, <2>3, <2>4 DEF LanesInv, Apart
<1> QED BY <1>1, <1>2

\* What the invariant says of ports.
LEMMA PortsFollow == LanesInv => PortsHold
<1> SUFFICES ASSUME LanesInv PROVE PortsHold
  OBVIOUS
<1> USE LanesAssumption
<1>1. ASSUME ~moved, NEW h \in Holdings, NEW k \in Holdings, h[2] = k[2] PROVE h = k
  <2>1. \A g \in Holdings : /\ g = <<g[1], g[2]>> /\ g[1] \in Db \cup App /\ g[2] \in Port
                            /\ Holds(g[1], g[2])
    BY DEF Holdings, Holds, LanesInv, LanesTypeOK, Ports, RowsOfBranches
  <2>2. OneHolds
    BY <1>1 DEF LanesInv
  <2>3. h[1] = k[1]
    BY ONLY <1>1, <2>1, <2>2 DEF OneHolds
  <2> QED BY ONLY <1>1, <2>1, <2>3
<1>2. ASSUME ~moved, NEW k \in sockets, NEW d \in Db, lane[d] = k.port, d # k.db PROVE k.db \notin carried
  <2> SUFFICES ASSUME k.db \in carried PROVE FALSE
    OBVIOUS
  <2>1. k.db \in Db /\ k.port = lanes[k.db] /\ k.port # None /\ k.port \in Port
    BY DEF LanesInv, NoListenerLost, LanesTypeOK, Ports
  <2>2. lane[k.db] = k.port
    BY <1>2, <2>1 DEF LanesInv, Followed, RowsOfBranches
  <2>3. Holds(d, k.port) /\ Holds(k.db, k.port)
    BY <1>2, <2>1, <2>2 DEF Holds
  <2>4. OneHolds
    BY <1>2 DEF LanesInv
  <2>5. d \in Db \cup App /\ k.db \in Db \cup App
    BY <2>1
  <2> QED BY ONLY <1>2, <2>1, <2>3, <2>4, <2>5 DEF OneHolds
<1> QED BY <1>1, <1>2 DEF LanesInv, PortsHold, OnePerPort, PortsApart, NeverCrossWired

\* Unless a listing moved a lane, every port of the range has one holder, in a row or for a row to
\* come, and nobody who dials the port a row names reaches another database; and the router knows
\* every socket it listens on (localHostPort, laneFor, allocLanes, reconcileSerial).
THEOREM PortsTheorem == LanesSpec => []PortsHold
<1>1. LanesInit => LanesInv
  BY LanesBegin
<1>2. LanesInv /\ [LanesNext]_lanesVars => LanesInv'
  BY LanesStep
<1>3. LanesInv => PortsHold
  BY PortsFollow
<1> QED BY <1>1, <1>2, <1>3, PTL DEF LanesSpec

\* Everything the router and the rows keep has its type.
THEOREM LanesTypedTheorem == LanesSpec => []LanesTypeOK
<1>1. LanesInit => LanesInv
  BY LanesBegin
<1>2. LanesInv /\ [LanesNext]_lanesVars => LanesInv'
  BY LanesStep
<1>3. LanesInv => LanesTypeOK
  BY DEF LanesInv
<1> QED BY <1>1, <1>2, <1>3, PTL DEF LanesSpec
===============================================================================
