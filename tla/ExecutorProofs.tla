---------------------------- MODULE ExecutorProofs ----------------------------
(***************************************************************************)
(* Proofs about Executor, for any deployments, any manifest, any number of *)
(* copies and of calls, and whatever people add and remove meanwhile: that *)
(* records are true (RunningIsLive for every specification; RecordsHold    *)
(* when no deployment is called again while a call of it is accepted), and *)
(* that a retry keeps the values it generated (ValueKept).  The argument   *)
(* is laid out in three invariants, each with the one before: BaseInv,     *)
(* what relates a run to its record; OwnInv, who made what; ValuesInv, the *)
(* values.                                                                 *)
(*                                                                         *)
(* And about Api, for any set of clients, policies and approvals: what a   *)
(* request is answered is true of what it asked for (RequestsHold, by      *)
(* ApiInv), which rests on a fact about the table of routes, RoutesSound.  *)
(***************************************************************************)
EXTENDS Executor, Api, WellFoundedInduction, FiniteSetTheorems, TLAPS

-------------------------------------------------------------------------------
\* Helpers.

\* A set of naturals has a least one.
LEMMA LeastIs == ASSUME NEW S, S \subseteq Nat, S # {} PROVE \E m \in S : \A n \in S : m <= n
<1>1. \E m \in S : \A n \in S : ~(<<n, m>> \in OpToRel(<, Nat))
  BY NatLessThanWellFounded, WFMin, Zenon
<1>2. PICK m \in S : \A n \in S : ~(<<n, m>> \in OpToRel(<, Nat))
  BY <1>1
<1>3. ASSUME NEW n \in S PROVE m <= n
  <2>1. <<n, m>> \in Nat \X Nat /\ <<n, m>>[1] = n /\ <<n, m>>[2] = m  OBVIOUS
  <2>2. ~(<<n, m>> \in OpToRel(<, Nat))  BY <1>2
  <2>3. ~(n < m)  BY <2>1, <2>2 DEF OpToRel
  <2>4. QED  BY <2>3
<1>4. QED  BY <1>3

\* First picks one of the set.
LEMMA FirstIs == ASSUME NEW S, S \subseteq Service, S # {} PROVE First(S) \in S
<1> DEFINE I == {i \in DOMAIN Manifest : Manifest[i] \in S}
<1>1. Manifest \in Seq(Service) BY ExecutorAssumption
<1>2. I \subseteq Nat /\ I # {}  BY <1>1 DEF Service
<1>3. PICK m \in I : \A n \in I : m <= n  BY <1>2, LeastIs
<1>4. \A j \in 1 .. m - 1 : Manifest[j] \notin S  BY <1>1, <1>3
<1>5. QED  BY <1>3, <1>4 DEF First

\* The service a run is at is one it has left.
LEMMA CurrentIs ==
  ASSUME TypeOK, NEW r \in Run, run[r].left # {}
  PROVE  Current(r) \in run[r].left /\ Current(r) \in Service
<1>1. run[r].left \subseteq Service  BY DEF TypeOK, Attempt
<1>2. First(run[r].left) \in run[r].left  BY <1>1, FirstIs
<1>3. QED  BY <1>1, <1>2 DEF Current

\* mintServiceNames mints one of the copies it may.
LEMMA CopyIs ==
  ASSUME TypeOK, NEW r \in Run, MintedCopies(r) # {}
  PROVE  /\ MintedCopies(r) \subseteq Copy
         /\ (CHOOSE c \in MintedCopies(r) : \A k \in MintedCopies(r) : c <= k) \in MintedCopies(r)
<1>1. MintedCopies(r) \subseteq Copy  BY DEF TypeOK, Attempt, MintedCopies, FreeCopies
<1>2. Copy \subseteq Nat  BY ExecutorAssumption DEF Copy
<1>3. \E c \in MintedCopies(r) : \A k \in MintedCopies(r) : c <= k  BY <1>1, <1>2, LeastIs
<1>4. QED  BY <1>1, <1>3

\* A run that is over, and one that did not begin, has its type.
LEMMA RunTyped == 1 \in Copy /\ [Idle EXCEPT !.pc = "ended"] \in Attempt /\ Idle \in Attempt
<1>1. 1 \in Copy  BY ExecutorAssumption DEF Copy
<1>2. QED  BY <1>1 DEF Attempt, Idle, Accepting, Working

\* The fields of a run have their types.
LEMMA Fields ==
  ASSUME TypeOK, NEW r \in Run
  PROVE  /\ run[r] \in Attempt
         /\ run[r].pc \in {"idle", "ended"} \cup Accepting \cup Working
         /\ run[r].of \in Deployment \cup {None} /\ run[r].copy \in Copy
         /\ run[r].ids \subseteq Service /\ run[r].left \subseteq Service
         /\ run[r].sees \in Owner \cup {None} /\ run[r].mine \in BOOLEAN
         /\ run[r].value \in Run \cup {0}
BY DEF TypeOK, Attempt

\* No other run changes.
Others(r) == \A q \in Run \ {r} : run'[q] = run[q]

\* Goto changes the step of one run alone.
LEMMA GotoIs ==
  ASSUME TypeOK, NEW r \in Run, NEW pc \in {"idle", "ended"} \cup Accepting \cup Working, Goto(r, pc)
  PROVE  /\ run' \in [Run -> Attempt] /\ Others(r)
         /\ run'[r] = [run[r] EXCEPT !.pc = pc]
BY Fields DEF TypeOK, Goto, Attempt, Others

\* Served leaves the service behind it, and after the last one the loop.
LEMMA ServedIs ==
  ASSUME TypeOK, NEW r \in Run, NEW s \in Service, NEW ids \in SUBSET Service,
         NEW loop \in Working, NEW next \in Working, NEW rest \in SUBSET Service,
         Served(r, s, ids, loop, next, rest)
  PROVE  LET left == run[r].left \ {s} IN
         /\ run' \in [Run -> Attempt] /\ Others(r)
         /\ run'[r].of = run[r].of /\ run'[r].copy = run[r].copy /\ run'[r].value = run[r].value
         /\ run'[r].ids = ids
         /\ run'[r].pc = IF left = {} THEN next ELSE loop
         /\ run'[r].left = IF left = {} THEN rest ELSE left
<1> DEFINE left == run[r].left \ {s}
           n == [run[r] EXCEPT !.ids = ids, !.sees = None, !.mine = FALSE,
                        !.pc = IF left = {} THEN next ELSE loop,
                        !.left = IF left = {} THEN rest ELSE left]
<1>1. run \in [Run -> Attempt] BY DEF TypeOK
<1>2. run' = [run EXCEPT ![r] = n]  BY DEF Served
<1>3. n \in Attempt  BY Fields DEF Attempt
<1>4. run'[r] = n BY <1>1, <1>2
<1>5. QED  BY <1>1, <1>2, <1>3, <1>4, Fields DEF Others, Attempt

\* save() writes the services into the record of the run that holds it, and no other.
LEMMA SaveIs ==
  ASSUME TypeOK, NEW r \in Run, NEW ids \in SUBSET Service, Save(r, ids)
  PROVE  /\ record' \in [Deployment -> Record \cup {None}] /\ aged' \subseteq Deployment
         /\ \A d \in Deployment :
               record'[d] = IF d = run[r].of /\ Holds(r) THEN [record[d] EXCEPT !.ids = ids] ELSE record[d]
BY Fields DEF TypeOK, Save, Holds, Record

\* finish() writes the status into the record of the run that holds it, and no other.
LEMMA FinishIs ==
  ASSUME TypeOK, NEW r \in Run, run[r].of \in Deployment, NEW st \in {"failed", "succeeded"}, Finish(r, st)
  PROVE  /\ record' \in [Deployment -> Record \cup {None}] /\ aged' \subseteq Deployment
         /\ \A d \in Deployment :
               record'[d] = IF d = run[r].of /\ Holds(r)
                            THEN [record[d] EXCEPT !.ids = run[r].ids, !.status = st] ELSE record[d]
         /\ run' \in [Run -> Attempt] /\ Others(r) /\ run'[r] = [Idle EXCEPT !.pc = "ended"]
<1> DEFINE d == run[r].of
           row == [record[d] EXCEPT !.ids = run[r].ids, !.status = st]
<1>1. run \in [Run -> Attempt] /\ record \in [Deployment -> Record \cup {None}] /\ aged \subseteq Deployment
  BY DEF TypeOK
<1>2. run' \in [Run -> Attempt] /\ Others(r) /\ run'[r] = [Idle EXCEPT !.pc = "ended"]
  BY <1>1, RunTyped DEF Finish, Others
<1>3. CASE Holds(r)
  <2>1. d \in Deployment /\ record[d] \in Record
    BY <1>1, <1>3, Fields, ExecutorAssumption DEF Holds
  <2>2. row \in Record  BY <2>1, Fields DEF Record
  <2>3. record' = [record EXCEPT ![d] = row]  BY <1>1, <1>3, <2>1 DEF Finish
  <2>4. QED  BY <1>1, <1>2, <1>3, <2>1, <2>2, <2>3 DEF Finish
<1>4. CASE ~Holds(r)
  BY <1>1, <1>2, <1>4 DEF Finish
<1>5. QED  BY <1>3, <1>4

-------------------------------------------------------------------------------
\* A run and its record.

\* Before write_variables, and from there on.
Creating == {"look", "act", "queued", "provisioning"}
Complete == {"write", "ready", "deploy", "health"}
Live(r) == run[r].pc \in Accepting \cup Working

\* What a run knows at the step it is at.
InStepOf(r) ==
    /\ run[r].pc \in {"idle", "ended"} => run[r].ids = {}
    /\ Live(r) => run[r].of \in Deployment
    /\ run[r].pc \in Creating => run[r].left # {} /\ Service \ run[r].left \subseteq run[r].ids
    /\ run[r].pc \in {"queued", "provisioning"} => Current(r) \in Database
    /\ run[r].pc \in Complete => run[r].ids = Service
    /\ run[r].pc \in {"write", "ready", "deploy"} => run[r].left # {} /\ run[r].left \subseteq Web
InStep == \A r \in Run : InStepOf(r)

\* No run outlives the daemon.
DownIsQuiet == ~up => \A r \in Run : ~Live(r)

\* The record of a run that works is that run's, running, and knows what the run knows; one
\* that reads running while the daemon runs has such a run.
ClaimsOf(d) ==
    record[d] # None =>
        LET r == record[d].claim IN
        /\ run[r].pc \in Working \cup {"ended"}
        /\ run[r].pc \in Working => /\ run[r].of = d /\ record[d].status = "running"
                                    /\ record[d].copy = run[r].copy /\ record[d].ids = run[r].ids
        /\ up /\ record[d].status = "running" => run[r].pc \in Working
Claims == \A d \in Deployment : ClaimsOf(d)

BaseInv == TypeOK /\ InStep /\ DownIsQuiet /\ Claims

-------------------------------------------------------------------------------
\* What a step of a run does to run and record: it goes on, and the record learns what it
\* learned; or it ends, and the record learns how.

Onward(r) ==
    /\ run[r].pc \in Working /\ run'[r].pc \in Working
    /\ run' \in [Run -> Attempt] /\ Others(r)
    /\ run'[r].of = run[r].of /\ run'[r].copy = run[r].copy /\ run'[r].value = run[r].value
    /\ run[r].ids \subseteq run'[r].ids
    /\ record' \in [Deployment -> Record \cup {None}] /\ aged' \subseteq Deployment
    /\ \A d \in Deployment :
          record'[d] = IF d = run[r].of /\ Holds(r)
                       THEN [record[d] EXCEPT !.ids = run'[r].ids] ELSE record[d]
    /\ InStepOf(r)'

Ends(r) ==
    /\ run[r].pc \in Working /\ run'[r] = [Idle EXCEPT !.pc = "ended"]
    /\ run' \in [Run -> Attempt] /\ Others(r)
    /\ record' \in [Deployment -> Record \cup {None}] /\ aged' \subseteq Deployment
    /\ \E st \in {"failed", "succeeded"} :
          /\ st = "succeeded" => run[r].pc = "health"
          /\ \A d \in Deployment :
                record'[d] = IF d = run[r].of /\ Holds(r)
                             THEN [record[d] EXCEPT !.ids = run[r].ids, !.status = st] ELSE record[d]

\* A run that is over knows nothing.
LEMMA EndedIs ==
  LET e == [Idle EXCEPT !.pc = "ended"] IN
  e.pc = "ended" /\ e.of = None /\ e.ids = {} /\ e.left = {}
BY DEF Idle

\* A run that works is of a deployment, in a daemon that runs.
LEMMA WorkingIs ==
  ASSUME BaseInv, NEW r \in Run, run[r].pc \in Working
  PROVE  /\ run[r].of \in Deployment /\ Live(r) /\ up
         /\ run[r].pc \in Creating \cup Complete
         /\ run[r].pc \notin {"idle", "ended"} /\ run[r].pc \notin Accepting
BY DEF BaseInv, InStep, InStepOf, DownIsQuiet, Live, Working, Accepting, Creating, Complete

\* A run that goes on keeps what relates runs and records.
LEMMA OnwardKeeps ==
  ASSUME BaseInv, NEW r \in Run, Onward(r), up' = up
  PROVE  InStep' /\ DownIsQuiet' /\ Claims'
<1>1. InStep'
  <2>1. ASSUME NEW q \in Run, q # r PROVE InStepOf(q)'
    BY <2>1 DEF Onward, Others, BaseInv, InStep, InStepOf, Live, Current
  <2>2. QED  BY <2>1 DEF Onward, InStep
<1>2. DownIsQuiet'
  BY WorkingIs DEF Onward, DownIsQuiet
<1>3. Claims'
  <2> SUFFICES ASSUME NEW d \in Deployment, record'[d] # None PROVE ClaimsOf(d)'
    BY DEF Claims, ClaimsOf
  <2>1. record[d] # None /\ record[d] \in Record /\ record[d].claim \in Run
    BY DEF Onward, BaseInv, TypeOK, Holds, Record
  <2>2. CASE record[d].claim = r
    <3>1. run[r].of = d /\ Holds(r)  BY <2>1, <2>2 DEF Onward, BaseInv, Claims, ClaimsOf, Holds
    <3>2. record'[d] = [record[d] EXCEPT !.ids = run'[r].ids]  BY <3>1 DEF Onward
    <3>3. record'[d].claim = r /\ record'[d].status = record[d].status
          /\ record'[d].copy = record[d].copy /\ record'[d].ids = run'[r].ids
      BY <2>1, <2>2, <3>2 DEF Record
    <3>4. QED  BY <2>1, <2>2, <3>1, <3>3 DEF Onward, BaseInv, Claims, ClaimsOf
  <2>3. CASE record[d].claim # r
    <3>1. record'[d] = record[d]  BY <2>3 DEF Onward, Holds
    <3>2. run'[record[d].claim] = run[record[d].claim]  BY <2>1, <2>3 DEF Onward, Others
    <3>3. QED  BY <2>1, <3>1, <3>2 DEF BaseInv, Claims, ClaimsOf
  <2>4. QED  BY <2>2, <2>3
<1>4. QED  BY <1>1, <1>2, <1>3

\* A run that ends keeps it.
LEMMA EndsKeeps ==
  ASSUME BaseInv, NEW r \in Run, Ends(r), up' = up
  PROVE  InStep' /\ DownIsQuiet' /\ Claims'
<1>0. run'[r].pc = "ended" /\ run'[r].ids = {} /\ "ended" \notin Accepting \cup Working
      /\ "ended" \notin Creating \cup Complete
  BY EndedIs DEF Ends, Accepting, Working, Creating, Complete
<1>1. InStep'
  <2>1. ASSUME NEW q \in Run, q # r PROVE InStepOf(q)'
    BY <2>1 DEF Ends, Others, BaseInv, InStep, InStepOf, Live, Current
  <2>2. InStepOf(r)'
    BY <1>0 DEF InStepOf, Live, Creating, Complete
  <2>3. QED  BY <2>1, <2>2 DEF InStep
<1>2. DownIsQuiet'
  BY WorkingIs DEF Ends, DownIsQuiet
<1>3. Claims'
  <2> SUFFICES ASSUME NEW d \in Deployment, record'[d] # None PROVE ClaimsOf(d)'
    BY DEF Claims, ClaimsOf
  <2>1. record[d] # None /\ record[d] \in Record /\ record[d].claim \in Run
    <3>1. PICK st \in {"failed", "succeeded"} :
            record'[d] = IF d = run[r].of /\ Holds(r)
                         THEN [record[d] EXCEPT !.ids = run[r].ids, !.status = st] ELSE record[d]
      BY DEF Ends
    <3>2. record[d] # None  BY <3>1 DEF Holds
    <3>3. QED  BY <3>2 DEF BaseInv, TypeOK, Record
  <2>2. CASE record[d].claim = r
    <3>1. run[r].of = d /\ Holds(r)
      BY <2>1, <2>2 DEF Ends, BaseInv, Claims, ClaimsOf, Holds
    <3>2. PICK st \in {"failed", "succeeded"} :
             record'[d] = [record[d] EXCEPT !.ids = run[r].ids, !.status = st]
      BY <3>1 DEF Ends
    <3>3. record'[d].claim = r /\ record'[d].status # "running"
      BY <2>1, <2>2, <3>2 DEF Record
    <3>4. QED  BY <1>0, <3>3 DEF ClaimsOf, Working
  <2>3. CASE record[d].claim # r
    <3>1. record'[d] = record[d]  BY <2>3 DEF Ends, Holds
    <3>2. run'[record[d].claim] = run[record[d].claim]  BY <2>1, <2>3 DEF Ends, Others
    <3>3. QED  BY <2>1, <3>1, <3>2 DEF BaseInv, Claims, ClaimsOf
  <2>4. QED  BY <2>2, <2>3
<1>4. QED  BY <1>1, <1>2, <1>3

\* To fail is to end.
LEMMA FailIs ==
  ASSUME BaseInv, NEW r \in Run, run[r].pc \in Working, Fail(r) PROVE Ends(r)
BY WorkingIs, FinishIs DEF BaseInv, Fail, Ends

\* A service is there: the run goes to the next one, or to write_variables.
LEMMA CreatedIs ==
  ASSUME BaseInv, NEW r \in Run, run[r].pc \in Creating, Created(r, Current(r))
  PROVE  /\ Onward(r) /\ run'[r].ids = run[r].ids \cup {Current(r)}
         /\ run'[r].pc \in {"look", "write"}
<1> DEFINE s == Current(r)
           ids == run[r].ids \cup {s}
<1>1. TypeOK /\ run[r].left # {} /\ Service \ run[r].left \subseteq run[r].ids /\ run[r].pc \in Working
  BY DEF BaseInv, InStep, InStepOf, Creating, Working
<1>2. s \in run[r].left /\ s \in Service /\ ids \subseteq Service /\ run[r].left \subseteq Service
      /\ Web \subseteq Service
  <2>1. s \in run[r].left /\ s \in Service  BY <1>1, CurrentIs
  <2>2. run[r].left \subseteq Service /\ run[r].ids \subseteq Service  BY <1>1, Fields
  <2>3. Web \subseteq Service  BY DEF Web
  <2> HIDE DEF s
  <2>4. QED  BY <2>1, <2>2, <2>3
<1>3. Save(r, ids) /\ Served(r, s, ids, "look", "write", Web)  BY DEF Created
<1>4. /\ run' \in [Run -> Attempt] /\ Others(r)
      /\ run'[r].of = run[r].of /\ run'[r].copy = run[r].copy /\ run'[r].value = run[r].value
      /\ run'[r].ids = ids
      /\ run'[r].pc = IF run[r].left \ {s} = {} THEN "write" ELSE "look"
      /\ run'[r].left = IF run[r].left \ {s} = {} THEN Web ELSE run[r].left \ {s}
  <2>1. "look" \in Working /\ "write" \in Working  BY DEF Working
  <2> HIDE DEF s, ids
  <2>2. QED  BY <1>1, <1>2, <1>3, <2>1, ServedIs
<1>5. /\ record' \in [Deployment -> Record \cup {None}] /\ aged' \subseteq Deployment
      /\ \A d \in Deployment :
            record'[d] = IF d = run[r].of /\ Holds(r) THEN [record[d] EXCEPT !.ids = ids] ELSE record[d]
  BY <1>1, <1>2, <1>3, SaveIs
<1>6. run[r].of \in Deployment  BY <1>1, WorkingIs
<1>7. InStepOf(r)'
  BY <1>1, <1>2, <1>4, <1>6, ExecutorAssumption
     DEF InStepOf, Live, Creating, Complete, Accepting, Working
<1>8. QED  BY <1>1, <1>4, <1>5, <1>7 DEF Onward, Working

\* The record stands when a step changes nothing a record holds.
LEMMA RecordStands ==
  ASSUME BaseInv, NEW r \in Run, run[r].pc \in Working, UNCHANGED <<record, aged>>, run'[r].ids = run[r].ids
  PROVE  /\ record' \in [Deployment -> Record \cup {None}] /\ aged' \subseteq Deployment
         /\ \A d \in Deployment :
              record'[d] = IF d = run[r].of /\ Holds(r) THEN [record[d] EXCEPT !.ids = run'[r].ids] ELSE record[d]
BY DEF BaseInv, TypeOK, Claims, ClaimsOf, Holds, Record

\* What each step of a run changes, and that it goes on or ends the run: Look,
LEMMA LookMoves == ASSUME BaseInv, NEW r \in Run, Look(r) 
  PROVE Onward(r) /\ run[r].pc = "look" /\ run'[r].pc = "act" /\ run'[r].ids = run[r].ids
        /\ run'[r].left = run[r].left
        /\ run'[r].sees = (IF Listed(NameOf(r, Current(r))) THEN owner[NameOf(r, Current(r))] ELSE None)
        /\ UNCHANGED <<branch, chain, up, history>>
<1> DEFINE x == NameOf(r, Current(r))
           v == IF Listed(x) THEN owner[x] ELSE None
           n == [run[r] EXCEPT !.pc = "act", !.sees = v]
<1>1. TypeOK /\ run \in [Run -> Attempt] /\ run[r].pc = "look" /\ run' = [run EXCEPT ![r] = n]
      /\ UNCHANGED <<record, aged, branch, chain, up, history>>
  BY DEF BaseInv, TypeOK, Look, At
<1>2. Current(r) \in Service  BY <1>1, CurrentIs DEF BaseInv, InStep, InStepOf, Creating
<1>3. NameOf(r, Current(r)) \in Name  BY <1>1, <1>2, Fields DEF NameOf, Name
<1>4. n \in Attempt
  <2>1. v \in Owner \cup {None}  BY <1>1, <1>3 DEF TypeOK
  <2> HIDE DEF v
  <2>2. QED  BY <1>1, <2>1, Fields DEF Attempt, Working
<1>5. run'[r] = n /\ run' \in [Run -> Attempt] /\ Others(r)  BY <1>1, <1>4 DEF Others
<1>6. /\ n.pc = "act" /\ n.ids = run[r].ids /\ n.of = run[r].of /\ n.copy = run[r].copy
      /\ n.value = run[r].value /\ n.left = run[r].left /\ n.sees = v
  BY <1>1 DEF Attempt
<1> HIDE DEF n
<1>7. run[r].pc \in Working /\ "act" \in Working  BY <1>1 DEF Working
<1>8. InStepOf(r)'
  BY <1>1, <1>5, <1>6 DEF BaseInv, InStep, InStepOf, Live, Creating, Complete, Accepting, Working
<1>9. QED  BY <1>1, <1>5, <1>6, <1>7, <1>8, RecordStands DEF Onward

\* Where a step of the loop stands: its service is one of the manifest.
LEMMA CreatingIs ==
  ASSUME BaseInv, NEW r \in Run, run[r].pc \in Creating
  PROVE  /\ run[r].pc \in Working /\ Current(r) \in Service /\ NameOf(r, Current(r)) \in Name
         /\ run[r].of \in Deployment /\ run[r].left # {}
<1>1. run[r].pc \in Working /\ run[r].left # {}
  BY DEF BaseInv, InStep, InStepOf, Creating, Working
<1>2. Current(r) \in Service  BY <1>1, CurrentIs DEF BaseInv
<1>3. run[r].copy \in Copy  BY Fields DEF BaseInv
<1>4. QED  BY <1>1, <1>2, <1>3, WorkingIs DEF NameOf, Name

\* pc of r becomes another step with nothing else of the run changed.
LEMMA GotoMoves ==
  ASSUME BaseInv, NEW r \in Run, NEW pc \in Working, Goto(r, pc), run[r].pc \in Working,
         \/ UNCHANGED <<record, aged>>
         \/ Save(r, run[r].ids),
         \/ run[r].pc \in Creating /\ pc = "queued" /\ Current(r) \in Database
         \/ run[r].pc \in {"write", "ready"} /\ pc \in {"ready", "deploy"}
  PROVE  Onward(r) /\ run'[r].pc = pc /\ run'[r].ids = run[r].ids
<1> DEFINE n == [run[r] EXCEPT !.pc = pc]
<1>1. run' \in [Run -> Attempt] /\ Others(r) /\ run'[r] = n
  BY GotoIs DEF BaseInv
<1>2. /\ n.pc = pc /\ n.ids = run[r].ids /\ n.of = run[r].of /\ n.copy = run[r].copy
      /\ n.value = run[r].value /\ n.left = run[r].left
  BY Fields DEF BaseInv, Attempt
<1> HIDE DEF n
<1>3. /\ record' \in [Deployment -> Record \cup {None}] /\ aged' \subseteq Deployment
      /\ \A d \in Deployment :
            record'[d] = IF d = run[r].of /\ Holds(r)
                         THEN [record[d] EXCEPT !.ids = run'[r].ids] ELSE record[d]
  <2>1. run[r].ids \in SUBSET Service  BY Fields DEF BaseInv
  <2>2. CASE UNCHANGED <<record, aged>>  BY <1>1, <1>2, <2>2, RecordStands
  <2>3. CASE Save(r, run[r].ids)  BY <1>1, <1>2, <2>1, <2>3, SaveIs DEF BaseInv
  <2>4. QED  BY <2>2, <2>3
<1>4. InStepOf(r)'
  BY <1>1, <1>2 DEF BaseInv, InStep, InStepOf, Current, Live, Creating, Complete, Accepting, Working
<1>5. QED  BY <1>1, <1>2, <1>3, <1>4 DEF Onward

\* A step of a run goes on or ends it.
Runs(r) == Onward(r) \/ Ends(r)

\* reuse,
LEMMA ReuseRuns == ASSUME BaseInv, NEW r \in Run, Reuse(r)
  PROVE Onward(r) /\ run'[r].pc \in {"look", "write"} /\ run[r].pc = "act"
        /\ run'[r].ids = run[r].ids \cup {Current(r)} /\ UNCHANGED <<branch, chain, up, history>>
<1>1. run[r].pc = "act" /\ Created(r, Current(r)) /\ UNCHANGED <<branch, chain, up, history>>
  BY DEF Reuse, At
<1>2. QED  BY <1>1, CreatedIs DEF Creating

\* a conflict,
LEMMA ConflictRuns == ASSUME BaseInv, NEW r \in Run, Conflict(r)
  PROVE Ends(r) /\ run[r].pc = "act" /\ UNCHANGED <<branch, chain, up, history>>
BY FailIs DEF Conflict, At, Working

\* addComputeService,
LEMMA AddWebRuns == ASSUME BaseInv, NEW r \in Run, AddWeb(r)
  PROVE /\ run[r].pc = "act" /\ Current(r) \in Web /\ UNCHANGED <<secret, app, chain, up, history>>
        /\ \/ /\ Onward(r) /\ run'[r].pc \in {"look", "write"} /\ run'[r].ids = run[r].ids \cup {Current(r)}
              /\ owner[NameOf(r, Current(r))] = None
              /\ owner' = [owner EXCEPT ![NameOf(r, Current(r))] = run[r].of]
              /\ maker' = [maker EXCEPT ![NameOf(r, Current(r))] = run[r].of]
           \/ Ends(r) /\ UNCHANGED <<owner, maker>>
<1>1. run[r].pc = "act" /\ Current(r) \in Web /\ UNCHANGED <<secret, app, chain, up, history>>
  BY DEF AddWeb, At
<1>2. run[r].pc \in Creating /\ run[r].pc \in Working  BY <1>1 DEF Creating, Working
<1>3. QED  BY <1>1, <1>2, CreatedIs, FailIs DEF AddWeb, Registrable

\* the call of addDbService,
LEMMA CallDbRuns == ASSUME BaseInv, NEW r \in Run, CallDb(r)
  PROVE Onward(r) /\ run'[r].pc = "queued" /\ run[r].pc = "act" /\ run'[r].ids = run[r].ids
        /\ UNCHANGED <<branch, chain, up, history>>
<1>1. /\ run[r].pc = "act" /\ Goto(r, "queued") /\ Current(r) \in Database
      /\ UNCHANGED <<record, aged, branch, chain, up, history>>
  BY DEF CallDb, At
<1>2. run[r].pc \in Creating /\ run[r].pc \in Working /\ "queued" \in Working
  BY <1>1 DEF Creating, Working
<1>3. QED  BY <1>1, <1>2, GotoMoves

\* its registration,
LEMMA AddDbRuns == ASSUME BaseInv, NEW r \in Run, AddDb(r)
  PROVE LET x == NameOf(r, Current(r)) IN
        /\ run[r].pc = "queued" /\ chain = None /\ UNCHANGED <<maker, secret, app, up, history>>
        /\ \/ /\ Onward(r) /\ run'[r].pc = "provisioning" /\ run'[r].ids = run[r].ids /\ chain' = r
              /\ Current(r)' = Current(r)
              /\ maker[x] = None /\ owner' = [owner EXCEPT ![x] = IF @ = None THEN run[r].of ELSE @]
           \/ Ends(r) /\ UNCHANGED <<owner, chain>>
<1> DEFINE x == NameOf(r, Current(r))
           n == [run[r] EXCEPT !.pc = "provisioning", !.mine = owner[x] = None]
<1>1. run[r].pc = "queued" /\ chain = None /\ UNCHANGED <<maker, secret, app, up, history>>
      /\ run[r].pc \in Working /\ run[r].pc \in Creating
  BY DEF AddDb, At, Working, Creating
<1>2. CASE /\ maker[x] = None
           /\ owner' = [owner EXCEPT ![x] = IF @ = None THEN run[r].of ELSE @]
           /\ chain' = r
           /\ run' = [run EXCEPT ![r].pc = "provisioning", ![r].mine = owner[x] = None]
           /\ UNCHANGED <<record, aged>>
  <2>1. run' = [run EXCEPT ![r] = n] /\ run \in [Run -> Attempt]  BY <1>2 DEF BaseInv, TypeOK
  <2>2. n \in Attempt  BY <2>1, Fields DEF BaseInv, Attempt, Working
  <2>3. run'[r] = n /\ run' \in [Run -> Attempt] /\ Others(r)  BY <2>1, <2>2 DEF Others
  <2>4. /\ n.pc = "provisioning" /\ n.ids = run[r].ids /\ n.of = run[r].of /\ n.copy = run[r].copy
        /\ n.value = run[r].value /\ n.left = run[r].left
    BY <2>1 DEF Attempt
  <2> HIDE DEF n
  <2>5. Current(r)' = Current(r)  BY <2>3, <2>4 DEF Current
  <2>6. InStepOf(r)'
    BY <1>1, <2>3, <2>4, <2>5 DEF BaseInv, InStep, InStepOf, Live, Creating, Complete, Accepting, Working
  <2>7. "provisioning" \in Working  BY DEF Working
  <2>8. Onward(r)  BY <1>1, <1>2, <2>3, <2>4, <2>6, <2>7, RecordStands DEF Onward
  <2>9. QED  BY <1>1, <1>2, <2>3, <2>4, <2>5, <2>8
<1>3. CASE maker[x] # None /\ Fail(r) /\ UNCHANGED <<owner, chain>>
  BY <1>1, <1>3, FailIs
<1>4. QED  BY <1>2, <1>3 DEF AddDb

\* its end,
LEMMA ProvisionedRuns == ASSUME BaseInv, NEW r \in Run, Provisioned(r)
  PROVE LET x == NameOf(r, Current(r)) IN
        /\ run[r].pc = "provisioning" /\ chain' = None /\ UNCHANGED <<secret, app, up, history>>
        /\ \/ /\ Onward(r) /\ run'[r].pc \in {"look", "write"} /\ run'[r].ids = run[r].ids \cup {Current(r)}
              /\ maker' = [maker EXCEPT ![x] = run[r].of] /\ UNCHANGED owner
           \/ /\ Ends(r) /\ UNCHANGED maker
              /\ owner' = [owner EXCEPT ![x] = IF run[r].mine THEN None ELSE @]
<1>1. run[r].pc = "provisioning" /\ chain' = None /\ UNCHANGED <<secret, app, up, history>>
  BY DEF Provisioned, At, LeaveChain
<1>2. run[r].pc \in Creating /\ run[r].pc \in Working  BY <1>1 DEF Creating, Working
<1>3. QED  BY <1>1, <1>2, CreatedIs, FailIs DEF Provisioned

\* write_variables,
LEMMA WriteRuns == ASSUME BaseInv, NEW r \in Run, Write(r)
  PROVE /\ run[r].pc = "write" /\ UNCHANGED <<owner, maker, app, chain, up, overtaken, removed>>
        /\ \/ Onward(r) /\ run'[r].pc = "ready" /\ run'[r].ids = run[r].ids /\ WriteEnv(r)
           \/ Ends(r) /\ UNCHANGED <<secret, tainted>>
<1>1. run[r].pc = "write" /\ UNCHANGED <<owner, maker, app, chain, up, overtaken, removed>>
  BY DEF Write, At
<1>2. run[r].pc \in Complete /\ run[r].pc \in Working /\ "ready" \in Working
  BY <1>1 DEF Complete, Working
<1>3. CASE WriteEnv(r) /\ Save(r, run[r].ids) /\ Goto(r, "ready")
  BY <1>1, <1>2, <1>3, GotoMoves
<1>4. CASE Fail(r) /\ UNCHANGED <<secret, tainted>>  BY <1>1, <1>2, <1>4, FailIs
<1>5. QED  BY <1>3, <1>4 DEF Write

\* awaitDbReady,
LEMMA ReadyRuns == ASSUME BaseInv, NEW r \in Run, Ready(r)
  PROVE /\ run[r].pc = "ready" /\ UNCHANGED <<branch, chain, up, history>>
        /\ \/ /\ Onward(r) /\ run'[r].pc = "deploy" /\ run'[r].ids = run[r].ids
              /\ \A s \in Database : Listed(NameOf(r, s))
           \/ Ends(r)
<1>1. run[r].pc = "ready" /\ UNCHANGED <<branch, chain, up, history>>
  BY DEF Ready, At
<1>2. run[r].pc \in Working /\ "deploy" \in Working
  BY <1>1 DEF Working
<1>3. CASE (\A s \in Database : Listed(NameOf(r, s))) /\ Save(r, run[r].ids) /\ Goto(r, "deploy")
  BY <1>1, <1>2, <1>3, GotoMoves
<1>4. CASE Fail(r)  BY <1>1, <1>2, <1>4, FailIs
<1>5. QED  BY <1>3, <1>4 DEF Ready

\* deploy,
LEMMA DeployRuns == ASSUME BaseInv, NEW r \in Run, Deploy(r)
  PROVE LET x == NameOf(r, Current(r)) IN
        /\ run[r].pc = "deploy" /\ Current(r) \in Web /\ UNCHANGED <<owner, secret, chain, up, history>>
        /\ \/ /\ Onward(r) /\ run'[r].pc \in {"deploy", "health"} /\ run'[r].ids = run[r].ids
              /\ app' = [app EXCEPT ![x] = [by |-> run[r].of, value |-> Injected(x)]]
              /\ maker' = [maker EXCEPT ![x] = IF @ = None THEN run[r].of ELSE @]
           \/ Ends(r) /\ UNCHANGED maker /\ (app' = [app EXCEPT ![x] = None] \/ UNCHANGED app)
<1> DEFINE s == Current(r)
           x == NameOf(r, s)
<1>1. run[r].pc = "deploy" /\ UNCHANGED <<owner, secret, chain, up, history>>
  BY DEF Deploy, At
<1>2. /\ run[r].pc \in Working /\ run[r].left # {} /\ run[r].left \subseteq Web
      /\ run[r].ids = Service /\ TypeOK
  BY <1>1 DEF Working, BaseInv, InStep, InStepOf, Complete
<1>3. s \in Web /\ s \in run[r].left /\ s \in Service  BY <1>2, CurrentIs
<1>4. CASE /\ app' = [app EXCEPT ![x] = [by |-> run[r].of, value |-> Injected(x)]]
           /\ maker' = [maker EXCEPT ![x] = IF @ = None THEN run[r].of ELSE @]
           /\ Save(r, run[r].ids)
           /\ Served(r, s, run[r].ids, "deploy", "health", Web)
  <2> HIDE DEF s, x
  <2>1. "deploy" \in Working /\ "health" \in Working /\ Web \in SUBSET Service
        /\ run[r].ids \in SUBSET Service
    BY <1>2 DEF Working, Web
  <2>2. /\ run' \in [Run -> Attempt] /\ Others(r)
        /\ run'[r].of = run[r].of /\ run'[r].copy = run[r].copy /\ run'[r].value = run[r].value
        /\ run'[r].ids = run[r].ids
        /\ run'[r].pc = IF run[r].left \ {s} = {} THEN "health" ELSE "deploy"
        /\ run'[r].left = IF run[r].left \ {s} = {} THEN Web ELSE run[r].left \ {s}
    BY <1>2, <1>3, <1>4, <2>1, ServedIs
  <2>3. /\ record' \in [Deployment -> Record \cup {None}] /\ aged' \subseteq Deployment
        /\ \A d \in Deployment :
              record'[d] = IF d = run[r].of /\ Holds(r)
                           THEN [record[d] EXCEPT !.ids = run[r].ids] ELSE record[d]
    BY <1>2, <1>4, <2>1, SaveIs
  <2>4. run[r].of \in Deployment  BY <1>2, WorkingIs
  <2>5. InStepOf(r)'
    BY <1>2, <2>2, <2>4 DEF InStepOf, Live, Creating, Complete, Accepting, Working
  <2>6. Onward(r)  BY <1>2, <2>1, <2>2, <2>3, <2>5 DEF Onward
  <2>7. QED  BY <1>1, <1>3, <1>4, <2>2, <2>6 DEF s, x
<1>5. CASE (app' = [app EXCEPT ![x] = None] \/ UNCHANGED app) /\ Fail(r) /\ UNCHANGED maker
  BY <1>1, <1>2, <1>3, <1>5, FailIs
<1>6. QED  BY <1>4, <1>5 DEF Deploy

\* health_check.
LEMMA HealthRuns == ASSUME BaseInv, NEW r \in Run, Health(r)
  PROVE /\ run[r].pc = "health" /\ Ends(r) /\ UNCHANGED <<branch, chain, up, history>>
        /\ \/ \A s \in Web : CanAnswer(NameOf(r, s))
           \/ Fail(r)
<1>1. run[r].pc = "health" /\ UNCHANGED <<branch, chain, up, history>>
  BY DEF Health, At
<1>2. run[r].pc \in Working  BY <1>1 DEF Working
<1>3. CASE (\A s \in Web : CanAnswer(NameOf(r, s))) /\ Finish(r, "succeeded")
  BY <1>1, <1>2, <1>3, WorkingIs, FinishIs DEF BaseInv, Ends
<1>4. CASE Fail(r)  BY <1>1, <1>2, <1>4, FailIs
<1>5. QED  BY <1>3, <1>4 DEF Health

-------------------------------------------------------------------------------
\* Types.

\* A step of a run keeps the types when it keeps those of the branch and the chain.
LEMMA RunsTyped ==
  ASSUME BaseInv, NEW r \in Run, Runs(r), up' = up, UNCHANGED <<overtaken, removed>>,
         owner' \in [Name -> Owner \cup {None}], maker' \in [Name -> Owner \cup {None}],
         secret' \in [Web -> Binding \cup {None}], app' \in [Name -> Container \cup {None}],
         tainted' \subseteq Name,
         \/ chain' = chain /\ run[r].pc # "provisioning" /\ run'[r].pc # "provisioning"
         \/ chain = None /\ chain' = r /\ run'[r].pc = "provisioning"
         \/ chain' = None /\ run[r].pc = "provisioning" /\ run'[r].pc # "provisioning"
  PROVE  BaseInv'
<1>1. InStep' /\ DownIsQuiet' /\ Claims'  BY OnwardKeeps, EndsKeeps DEF Runs
<1>2. /\ run' \in [Run -> Attempt] /\ Others(r)
      /\ record' \in [Deployment -> Record \cup {None}] /\ aged' \subseteq Deployment
  BY DEF Runs, Onward, Ends
<1>3. chain' \in Run \cup {None} /\ \A q \in Run : chain' = q <=> run'[q].pc = "provisioning"
  BY <1>2, ExecutorAssumption DEF BaseInv, TypeOK, At, Others
<1>4. TypeOK'  BY <1>2, <1>3 DEF BaseInv, TypeOK, At
<1>5. QED  BY <1>1, <1>4 DEF BaseInv

\* A run that ends has ended.
LEMMA EndsPc == ASSUME NEW r \in Run, Ends(r) PROVE run'[r].pc = "ended"
BY EndedIs DEF Ends

\* Every step of a run keeps the base.
LEMMA StepKeepsBase == ASSUME BaseInv, NEW r \in Run, Step(r) PROVE BaseInv'
<1> DEFINE x == NameOf(r, Current(r))
<1>0. /\ owner \in [Name -> Owner \cup {None}] /\ maker \in [Name -> Owner \cup {None}]
      /\ secret \in [Web -> Binding \cup {None}] /\ app \in [Name -> Container \cup {None}]
      /\ tainted \subseteq Name /\ \A q \in Run : chain = q <=> run[q].pc = "provisioning"
  BY DEF BaseInv, TypeOK, At
<1>1. CASE Look(r)
  <2>1. run[r].pc = "look"  BY <1>1 DEF Look, At
  <2>2. QED  BY <1>0, <1>1, <2>1, LookMoves, RunsTyped DEF Runs, branch, history
<1>2. CASE Reuse(r)
  BY <1>0, <1>2, ReuseRuns, RunsTyped DEF Runs, branch, history
<1>3. CASE Conflict(r)
  BY <1>0, <1>3, ConflictRuns, EndsPc, RunsTyped DEF Runs, branch, history
<1>4. CASE AddWeb(r)
  <2>1. run[r].pc \in Creating  BY <1>4, AddWebRuns DEF Creating
  <2>2. run[r].of \in Owner  BY <2>1, CreatingIs DEF Owner
  <2>3. owner' \in [Name -> Owner \cup {None}] /\ maker' \in [Name -> Owner \cup {None}]
    BY <1>0, <1>4, <2>2, AddWebRuns
  <2>4. QED  BY <1>0, <1>4, <2>3, AddWebRuns, EndsPc, RunsTyped DEF Runs, history
<1>5. CASE CallDb(r)
  BY <1>0, <1>5, CallDbRuns, RunsTyped DEF Runs, branch, history
<1>6. CASE AddDb(r)
  <2>1. run[r].pc \in Creating  BY <1>6, AddDbRuns DEF Creating
  <2>2. run[r].of \in Owner /\ x \in Name  BY <2>1, CreatingIs DEF Owner
  <2>3. owner' \in [Name -> Owner \cup {None}]
    BY <1>0, <1>6, <2>2, AddDbRuns
  <2>4. QED  BY <1>0, <1>6, <2>3, AddDbRuns, EndsPc, RunsTyped DEF Runs, history
<1>7. CASE Provisioned(r)
  <2>1. run[r].pc \in Creating  BY <1>7, ProvisionedRuns DEF Creating
  <2>2. run[r].of \in Owner /\ x \in Name  BY <2>1, CreatingIs DEF Owner
  <2>3. owner' \in [Name -> Owner \cup {None}] /\ maker' \in [Name -> Owner \cup {None}]
    BY <1>0, <1>7, <2>2, ProvisionedRuns
  <2>4. QED  BY <1>0, <1>7, <2>3, ProvisionedRuns, EndsPc, RunsTyped DEF Runs, history
<1>8. CASE Write(r)
  <2>1. run[r].pc = "write"  BY <1>8, WriteRuns
  <2>2. run[r].copy \in Copy /\ run[r].value \in Run \cup {0}  BY Fields DEF BaseInv
  <2>3. ASSUME WriteEnv(r) PROVE secret' \in [Web -> Binding \cup {None}] /\ tainted' \subseteq Name
    <3>1. (IF run[r].value = 0 THEN r ELSE run[r].value) \in Run  BY <2>2
    <3>2. secret' \in [Web -> Binding \cup {None}]
      BY <2>2, <2>3, <3>1 DEF WriteEnv, Binding
    <3>3. \A s \in Web : secret[s] # None => <<s, secret[s].copy>> \in Name
      BY <1>0 DEF Name, Web, Binding
    <3>4. tainted' \subseteq Name  BY <1>0, <2>3, <3>3 DEF WriteEnv
    <3>5. QED  BY <3>2, <3>4
  <2>4. QED  BY <1>0, <1>8, <2>3, WriteRuns, EndsPc, RunsTyped DEF Runs
<1>9. CASE Ready(r)
  BY <1>0, <1>9, ReadyRuns, EndsPc, RunsTyped DEF Runs, branch, history
<1>10. CASE Deploy(r)
  <2>1. run[r].pc \in Working /\ run[r].pc = "deploy" /\ Current(r) \in Web
    BY <1>10, DeployRuns DEF Working
  <2>2. run[r].of \in Deployment /\ run[r].of \in Owner /\ x \in Name
    BY <2>1, WorkingIs, Fields DEF BaseInv, Owner, NameOf, Name, Web
  <2>3. Injected(x) \in Run \cup {0}
    <3>1. x[1] \in Web  BY <2>1 DEF NameOf
    <3>2. QED  BY <1>0, <3>1 DEF Injected, Binding
  <2>4. [by |-> run[r].of, value |-> Injected(x)] \in Container  BY <2>2, <2>3 DEF Container
  <2> HIDE DEF x
  <2>5. app' \in [Name -> Container \cup {None}] /\ maker' \in [Name -> Owner \cup {None}]
    BY <1>0, <1>10, <2>2, <2>4, DeployRuns DEF x
  <2>6. QED  BY <1>0, <1>10, <2>1, <2>5, DeployRuns, EndsPc, RunsTyped DEF Runs, history
<1>11. CASE Health(r)
  BY <1>0, <1>11, HealthRuns, EndsPc, RunsTyped DEF Runs, branch, history
<1>12. QED
  BY <1>1, <1>2, <1>3, <1>4, <1>5, <1>6, <1>7, <1>8, <1>9, <1>10, <1>11 DEF Step

\* Before it works a run changes itself alone, which the records do not see.
LEMMA AcceptingKeeps ==
  ASSUME BaseInv, NEW r \in Run, run' \in [Run -> Attempt], Others(r),
         run[r].pc \in {"idle"} \cup Accepting, run'[r].pc \in Accepting \cup {"ended"},
         InStepOf(r)', up' = up, run[r].pc = "idle" => up,
         overtaken' \subseteq Deployment,
         UNCHANGED <<record, aged, branch, chain, tainted, removed>>
  PROVE  BaseInv'
<1>1. run[r].pc \notin Working \cup {"ended"} /\ run'[r].pc # "provisioning" /\ run[r].pc # "provisioning"
      /\ run'[r].pc # "idle"
  BY DEF Accepting, Working
<1>2. TypeOK'
  BY <1>1 DEF BaseInv, TypeOK, At, Others, branch
<1>3. InStep'
  <2>1. ASSUME NEW q \in Run, q # r PROVE InStepOf(q)'
    BY <2>1 DEF Others, BaseInv, InStep, InStepOf, Live, Current
  <2>2. QED  BY <2>1 DEF InStep
<1>4. DownIsQuiet'
  BY DEF BaseInv, DownIsQuiet, Others, Live, Accepting, Working
<1>5. Claims'
  BY <1>1 DEF BaseInv, TypeOK, Claims, ClaimsOf, Others, Record
<1>6. QED  BY <1>2, <1>3, <1>4, <1>5 DEF BaseInv

\* A call begins with the record's copy and services, and with a value the branch still has.
LEMMA RecoveredIs ==
  ASSUME TypeOK, NEW d \in Deployment, record[d] # None
  PROVE  Recovered(record[d]) \subseteq Run
BY DEF TypeOK, Recovered, Binding

\* A call that is being accepted.
Asked(d) ==
    IF record[d] = None THEN [Idle EXCEPT !.pc = "accepting", !.of = d]
    ELSE LET old == Recovered(record[d]) IN
         [Idle EXCEPT !.pc = "accepting", !.of = d, !.copy = record[d].copy,
                      !.ids = record[d].ids,
                      !.value = IF old = {} THEN 0 ELSE CHOOSE v \in old : TRUE]

\* A call has its type.
LEMMA AskedIs ==
  ASSUME TypeOK, NEW d \in Deployment
  PROVE  LET n == Asked(d) IN
         /\ n \in Attempt /\ n.pc = "accepting" /\ n.of = d /\ n.left = {}
         /\ record[d] = None => n.ids = {}
         /\ record[d] # None => n.copy = record[d].copy /\ n.ids = record[d].ids
         /\ record[d] # None =>
               n.value = IF Recovered(record[d]) = {} THEN 0 ELSE CHOOSE v \in Recovered(record[d]) : TRUE
<1> DEFINE old == Recovered(record[d])
           w == IF old = {} THEN 0 ELSE CHOOSE v \in old : TRUE
<1>1. CASE record[d] = None
  <2>1. Asked(d) = [Idle EXCEPT !.pc = "accepting", !.of = d]  BY <1>1 DEF Asked
  <2>2. QED  BY <1>1, <2>1, RunTyped DEF Idle, Attempt, Accepting
<1>2. CASE record[d] # None
  <2>1. record[d] \in Record /\ record[d].copy \in Copy /\ record[d].ids \subseteq Service
    BY <1>2 DEF TypeOK, Record
  <2>2. w \in Run \cup {0}
    <3>1. old \subseteq Run  BY <1>2, RecoveredIs
    <3> HIDE DEF old
    <3>2. QED  BY <3>1
  <2>3. Asked(d) = [Idle EXCEPT !.pc = "accepting", !.of = d, !.copy = record[d].copy,
                                !.ids = record[d].ids, !.value = w]
    BY <1>2 DEF Asked
  <2> HIDE DEF w
  <2>4. QED  BY <1>2, <2>1, <2>2, <2>3, RunTyped DEF Idle, Attempt, Accepting, w
<1>3. QED  BY <1>1, <1>2

\* What a call changes.
LEMMA AskIs == ASSUME BaseInv, NEW d \in Deployment, Ask(d)
  PROVE \E r \in Run :
          /\ run[r].pc = "idle" /\ run' \in [Run -> Attempt] /\ Others(r) /\ run'[r] = Asked(d)
<1>1. PICK r \in Run : At(r, "idle") /\ run' = [run EXCEPT ![r] = Asked(d)]
  BY Zenon DEF Ask, Asked
<1>2. QED  BY <1>1, AskedIs DEF BaseInv, TypeOK, At, Others

\* A call keeps the base,
LEMMA AskKeepsBase == ASSUME BaseInv, NEW d \in Deployment, Ask(d) PROVE BaseInv'
<1>1. /\ up /\ UNCHANGED <<record, aged, branch, chain, up, tainted, removed>>
      /\ overtaken' = IF \E q \in Run : Lives(q, d) THEN overtaken \cup {d} ELSE overtaken
  BY DEF Ask
<1>2. PICK r \in Run :
          /\ run[r].pc = "idle" /\ run' \in [Run -> Attempt] /\ Others(r) /\ run'[r] = Asked(d)
  BY AskIs, Zenon
<1>3. TypeOK /\ Asked(d).pc = "accepting" /\ Asked(d).of = d  BY AskedIs DEF BaseInv
<1>8. run'[r].pc = "accepting" /\ run'[r].of = d  BY <1>2, <1>3
<1>4. InStepOf(r)'
  BY <1>8 DEF InStepOf, Creating, Complete
<1>5. overtaken' \subseteq Deployment  BY <1>1, <1>3 DEF TypeOK
<1>6. run'[r].pc \in Accepting \cup {"ended"}  BY <1>8 DEF Accepting
<1>7. QED  BY <1>1, <1>2, <1>4, <1>5, <1>6, AcceptingKeeps

\* What a refusal changes.
LEMMA RefuseIs == ASSUME BaseInv, NEW r \in Run, Refuse(r)
  PROVE /\ run[r].pc = "accepting" /\ run' \in [Run -> Attempt] /\ Others(r)
        /\ run'[r] = [Idle EXCEPT !.pc = "ended"]
        /\ UNCHANGED <<record, aged, branch, chain, up, history>>
BY RunTyped DEF BaseInv, TypeOK, Refuse, At, Others

\* and a refusal,
LEMMA RefuseKeepsBase == ASSUME BaseInv, NEW r \in Run, Refuse(r) PROVE BaseInv'
<1>1. run'[r].pc = "ended" /\ run'[r].ids = {}  BY RefuseIs, EndedIs
<1>2. InStepOf(r)'  BY <1>1 DEF InStepOf, Live, Accepting, Working, Creating, Complete
<1>3. QED
  BY <1>1, <1>2, RefuseIs, AcceptingKeeps DEF Accepting, BaseInv, TypeOK, history

\* What minting the names changes.
LEMMA MintIs == ASSUME BaseInv, NEW r \in Run, Mint(r)
  PROVE /\ run[r].pc = "accepting" /\ run' \in [Run -> Attempt] /\ Others(r)
        /\ run'[r].pc = "minted" /\ run'[r].of = run[r].of /\ run'[r].ids = run[r].ids
        /\ run'[r].value = run[r].value /\ run'[r].copy \in MintedCopies(r)
        /\ UNCHANGED <<record, aged, branch, chain, up, history>>
<1> DEFINE c == CHOOSE m \in MintedCopies(r) : \A k \in MintedCopies(r) : m <= k
           n == [run[r] EXCEPT !.pc = "minted", !.copy = c]
<1>0. /\ run \in [Run -> Attempt] /\ run[r].pc = "accepting"
      /\ run' = [run EXCEPT ![r].pc = "minted", ![r].copy = c]
      /\ MintedCopies(r) # {} /\ UNCHANGED <<record, aged, branch, chain, up, history>>
  BY Zenon DEF BaseInv, TypeOK, Mint, At
<1>2. c \in MintedCopies(r) /\ c \in Copy  BY <1>0, CopyIs DEF BaseInv
<1> HIDE DEF c
<1>1. /\ run \in [Run -> Attempt] /\ run[r].pc = "accepting" /\ run' = [run EXCEPT ![r] = n]
      /\ UNCHANGED <<record, aged, branch, chain, up, history>>
  BY <1>0
<1>3. n \in Attempt /\ n.pc = "minted" /\ n.of = run[r].of /\ n.ids = run[r].ids
      /\ n.value = run[r].value /\ n.copy = c
  BY <1>1, <1>2 DEF Attempt, Accepting
<1> HIDE DEF n
<1>4. run'[r] = n /\ run' \in [Run -> Attempt] /\ Others(r)  BY <1>1, <1>3 DEF Others
<1>5. QED  BY <1>1, <1>2, <1>3, <1>4

\* minting,
LEMMA MintKeepsBase == ASSUME BaseInv, NEW r \in Run, Mint(r) PROVE BaseInv'
<1>1. run'[r].pc = "minted" /\ run'[r].of = run[r].of  BY MintIs
<1>2. run[r].of \in Deployment  BY MintIs DEF BaseInv, InStep, InStepOf, Live, Accepting
<1>3. InStepOf(r)'  BY <1>1, <1>2 DEF InStepOf, Live, Accepting, Working, Creating, Complete
<1>4. QED
  BY <1>1, <1>3, MintIs, AcceptingKeeps DEF Accepting, BaseInv, TypeOK, history

\* What writing the record changes.
LEMMA ClaimIs == ASSUME BaseInv, NEW r \in Run, Claim(r)
  PROVE LET d == run[r].of
            row == [status |-> "running", claim |-> r, copy |-> run[r].copy, ids |-> run[r].ids]
        IN
        /\ run[r].pc = "minted" /\ d \in Deployment /\ row \in Record
        /\ run' \in [Run -> Attempt] /\ Others(r)
        /\ run'[r] = [run[r] EXCEPT !.pc = "look", !.left = Service]
        /\ run'[r].pc = "look" /\ run'[r].left = Service /\ run'[r].of = d
        /\ run'[r].copy = run[r].copy /\ run'[r].ids = run[r].ids /\ run'[r].value = run[r].value
        /\ record' = [record EXCEPT ![d] = row] /\ aged' = aged \ {d}
        /\ UNCHANGED <<branch, chain, up, history>>
<1> DEFINE d == run[r].of
           row == [status |-> "running", claim |-> r, copy |-> run[r].copy, ids |-> run[r].ids]
           n == [run[r] EXCEPT !.pc = "look", !.left = Service]
<1>1. /\ run \in [Run -> Attempt] /\ run' = [run EXCEPT ![r] = n] /\ run[r].pc = "minted"
      /\ record' = [record EXCEPT ![d] = row] /\ aged' = aged \ {d}
      /\ UNCHANGED <<branch, chain, up, history>>
  BY DEF BaseInv, TypeOK, Claim, At
<1>2. d \in Deployment  BY <1>1 DEF BaseInv, InStep, InStepOf, Live, Accepting
<1>3. row \in Record  BY Fields DEF BaseInv, Record
<1>4. n \in Attempt /\ n.pc = "look" /\ n.left = Service /\ n.of = d /\ n.copy = run[r].copy
      /\ n.ids = run[r].ids /\ n.value = run[r].value
  BY <1>1 DEF Attempt, Working
<1>5. run'[r] = n /\ run' \in [Run -> Attempt] /\ Others(r)  BY <1>1, <1>4 DEF Others
<1> HIDE DEF n, row
<1>6. QED  BY <1>1, <1>2, <1>3, <1>4, <1>5 DEF n, row

\* writing the record,
LEMMA ClaimKeepsBase == ASSUME BaseInv, NEW r \in Run, Claim(r) PROVE BaseInv'
<1> PICK d \in Deployment : d = run[r].of  BY ClaimIs
<1> DEFINE row == [status |-> "running", claim |-> r, copy |-> run[r].copy, ids |-> run[r].ids]
<1>1. /\ run[r].pc = "minted" /\ d \in Deployment /\ row \in Record
      /\ run' \in [Run -> Attempt] /\ Others(r)
      /\ run'[r].pc = "look" /\ run'[r].left = Service /\ run'[r].of = d
      /\ run'[r].copy = run[r].copy /\ run'[r].ids = run[r].ids
      /\ record' = [record EXCEPT ![d] = row] /\ aged' = aged \ {d}
      /\ UNCHANGED <<branch, chain, up, history>>
  BY ClaimIs
<1>2. TypeOK'
  BY <1>1 DEF BaseInv, TypeOK, At, Others, branch, history
<1>3. Service # {}  BY ExecutorAssumption DEF Web
<1>4. InStep'
  <2>1. ASSUME NEW q \in Run, q # r PROVE InStepOf(q)'
    BY <1>1, <2>1 DEF Others, BaseInv, InStep, InStepOf, Live, Current
  <2>2. InStepOf(r)'  BY <1>1, <1>3 DEF InStepOf, Live, Creating, Complete
  <2>3. QED  BY <2>1, <2>2 DEF InStep
<1>5. DownIsQuiet'
  BY <1>1 DEF BaseInv, DownIsQuiet, Live, Accepting
<1>6. Claims'
  <2>1. ASSUME NEW e \in Deployment, e # d, record'[e] # None PROVE ClaimsOf(e)'
    <3>1. record'[e] = record[e] /\ record[e] \in Record /\ record[e].claim \in Run
      BY <1>1, <2>1 DEF BaseInv, TypeOK, Record
    <3>2. record[e].claim # r
      BY <1>1, <2>1, <3>1 DEF BaseInv, Claims, ClaimsOf, Working
    <3>3. run'[record[e].claim] = run[record[e].claim]  BY <3>1, <3>2, <1>1 DEF Others
    <3>4. QED  BY <1>1, <2>1, <3>1, <3>3 DEF BaseInv, Claims, ClaimsOf
  <2>2. ClaimsOf(d)'
    <3>1. record'[d] = row /\ row.claim = r /\ row.status = "running" /\ row.copy = run[r].copy
          /\ row.ids = run[r].ids
      BY <1>1 DEF BaseInv, TypeOK
    <3> HIDE DEF row
    <3>2. record'[d].claim = r /\ record'[d].status = "running" /\ record'[d].copy = run'[r].copy
          /\ record'[d].ids = run'[r].ids
      BY <1>1, <3>1
    <3>3. run'[r].pc \in Working  BY <1>1 DEF Working
    <3>4. QED  BY <1>1, <3>2, <3>3 DEF ClaimsOf
  <2>3. QED  BY <2>1, <2>2 DEF Claims, ClaimsOf
<1>7. QED  BY <1>2, <1>4, <1>5, <1>6 DEF BaseInv

\* the end of a lease,
LEMMA LeaseEndsKeepsBase == ASSUME BaseInv, NEW d \in Deployment, LeaseEnds(d) PROVE BaseInv'
<1>1. aged' \subseteq Deployment /\ UNCHANGED <<record, run, branch, chain, up, history>>
  BY DEF BaseInv, TypeOK, LeaseEnds
<1>2. QED
  BY <1>1 DEF BaseInv, TypeOK, InStep, InStepOf, DownIsQuiet, Claims, ClaimsOf, Live, Current, At,
              branch, history

\* What leaves runs and records alone keeps the base if it keeps its types.
LEMMA HandsKeepBase ==
  ASSUME BaseInv, UNCHANGED <<record, aged, run, chain, up, overtaken, tainted>>,
         owner' \in [Name -> Owner \cup {None}], maker' \in [Name -> Owner \cup {None}],
         secret' \in [Web -> Binding \cup {None}], app' \in [Name -> Container \cup {None}],
         removed' \subseteq Name
  PROVE  BaseInv'
BY DEF BaseInv, TypeOK, InStep, InStepOf, DownIsQuiet, Claims, ClaimsOf, Live, Current, At

\* Services added by hand keep it,
LEMMA AddByHandKeepsBase == ASSUME BaseInv, NEW x \in Name, AddByHand(x) PROVE BaseInv'
<1>1. User \in Owner  BY DEF Owner
<1>2. /\ owner' = [owner EXCEPT ![x] = IF @ = None THEN User ELSE @]
      /\ maker' = [maker EXCEPT ![x] = User]
      /\ UNCHANGED <<record, aged, run, secret, app, chain, up, history>>
  BY DEF AddByHand
<1>3. owner' \in [Name -> Owner \cup {None}] /\ maker' \in [Name -> Owner \cup {None}]
  BY <1>1, <1>2 DEF BaseInv, TypeOK
<1>4. QED  BY <1>2, <1>3, HandsKeepBase DEF BaseInv, TypeOK, history

\* and services removed.
LEMMA RemoveByHandKeepsBase == ASSUME BaseInv, NEW x \in Name, RemoveByHand(x) PROVE BaseInv'
BY HandsKeepBase DEF BaseInv, TypeOK, RemoveByHand

\* What a kill changes.
LEMMA KillIs == ASSUME BaseInv, Kill
  PROVE /\ up /\ up' = FALSE /\ chain' = None /\ run' \in [Run -> Attempt]
        /\ \A r \in Run : run'[r] = IF run[r].pc = "idle" THEN Idle ELSE [Idle EXCEPT !.pc = "ended"]
        /\ \A r \in Run : run'[r].pc \in {"idle", "ended"} /\ run'[r].ids = {}
        /\ \A r \in Run : run'[r].pc = "idle" => run[r].pc = "idle"
        /\ UNCHANGED <<record, aged, branch, history>>
<1>1. /\ up /\ up' = FALSE /\ chain' = None
      /\ run' = [r \in Run |-> IF run[r].pc = "idle" THEN Idle ELSE [Idle EXCEPT !.pc = "ended"]]
      /\ UNCHANGED <<record, aged, branch, history>>
  BY DEF Kill, At
<1>2. Idle.pc = "idle" /\ Idle.ids = {}  BY DEF Idle
<1>3. QED  BY <1>1, <1>2, EndedIs, RunTyped

\* A kill keeps the base,
LEMMA KillKeepsBase == ASSUME BaseInv, Kill PROVE BaseInv'
<1>1. TypeOK'
  <2>1. \A r \in Run : run'[r].pc # "provisioning"  BY KillIs
  <2>2. chain' \in Run \cup {None} /\ \A r \in Run : chain' = r <=> run'[r].pc = "provisioning"
    BY <2>1, KillIs, ExecutorAssumption
  <2>3. QED  BY <2>2, KillIs DEF BaseInv, TypeOK, At, branch, history
<1>2. InStep' /\ DownIsQuiet'
  BY KillIs DEF InStep, InStepOf, DownIsQuiet, Live, Accepting, Working, Creating, Complete
<1>3. Claims'
  <2> SUFFICES ASSUME NEW d \in Deployment, record'[d] # None PROVE ClaimsOf(d)'
    BY DEF Claims, ClaimsOf
  <2>1. record'[d] = record[d] /\ record[d].claim \in Run
    BY KillIs DEF BaseInv, TypeOK, Record
  <2>2. run[record[d].claim].pc # "idle"
    BY <2>1 DEF BaseInv, Claims, ClaimsOf, Working
  <2>3. QED  BY <2>1, <2>2, KillIs DEF ClaimsOf, Working
<1>4. QED  BY <1>1, <1>2, <1>3 DEF BaseInv

\* What abandonStale changes.
LEMMA BootIs == ASSUME BaseInv, Boot
  PROVE /\ ~up /\ up' = TRUE /\ aged' = {} /\ UNCHANGED <<run, branch, chain, history>>
        /\ record' \in [Deployment -> Record \cup {None}]
        /\ \A d \in Deployment : record[d] = None <=> record'[d] = None
        /\ \A d \in Deployment : record[d] # None =>
              /\ record'[d].claim = record[d].claim /\ record'[d].copy = record[d].copy
              /\ record'[d].ids = record[d].ids
              /\ record'[d].status = IF record[d].status = "running" THEN "failed" ELSE record[d].status
<1> DEFINE new(d) == IF record[d] # None /\ record[d].status = "running"
                     THEN [record[d] EXCEPT !.status = "failed"] ELSE record[d]
<1>1. /\ ~up /\ up' = TRUE /\ aged' = {} /\ UNCHANGED <<run, branch, chain, history>>
      /\ record' = [d \in Deployment |-> new(d)]
  BY DEF Boot
<1>2. ASSUME NEW d \in Deployment
      PROVE  /\ new(d) \in Record \cup {None} /\ (record[d] = None <=> new(d) = None)
             /\ record[d] # None =>
                  /\ new(d).claim = record[d].claim /\ new(d).copy = record[d].copy
                  /\ new(d).ids = record[d].ids
                  /\ new(d).status = IF record[d].status = "running" THEN "failed" ELSE record[d].status
  <2>1. record[d] \in Record \cup {None} /\ None \notin Record
    BY ExecutorAssumption DEF BaseInv, TypeOK
  <2>2. QED  BY <2>1 DEF Record
<1> HIDE DEF new
<1>3. QED  BY <1>1, <1>2

\* and a start.
LEMMA BootKeepsBase == ASSUME BaseInv, Boot PROVE BaseInv'
<1>1. TypeOK'
  BY BootIs DEF BaseInv, TypeOK, At, branch, history
<1>2. InStep' /\ DownIsQuiet'
  BY BootIs DEF BaseInv, InStep, InStepOf, DownIsQuiet, Live, Current
<1>3. Claims'
  <2> SUFFICES ASSUME NEW d \in Deployment, record'[d] # None PROVE ClaimsOf(d)'
    BY DEF Claims, ClaimsOf
  <2>1. record[d] # None /\ record[d].claim \in Run /\ record[d].status \in {"running", "failed", "succeeded"}
    BY BootIs DEF BaseInv, TypeOK, Record
  <2>2. run[record[d].claim].pc \notin Working
    BY <2>1, BootIs DEF BaseInv, DownIsQuiet, Live
  <2>3. QED  BY <2>1, <2>2, BootIs DEF BaseInv, Claims, ClaimsOf
<1>4. QED  BY <1>1, <1>2, <1>3 DEF BaseInv

\* The base holds at first,
LEMMA InitBase == Init => BaseInv
<1> SUFFICES ASSUME Init PROVE BaseInv  OBVIOUS
<1>1. \A r \in Run : run[r] = Idle /\ run[r].pc = "idle" /\ run[r].ids = {}  BY DEF Init, Idle
<1>2. TypeOK
  BY <1>1, RunTyped, ExecutorAssumption DEF Init, TypeOK, At
<1>3. InStep /\ DownIsQuiet
  BY <1>1 DEF Init, InStep, InStepOf, DownIsQuiet, Live, Accepting, Working, Creating, Complete
<1>4. Claims  BY DEF Init, Claims, ClaimsOf
<1>5. QED  BY <1>2, <1>3, <1>4 DEF BaseInv

\* and every step keeps it.
LEMMA NextKeepsBase == BaseInv /\ [Next]_vars => BaseInv'
<1> SUFFICES ASSUME BaseInv, [Next]_vars PROVE BaseInv'  OBVIOUS
<1>1. CASE UNCHANGED vars
  BY <1>1 DEF vars, branch, history, BaseInv, TypeOK, InStep, InStepOf, DownIsQuiet, Claims, ClaimsOf,
              Live, Current, At
<1>2. CASE \E d \in Deployment : Ask(d) \/ LeaseEnds(d)
  BY <1>2, AskKeepsBase, LeaseEndsKeepsBase
<1>3. CASE \E r \in Run : Refuse(r) \/ Mint(r) \/ Claim(r) \/ Step(r)
  BY <1>3, RefuseKeepsBase, MintKeepsBase, ClaimKeepsBase, StepKeepsBase
<1>4. CASE \E x \in Name : AddByHand(x) \/ RemoveByHand(x)
  BY <1>4, AddByHandKeepsBase, RemoveByHandKeepsBase
<1>5. CASE Kill \/ Boot  BY <1>5, KillKeepsBase, BootKeepsBase
<1>6. QED  BY <1>1, <1>2, <1>3, <1>4, <1>5 DEF Next

\* While the daemon runs, a record reads running exactly while the run that claimed it lives:
\* abandonStale leaves no record running forever, and a run that was overtaken marks nothing.
THEOREM RunningTheorem == Spec => []RunningIsLive
<1>1. BaseInv => RunningIsLive
  BY DEF BaseInv, TypeOK, Record, Claims, ClaimsOf, RunningIsLive, Lives
<1>2. QED  BY <1>1, InitBase, NextKeepsBase, PTL DEF Spec

-------------------------------------------------------------------------------
\* Records and copies.

\* The apps among what a deployment created stay its own, unless somebody removed them.
Earned(d, ids, copy) ==
    \A s \in ids \cap Web : <<s, copy>> \in removed \/ maker[<<s, copy>>] = d
RunsEarned == \A r \in Run : Earned(run[r].of, run[r].ids, run[r].copy)
RecordsEarned ==
    \A d \in Deployment : record[d] # None => Earned(d, record[d].ids, record[d].copy)

\* An app is registered for who made it.
Registered == \A x \in Name : x[1] \in Web /\ x \notin removed => owner[x] = maker[x]

AppsOwn == \A x \in Name : app[x] # None => x[1] \in Web /\ (x \in removed \/ maker[x] = app[x].by)

\* A deployment that was not called again while its run lived has one run, which its record
\* names.
Solo ==
    \A d \in Deployment \ overtaken : \A r, q \in Run :
        Live(r) /\ Live(q) /\ run[r].of = d /\ run[q].of = d => r = q
Holders == \A r \in Run : run[r].pc \in Working /\ run[r].of \notin overtaken => Holds(r)

\* What a call that is being accepted goes on from.
ResumesFrom(r, row) ==
    /\ row = None => run[r].ids = {}
    /\ row # None => run[r].ids = row.ids /\ (run[r].ids # {} => run[r].copy = row.copy)
Resumes ==
    \A r \in Run : run[r].pc \in Accepting /\ run[r].of \notin overtaken =>
        ResumesFrom(r, record[run[r].of])

\* A record knows every service its deployment made.
MadeBy ==
    \A x \in Name : maker[x] \in Deployment \ overtaken =>
        /\ record[maker[x]] # None
        /\ x[1] \in record[maker[x]].ids /\ x[2] = record[maker[x]].copy

DbListed ==
    \A r \in Run : run[r].pc \in {"deploy", "health"} =>
        \A s \in Database : <<s, run[r].copy>> \in removed \/ Listed(<<s, run[r].copy>>)

Provisions ==
    \A r \in Run : run[r].pc = "provisioning" => maker[NameOf(r, Current(r))] = None

\* What a run saw of an app when it listed the services still stands when it acts on it.
Seen ==
    \A r \in Run : run[r].pc = "act" /\ run[r].sees # None /\ Current(r) \in Web =>
        NameOf(r, Current(r)) \in removed \/ maker[NameOf(r, Current(r))] = run[r].sees

OwnInv ==
    /\ BaseInv /\ RunsEarned /\ RecordsEarned /\ Registered /\ AppsOwn
    /\ Solo /\ Holders /\ Resumes /\ MadeBy /\ DbListed /\ Provisions /\ Seen
    /\ SucceededIsWhole

\* What a step of r writes into the records.
LEMMA RecordMoves ==
  ASSUME BaseInv, NEW r \in Run, Runs(r), NEW d \in Deployment
  PROVE  /\ record[d] = None <=> record'[d] = None
         /\ ~(d = run[r].of /\ Holds(r)) => record'[d] = record[d]
         /\ record[d] # None => /\ record[d] \in Record
                                /\ record'[d].claim = record[d].claim
                                /\ record'[d].copy = record[d].copy
         /\ Holds(r) /\ d = run[r].of =>
               /\ Onward(r) => record'[d].ids = run'[r].ids /\ record'[d].status = record[d].status
               /\ Ends(r) => record'[d].ids = run[r].ids
<1>1. record[d] # None => record[d] \in Record  BY DEF BaseInv, TypeOK
<1>2. None \notin Record  BY ExecutorAssumption
<1>3. CASE d = run[r].of /\ Holds(r)
  <2>0. record[d] # None /\ record[d] \in Record  BY <1>1, <1>3 DEF Holds
  <2>1. CASE Onward(r)
    <3>1. record'[d] = [record[d] EXCEPT !.ids = run'[r].ids]  BY <1>3, <2>1 DEF Onward
    <3>2. run'[r].ids \subseteq Service  BY <2>1 DEF Onward, Attempt
    <3>3. record'[d] \in Record  BY <2>0, <3>1, <3>2 DEF Record
    <3>4. ~Ends(r)  BY <2>1, EndedIs DEF Onward, Ends, Working
    <3>5. QED  BY <1>2, <2>0, <3>1, <3>3, <3>4, <1>3 DEF Record
  <2>2. CASE Ends(r)
    <3>1. PICK st \in {"failed", "succeeded"} :
             record'[d] = [record[d] EXCEPT !.ids = run[r].ids, !.status = st]
      BY <1>3, <2>2 DEF Ends
    <3>2. run[r].ids \subseteq Service  BY Fields DEF BaseInv
    <3>3. record'[d] \in Record  BY <2>0, <3>1, <3>2 DEF Record
    <3>4. ~Onward(r)  BY <2>2, EndedIs DEF Onward, Ends, Working
    <3>5. QED  BY <1>2, <2>0, <3>1, <3>3, <3>4, <1>3 DEF Record
  <2>3. QED  BY <2>1, <2>2 DEF Runs
<1>4. CASE ~(d = run[r].of /\ Holds(r))
  <2>1. record'[d] = record[d]  BY <1>4 DEF Runs, Onward, Ends
  <2>2. QED  BY <1>1, <1>4, <2>1
<1>5. QED  BY <1>3, <1>4

\* A step of a run keeps who works for whom, and from which record.
LEMMA WhoKeeps ==
  ASSUME OwnInv, NEW r \in Run, Runs(r), overtaken' = overtaken
  PROVE  Solo' /\ Holders' /\ Resumes'
<1>1. TypeOK /\ run[r].pc \in Working /\ run[r].of \in Deployment /\ Live(r) /\ Others(r)
  BY WorkingIs DEF Runs, Onward, Ends, OwnInv, BaseInv
<1>2. Live(r)' => run'[r].of = run[r].of
  BY EndedIs DEF Runs, Onward, Ends, Live, Accepting, Working
<1>3. run'[r].pc \notin Accepting
  BY EndedIs DEF Runs, Onward, Ends, Accepting, Working
<1>4. Solo'
  BY <1>1, <1>2 DEF OwnInv, Solo, Live, Others
<1>5. Holders'
  <2> SUFFICES ASSUME NEW q \in Run, run'[q].pc \in Working, run'[q].of \notin overtaken
               PROVE Holds(q)'
    BY DEF Holders
  <2>1. run[q].pc \in Working /\ run[q].of = run'[q].of
    BY <1>1, <1>2 DEF Others, Live
  <2>2. Holds(q) /\ run[q].of \in Deployment
    BY <2>1, WorkingIs DEF OwnInv, Holders
  <2>3. record'[run[q].of] # None /\ record'[run[q].of].claim = record[run[q].of].claim
    BY <2>2, RecordMoves DEF OwnInv, Holds
  <2>4. QED  BY <2>1, <2>2, <2>3 DEF Holds
<1>6. Resumes'
  <2> SUFFICES ASSUME NEW q \in Run, run'[q].pc \in Accepting, run'[q].of \notin overtaken
               PROVE ResumesFrom(q, record[run[q].of])'
    BY DEF Resumes
  <2>1. q # r /\ run'[q] = run[q]  BY <1>1, <1>3 DEF Others
  <2>2. Live(q) /\ run[q].of \in Deployment
    BY <2>1 DEF OwnInv, BaseInv, InStep, InStepOf, Live
  <2>3. run[q].of # run[r].of  BY <1>1, <2>1, <2>2 DEF OwnInv, Solo
  <2>4. record'[run[q].of] = record[run[q].of]
    BY <2>2, <2>3 DEF Runs, Onward, Ends
  <2>5. QED  BY <2>1, <2>4 DEF OwnInv, Resumes, ResumesFrom
<1>7. QED  BY <1>4, <1>5, <1>6

\* What a step of r does on the branch: a service is made on a name that is free, for the
\* deployment of r and under its copy, and whatever r then knows of is its own.
Builds(r) ==
    /\ UNCHANGED <<overtaken, removed, up>>
    /\ \A x \in Name : \/ maker'[x] = maker[x]
                       \/ /\ Onward(r) /\ (maker[x] = None \/ x \in removed)
                          /\ maker'[x] = run[r].of /\ x[2] = run[r].copy /\ x[1] \in run'[r].ids
    /\ \A s \in (run'[r].ids \ run[r].ids) \cap Web :
          <<s, run[r].copy>> \in removed \/ maker'[<<s, run[r].copy>>] = run[r].of
    /\ \A x \in Name : x[1] \in Web /\ x \notin removed /\ owner[x] = maker[x] => owner'[x] = maker'[x]

\* An app and a copy are a name.
LEMMA WebNames ==
  ASSUME NEW s \in Web, NEW c \in Copy PROVE <<s, c>> \in Name /\ s \in Service
BY DEF Web, Name

\* A step that builds keeps who made what.
LEMMA MadeKeeps ==
  ASSUME OwnInv, NEW r \in Run, Runs(r), Builds(r)
  PROVE  RunsEarned' /\ RecordsEarned' /\ Registered' /\ MadeBy'
<1>1. /\ TypeOK /\ run[r].pc \in Working /\ run[r].of \in Deployment /\ Others(r)
      /\ run[r].copy \in Copy
  BY WorkingIs, Fields DEF Runs, Onward, Ends, OwnInv, BaseInv
<1>2. None \notin Deployment  BY ExecutorAssumption DEF Owner
<1>3. ASSUME NEW d \in Deployment, NEW ids \in SUBSET Service, NEW c \in Copy, Earned(d, ids, c)
      PROVE  Earned(d, ids, c)'
  BY <1>2, <1>3, WebNames DEF Earned, Builds
<1>4. ASSUME Onward(r) PROVE Earned(run[r].of, run[r].ids, run[r].copy)'
  <2>1. PICK d \in Deployment, c \in Copy : d = run[r].of /\ c = run[r].copy  BY <1>1
  <2>2. Earned(d, run[r].ids, c)  BY <2>1 DEF OwnInv, RunsEarned
  <2>3. run'[r].of = d /\ run'[r].copy = c  BY <1>4, <2>1 DEF Onward
  <2>4. ASSUME NEW s \in run'[r].ids \cap Web
        PROVE  <<s, c>> \in removed' \/ maker'[<<s, c>>] = d
    <3>1. CASE s \in run[r].ids
      BY <1>2, <2>2, <2>4, <3>1, WebNames DEF Earned, Builds
    <3>2. CASE s \notin run[r].ids
      BY <2>1, <2>4, <3>2 DEF Builds
    <3>3. QED  BY <3>1, <3>2
  <2>5. QED  BY <2>3, <2>4 DEF Earned
<1>5. RunsEarned'
  <2> SUFFICES ASSUME NEW q \in Run PROVE Earned(run[q].of, run[q].ids, run[q].copy)'
    BY DEF RunsEarned
  <2>1. CASE q = r /\ Onward(r)  BY <1>4, <2>1
  <2>2. CASE q = r /\ Ends(r)  BY <2>2, EndedIs DEF Earned, Ends
  <2>3. CASE q # r
    <3>1. run'[q] = run[q]  BY <1>1, <2>3 DEF Others
    <3>2. CASE Live(q)
      <4>1. PICK d \in Deployment, ids \in SUBSET Service, c \in Copy :
              d = run[q].of /\ ids = run[q].ids /\ c = run[q].copy
        BY <1>1, <3>2, Fields DEF OwnInv, BaseInv, InStep, InStepOf
      <4>2. Earned(d, ids, c)  BY <4>1 DEF OwnInv, RunsEarned
      <4>3. Earned(d, ids, c)'  BY <1>3, <4>2
      <4>4. QED  BY <3>1, <4>1, <4>3 DEF Earned
    <3>3. CASE ~Live(q)
      <4>1. run[q].ids = {}
        BY <1>1, <3>3, Fields DEF Live, OwnInv, BaseInv, InStep, InStepOf
      <4>2. QED  BY <3>1, <4>1 DEF Earned
    <3>4. QED  BY <3>2, <3>3
  <2>4. QED  BY <2>1, <2>2, <2>3 DEF Runs
<1>6. RecordsEarned'
  <2> SUFFICES ASSUME NEW d \in Deployment, record'[d] # None
               PROVE Earned(d, record[d].ids, record[d].copy)'
    BY DEF RecordsEarned
  <2>1. record[d] # None /\ record[d] \in Record
    BY RecordMoves DEF OwnInv
  <2>2. CASE d = run[r].of /\ Holds(r)
    <3>1. PICK c \in Copy : c = record[d].copy /\ c = run[r].copy
      BY <1>1, <2>1, <2>2 DEF OwnInv, BaseInv, Claims, ClaimsOf, Holds
    <3>2. record'[d].copy = c
      BY <2>1, <3>1, RecordMoves DEF OwnInv
    <3>3. CASE Onward(r)
      <4>1. record'[d].ids = run'[r].ids
        BY <2>2, <3>3, RecordMoves DEF OwnInv
      <4>2. run'[r].copy = c /\ run'[r].of = d  BY <2>2, <3>1, <3>3 DEF Onward
      <4>3. QED  BY <1>4, <2>2, <3>1, <3>2, <3>3, <4>1, <4>2 DEF Earned
    <3>4. CASE Ends(r)
      <4>1. PICK ids \in SUBSET Service : ids = run[r].ids  BY <1>1, Fields
      <4>2. record'[d].ids = ids
        BY <2>2, <3>4, <4>1, RecordMoves DEF OwnInv
      <4>3. Earned(d, ids, c)  BY <2>2, <3>1, <4>1 DEF OwnInv, RunsEarned
      <4>4. Earned(d, ids, c)'  BY <1>3, <4>3
      <4>5. QED  BY <3>2, <4>2, <4>4 DEF Earned
    <3>5. QED  BY <3>3, <3>4 DEF Runs
  <2>3. CASE ~(d = run[r].of /\ Holds(r))
    <3>1. record'[d] = record[d]  BY <2>3 DEF Runs, Onward, Ends
    <3>2. PICK ids \in SUBSET Service, c \in Copy : ids = record[d].ids /\ c = record[d].copy
      BY <2>1 DEF Record
    <3>3. Earned(d, ids, c)  BY <2>1, <3>2 DEF OwnInv, RecordsEarned
    <3>4. Earned(d, ids, c)'  BY <1>3, <3>3
    <3>5. QED  BY <3>1, <3>2, <3>4 DEF Earned
  <2>4. QED  BY <2>2, <2>3
<1>7. Registered'  BY DEF Builds, OwnInv, Registered
<1>8. MadeBy'
  <2> SUFFICES ASSUME NEW x \in Name, maker'[x] \in Deployment \ overtaken
               PROVE /\ record'[maker'[x]] # None
                     /\ x[1] \in record'[maker'[x]].ids /\ x[2] = record'[maker'[x]].copy
    BY DEF MadeBy, Builds
  <2>0. PICK d \in Deployment \ overtaken : d = maker'[x]  OBVIOUS
  <2>1. CASE d = run[r].of
    <3>1. Holds(r)  BY <1>1, <2>0, <2>1 DEF OwnInv, Holders
    <3>2. record[d] \in Record /\ record[d].ids = run[r].ids /\ record[d].copy = run[r].copy
      BY <1>1, <2>1, <3>1 DEF Holds, TypeOK, OwnInv, BaseInv, Claims, ClaimsOf
    <3>3. record'[d] # None /\ record'[d].copy = run[r].copy
      BY <2>1, <3>1, <3>2, RecordMoves DEF OwnInv, Holds
    <3>4. CASE maker'[x] = maker[x]
      <4>1. x[1] \in run[r].ids /\ x[2] = run[r].copy
        BY <2>0, <3>2, <3>4 DEF OwnInv, MadeBy
      <4>2. run[r].ids \subseteq record'[d].ids
        BY <2>1, <3>1, RecordMoves DEF OwnInv, Runs, Onward
      <4>3. QED  BY <2>0, <3>3, <4>1, <4>2
    <3>5. CASE maker'[x] # maker[x]
      <4>1. Onward(r) /\ x[2] = run[r].copy /\ x[1] \in run'[r].ids  BY <3>5 DEF Builds
      <4>2. record'[d].ids = run'[r].ids  BY <2>1, <3>1, <4>1, RecordMoves DEF OwnInv
      <4>3. QED  BY <2>0, <3>3, <4>1, <4>2
    <3>6. QED  BY <3>4, <3>5
  <2>2. CASE d # run[r].of
    <3>1. maker[x] = d  BY <2>0, <2>2 DEF Builds
    <3>2. record'[d] = record[d]  BY <2>2 DEF Runs, Onward, Ends
    <3>3. QED  BY <2>0, <3>1, <3>2 DEF OwnInv, MadeBy
  <2>3. QED  BY <2>1, <2>2
<1>9. QED  BY <1>5, <1>6, <1>7, <1>8

\* One that leaves the containers alone keeps whose they are,
LEMMA AppsStand ==
  ASSUME OwnInv, NEW r \in Run, Builds(r), UNCHANGED app PROVE AppsOwn'
<1>1. ASSUME NEW x \in Name, app[x] # None PROVE app[x].by # None
  BY <1>1, ExecutorAssumption DEF OwnInv, BaseInv, TypeOK, Container, Owner
<1>2. QED  BY <1>1 DEF OwnInv, AppsOwn, Builds

\* one that makes no step past awaitDbReady what that step found,
LEMMA DbStands ==
  ASSUME OwnInv, NEW r \in Run, Runs(r), Builds(r),
         \/ run'[r].pc \notin {"deploy", "health"}
         \/ run[r].pc = "deploy"
         \/ \A s \in Database : Listed(NameOf(r, s))
  PROVE  DbListed'
<1> SUFFICES ASSUME NEW q \in Run, run'[q].pc \in {"deploy", "health"}, NEW s \in Database
             PROVE  <<s, run'[q].copy>> \in removed' \/ maker'[<<s, run'[q].copy>>] # None
  BY DEF DbListed, Listed
<1>1. Others(r) /\ run'[r].pc \in Working \cup {"ended"} /\ (Onward(r) => run'[r].copy = run[r].copy)
  BY EndedIs DEF Runs, Onward, Ends
<1>2. run'[q].copy = run[q].copy
  BY <1>1, EndsPc DEF Others, Runs
<1>3. <<s, run[q].copy>> \in Name
  BY Fields, ExecutorAssumption DEF OwnInv, BaseInv, Name
<1>4. <<s, run[q].copy>> \in removed \/ maker[<<s, run[q].copy>>] # None
  <2>1. CASE q = r  BY <2>1 DEF OwnInv, DbListed, Listed, NameOf
  <2>2. CASE q # r  BY <1>1, <2>2 DEF OwnInv, DbListed, Listed, Others
  <2>3. QED  BY <2>1, <2>2
<1>5. QED  BY <1>2, <1>3, <1>4 DEF Builds

\* one that takes no name from a run in provision what that run found,
LEMMA ProvisionsStand ==
  ASSUME OwnInv, NEW r \in Run, Runs(r),
         \A x \in Name : maker'[x] = maker[x] \/ x[1] \in Web \/ run[r].pc = "provisioning",
         run'[r].pc # "provisioning"
  PROVE  Provisions'
<1> SUFFICES ASSUME NEW q \in Run, run'[q].pc = "provisioning"
             PROVE  maker'[NameOf(q, Current(q))'] = None
  BY DEF Provisions
<1>1. q # r /\ run'[q] = run[q]  BY DEF Runs, Onward, Ends, Others
<1>2. NameOf(q, Current(q))' = NameOf(q, Current(q)) /\ NameOf(q, Current(q))[1] = Current(q)
  BY <1>1 DEF NameOf, Current
<1>3. Current(q) \in Database /\ NameOf(q, Current(q)) \in Name
  BY <1>1, CreatingIs DEF OwnInv, BaseInv, InStep, InStepOf, Creating
<1>4. chain = q  BY <1>1 DEF OwnInv, BaseInv, TypeOK, At
<1>5. run[r].pc # "provisioning"  BY <1>1, <1>4 DEF OwnInv, BaseInv, TypeOK, At
<1>6. maker[NameOf(q, Current(q))] = None  BY <1>1 DEF OwnInv, Provisions
<1>7. QED  BY <1>2, <1>3, <1>5, <1>6 DEF Web

\* one that changes no app what a run saw of it,
LEMMA SeenStands ==
  ASSUME OwnInv, NEW r \in Run, Runs(r), Builds(r), run'[r].pc # "act" PROVE Seen'
<1> SUFFICES ASSUME NEW q \in Run, run'[q].pc = "act", run'[q].sees # None, Current(q)' \in Web
             PROVE  \/ NameOf(q, Current(q))' \in removed
                    \/ maker'[NameOf(q, Current(q))'] = run'[q].sees
  BY DEF Seen, Builds
<1>1. q # r /\ run'[q] = run[q]  BY DEF Runs, Onward, Ends, Others
<1>2. NameOf(q, Current(q))' = NameOf(q, Current(q)) /\ Current(q)' = Current(q)
  BY <1>1 DEF NameOf, Current
<1>3. NameOf(q, Current(q)) \in Name  BY <1>1, CreatingIs DEF OwnInv, Creating
<1>4. \/ NameOf(q, Current(q)) \in removed
      \/ maker[NameOf(q, Current(q))] = run[q].sees
  BY <1>1, <1>2 DEF OwnInv, Seen
<1>5. QED  BY <1>1, <1>2, <1>3, <1>4 DEF Builds

\* and one that touches no app of another deployment what succeeded.
LEMMA SucceededStands ==
  ASSUME OwnInv, NEW r \in Run, Runs(r), Builds(r), run[r].pc # "health",
         \A x \in Name : app'[x] = app[x] \/ x \in removed \/ maker[x] = run[r].of
  PROVE  SucceededIsWhole'
<1>0. run[r].pc \in Working /\ run[r].of \in Deployment
  BY WorkingIs DEF Runs, Onward, Ends, OwnInv
<1> SUFFICES ASSUME NEW d \in Deployment \ overtaken, record'[d] # None,
                    record'[d].status = "succeeded"
             PROVE  /\ \A s \in Service : LET x == <<s, record'[d].copy>> IN x \in removed' \/ maker'[x] # None
                    /\ \A s \in Web : LET x == <<s, record'[d].copy>> IN
                          x \in removed' \/ (owner'[x] = d /\ app'[x] # None /\ app'[x].by = d)
  BY DEF SucceededIsWhole, Listed, Builds
<1>1. d # run[r].of
  <2> SUFFICES ASSUME d = run[r].of PROVE FALSE  OBVIOUS
  <2>1. Holds(r)  BY <1>0 DEF OwnInv, Holders
  <2>2. record[d] \in Record /\ record[d].status = "running"
    BY <1>0, <2>1 DEF OwnInv, BaseInv, TypeOK, Claims, ClaimsOf, Holds
  <2>3. CASE Onward(r)  BY <2>1, <2>2, <2>3, RecordMoves DEF OwnInv
  <2>4. CASE Ends(r)
    <3>1. PICK st \in {"failed", "succeeded"} :
            /\ st = "succeeded" => run[r].pc = "health"
            /\ record'[d] = [record[d] EXCEPT !.ids = run[r].ids, !.status = st]
      BY <2>1, <2>4 DEF Ends
    <3>2. record'[d].status = st  BY <2>2, <3>1 DEF Record
    <3>3. QED  BY <3>1, <3>2
  <2>5. QED  BY <2>3, <2>4 DEF Runs
<1>2. record'[d] = record[d] /\ record[d] \in Record /\ record[d] # None
  BY <1>1, RecordMoves DEF OwnInv
<1>3. PICK c \in Copy : c = record[d].copy  BY <1>2 DEF Record
<1>4. ASSUME NEW s \in Service PROVE <<s, c>> \in removed' \/ maker'[<<s, c>>] # None
  <2>1. <<s, c>> \in Name  BY DEF Name
  <2>2. <<s, c>> \in removed \/ maker[<<s, c>>] # None
    BY <1>2, <1>3 DEF OwnInv, SucceededIsWhole, Listed
  <2>3. QED  BY <2>1, <2>2 DEF Builds
<1>5. ASSUME NEW s \in Web, <<s, c>> \notin removed
      PROVE  owner'[<<s, c>>] = d /\ app'[<<s, c>>] # None /\ app'[<<s, c>>].by = d
  <2> DEFINE x == <<s, c>>
  <2>1. x \in Name /\ x[1] \in Web /\ x \notin removed  BY <1>5, WebNames
  <2>2. owner[x] = d /\ app[x] # None /\ app[x].by = d
    BY <1>2, <1>3, <1>5 DEF OwnInv, SucceededIsWhole
  <2>3. maker[x] = d  BY <1>5, <2>1, <2>2 DEF OwnInv, Registered
  <2>4. d # None  BY ExecutorAssumption DEF Owner
  <2> HIDE DEF x
  <2>5. maker'[x] = d  BY <2>1, <2>3, <2>4 DEF Builds
  <2>6. owner'[x] = d  BY <1>5, <2>1, <2>2, <2>3, <2>5 DEF Builds, x
  <2>7. app'[x] = app[x]  BY <1>1, <1>5, <2>1, <2>3 DEF x
  <2>8. QED  BY <2>2, <2>6, <2>7 DEF x
<1>6. QED  BY <1>2, <1>3, <1>4, <1>5 DEF Builds

\* A run that ends well leaves everything there.
LEMMA HealthSucceeds ==
  ASSUME OwnInv, NEW r \in Run, Health(r) PROVE SucceededIsWhole'
<1>0. /\ run[r].pc = "health" /\ Ends(r) /\ UNCHANGED <<branch, chain, up, history>>
      /\ (\A s \in Web : CanAnswer(NameOf(r, s))) \/ Fail(r)
      /\ run[r].pc \in Working /\ run[r].ids = Service
  BY HealthRuns DEF OwnInv, BaseInv, InStep, InStepOf, Complete, Working
<1>1. UNCHANGED <<owner, maker, app, overtaken, removed>>  BY <1>0 DEF branch, history
<1>2. run[r].of \in Deployment /\ run[r].copy \in Copy /\ TypeOK
  BY <1>0, WorkingIs, Fields DEF OwnInv, BaseInv
<1> SUFFICES ASSUME NEW d \in Deployment \ overtaken, record'[d] # None,
                    record'[d].status = "succeeded"
             PROVE  /\ \A s \in Service : LET x == <<s, record'[d].copy>> IN x \in removed \/ maker[x] # None
                    /\ \A s \in Web : LET x == <<s, record'[d].copy>> IN
                          x \in removed \/ (owner[x] = d /\ app[x] # None /\ app[x].by = d)
  BY <1>1 DEF SucceededIsWhole, Listed
<1>3. CASE d = run[r].of
  <2>1. Holds(r)  BY <1>0, <1>2, <1>3 DEF OwnInv, Holders
  <2>2. record[d] \in Record /\ record[d].copy = run[r].copy /\ record'[d].copy = run[r].copy
    BY <1>0, <1>2, <1>3, <2>1, RecordMoves DEF OwnInv, BaseInv, Claims, ClaimsOf, Holds, Runs
  <2>3. ~Fail(r)
    <3>1. ASSUME Fail(r) PROVE record'[d].status = "failed"
      <4>1. record'[d] = [record[d] EXCEPT !.ids = run[r].ids, !.status = "failed"]
        BY <1>2, <1>3, <2>1, <3>1, FinishIs DEF Fail
      <4>2. QED  BY <2>2, <4>1 DEF Record
    <3>2. QED  BY <3>1
  <2>4. PICK c \in Copy : c = run[r].copy  BY <1>2
  <2>5. ASSUME NEW s \in Web, <<s, c>> \notin removed
        PROVE  owner[<<s, c>>] = d /\ maker[<<s, c>>] = d /\ app[<<s, c>>] # None /\ app[<<s, c>>].by = d
    <3>1. <<s, c>> \in Name /\ s \in Service /\ <<s, c>>[1] = s  BY WebNames
    <3>2. maker[<<s, c>>] = d
      BY <1>0, <1>3, <2>4, <2>5, <3>1 DEF OwnInv, RunsEarned, Earned
    <3>3. app[<<s, c>>] # None  BY <1>0, <2>3, <2>4 DEF CanAnswer, NameOf
    <3>4. QED  BY <2>5, <3>1, <3>2, <3>3 DEF OwnInv, AppsOwn, Registered
  <2>6. ASSUME NEW s \in Service, <<s, c>> \notin removed PROVE maker[<<s, c>>] # None
    <3>1. CASE s \in Web
      BY <2>5, <2>6, <3>1, ExecutorAssumption DEF Owner
    <3>2. CASE s \in Database
      BY <1>0, <2>4, <2>6, <3>2 DEF OwnInv, DbListed, Listed
    <3>3. QED  BY <3>1, <3>2 DEF Web
  <2>7. QED  BY <2>2, <2>4, <2>5, <2>6
<1>4. CASE d # run[r].of
  <2>1. record'[d] = record[d] /\ record[d] # None
    BY <1>0, <1>4, RecordMoves DEF OwnInv, Runs
  <2>2. QED  BY <2>1 DEF OwnInv, SucceededIsWhole, Listed
<1>5. QED  BY <1>3, <1>4

\* A step that makes nothing, and learns only of its own, builds.
LEMMA UnbuiltIs ==
  ASSUME OwnInv, NEW r \in Run, UNCHANGED <<owner, maker, overtaken, removed, up>>,
         \A s \in (run'[r].ids \ run[r].ids) \cap Web :
            <<s, run[r].copy>> \in removed \/ maker[<<s, run[r].copy>>] = run[r].of
  PROVE  Builds(r)
BY DEF Builds

\* What holds after a step of a run, when it leaves the apps alone.
LEMMA AppsAside ==
  ASSUME OwnInv, NEW r \in Run, Step(r), Runs(r), Builds(r), UNCHANGED app,
         DbListed', Provisions', Seen', SucceededIsWhole'
  PROVE  OwnInv'
BY StepKeepsBase, WhoKeeps, MadeKeeps, AppsStand DEF OwnInv, Builds

\* Every step of a run keeps the invariant.
LEMMA StepKeepsOwn == ASSUME OwnInv, NEW r \in Run, Step(r) PROVE OwnInv'
<1> DEFINE x == NameOf(r, Current(r))
<1>0. /\ BaseInv /\ None \notin Deployment
      /\ Ends(r) => /\ run'[r].pc = "ended" /\ run'[r].ids = {}
                    /\ run'[r].pc \notin {"deploy", "health", "provisioning", "act"}
  BY EndedIs, ExecutorAssumption DEF OwnInv, Ends, Owner
<1>1. CASE Look(r)
  <2>1. Onward(r) /\ run'[r].pc = "act" /\ UNCHANGED <<branch, chain, up, history>> /\ run[r].pc = "look"
        /\ run'[r].ids = run[r].ids
    BY <1>0, <1>1, LookMoves
  <2>2. Runs(r) /\ Builds(r) /\ UNCHANGED <<app, maker, removed>>
    BY <2>1, UnbuiltIs DEF Runs, branch, history
  <2>3. DbListed' /\ Provisions' /\ SucceededIsWhole'
    BY <2>1, <2>2, DbStands, ProvisionsStand, SucceededStands
  <2>4. Seen'
    <3> SUFFICES ASSUME NEW q \in Run, run'[q].pc = "act", run'[q].sees # None, Current(q)' \in Web
                 PROVE  \/ NameOf(q, Current(q))' \in removed
                        \/ maker[NameOf(q, Current(q))'] = run'[q].sees
      BY <2>2 DEF Seen
    <3>1. CASE q # r
      <4>1. run'[q] = run[q]  BY <2>1, <3>1 DEF Onward, Others
      <4>2. NameOf(q, Current(q))' = NameOf(q, Current(q)) /\ Current(q)' = Current(q)
        BY <4>1 DEF NameOf, Current
      <4>3. QED  BY <4>1, <4>2 DEF OwnInv, Seen
    <3>2. CASE q = r
      <4>1. run'[r].sees = (IF Listed(x) THEN owner[x] ELSE None) /\ run'[r].left = run[r].left
            /\ run'[r].copy = run[r].copy
        BY <1>0, <1>1, LookMoves DEF Onward
      <4>2. x' = x /\ Current(r)' = Current(r)  BY <4>1 DEF NameOf, Current
      <4>3. x \in Name /\ x[1] = Current(r)  BY <1>0, <2>1, CreatingIs DEF Creating, NameOf
      <4>4. QED  BY <3>2, <4>1, <4>2, <4>3 DEF OwnInv, Registered, Listed
    <3>3. QED  BY <3>1, <3>2
  <2>5. QED  BY <2>2, <2>3, <2>4, <1>1, AppsAside DEF Step
<1>2. CASE Reuse(r)
  <2>1. /\ Onward(r) /\ run'[r].pc # "provisioning" /\ run[r].pc = "act" /\ run'[r].pc \in {"look", "write"}
        /\ run'[r].ids = run[r].ids \cup {Current(r)} /\ UNCHANGED <<branch, chain, up, history>>
    BY <1>0, <1>2, ReuseRuns
  <2>2. /\ run[r].sees # None
        /\ Current(r) \in run[r].ids \/ run[r].sees = run[r].of
    BY <1>2 DEF Reuse, Mine
  <2>3. Runs(r) /\ UNCHANGED <<app, maker, owner, removed, overtaken, up>>
    BY <2>1 DEF Runs, branch, history
  <2>4. \A s \in (run'[r].ids \ run[r].ids) \cap Web :
            <<s, run[r].copy>> \in removed \/ maker[<<s, run[r].copy>>] = run[r].of
    BY <2>1, <2>2 DEF OwnInv, Seen, NameOf
  <2>5. Builds(r)  BY <2>3, <2>4, UnbuiltIs
  <2>6. DbListed' /\ Provisions' /\ Seen' /\ SucceededIsWhole'
    BY <2>1, <2>3, <2>5, DbStands, ProvisionsStand, SeenStands, SucceededStands
  <2>7. QED  BY <2>3, <2>5, <2>6, <1>2, AppsAside DEF Step
<1>3. CASE Conflict(r)
  <2>1. Ends(r) /\ run[r].pc = "act" /\ UNCHANGED <<branch, chain, up, history>>
    BY <1>0, <1>3, ConflictRuns
  <2>2. Runs(r) /\ Builds(r) /\ UNCHANGED <<app, maker>>
    BY <1>0, <2>1, UnbuiltIs DEF Runs, branch, history
  <2>3. DbListed' /\ Provisions' /\ Seen' /\ SucceededIsWhole'
    BY <1>0, <2>1, <2>2, DbStands, ProvisionsStand, SeenStands, SucceededStands
  <2>4. QED  BY <2>2, <2>3, <1>3, AppsAside DEF Step
<1>4. CASE AddWeb(r)
  <2>1. /\ run[r].pc = "act" /\ Current(r) \in Web /\ UNCHANGED <<secret, app, chain, up, history>>
        /\ \/ /\ Onward(r) /\ run'[r].pc \in {"look", "write"} /\ run'[r].ids = run[r].ids \cup {Current(r)}
              /\ owner[x] = None
              /\ owner' = [owner EXCEPT ![x] = run[r].of]
              /\ maker' = [maker EXCEPT ![x] = run[r].of]
           \/ Ends(r) /\ UNCHANGED <<owner, maker>>
    BY <1>0, <1>4, AddWebRuns
  <2>2. Runs(r) /\ UNCHANGED <<app, removed, overtaken, up>>  BY <2>1 DEF Runs, history
  <2>3. x \in Name /\ x[1] = Current(r) /\ x[2] = run[r].copy
        /\ owner \in [Name -> Owner \cup {None}] /\ maker \in [Name -> Owner \cup {None}]
    BY <1>0, <2>1, CreatingIs DEF Creating, NameOf, BaseInv, TypeOK
  <2>4. Builds(r)
    <3>1. CASE Ends(r) /\ UNCHANGED <<owner, maker>>  BY <1>0, <2>2, <3>1, UnbuiltIs
    <3>2. CASE /\ Onward(r) /\ run'[r].ids = run[r].ids \cup {Current(r)}
               /\ owner[x] = None
               /\ owner' = [owner EXCEPT ![x] = run[r].of]
               /\ maker' = [maker EXCEPT ![x] = run[r].of]
      <4>1. maker[x] = None \/ x \in removed
        BY <2>1, <2>3, <3>2 DEF OwnInv, Registered
      <4>2. \A s \in (run'[r].ids \ run[r].ids) \cap Web : <<s, run[r].copy>> = x
        BY <3>2 DEF NameOf
      <4> HIDE DEF x
      <4>3. maker'[x] = run[r].of /\ owner'[x] = run[r].of
            /\ \A y \in Name : y # x => maker'[y] = maker[y] /\ owner'[y] = owner[y]
        BY <2>3, <3>2
      <4>4. QED  BY <2>2, <2>3, <3>2, <4>1, <4>2, <4>3 DEF Builds
    <3>3. QED  BY <2>1, <3>1, <3>2
  <2>5. \A y \in Name : maker'[y] = maker[y] \/ y[1] \in Web
    BY <2>1, <2>3
  <2>6. DbListed' /\ Provisions' /\ Seen' /\ SucceededIsWhole'
    BY <1>0, <2>1, <2>2, <2>4, <2>5, DbStands, ProvisionsStand, SeenStands, SucceededStands
  <2>7. QED  BY <2>2, <2>4, <2>6, <1>4, AppsAside DEF Step
<1>5. CASE CallDb(r)
  <2>1. Onward(r) /\ run'[r].pc = "queued" /\ run[r].pc = "act" /\ UNCHANGED <<branch, chain, up, history>>
        /\ run'[r].ids = run[r].ids
    BY <1>0, <1>5, CallDbRuns
  <2>2. Runs(r) /\ Builds(r) /\ UNCHANGED <<app, maker>>  BY <2>1, UnbuiltIs DEF Runs, branch, history
  <2>3. DbListed' /\ Provisions' /\ Seen' /\ SucceededIsWhole'
    BY <2>1, <2>2, DbStands, ProvisionsStand, SeenStands, SucceededStands
  <2>4. QED  BY <2>2, <2>3, <1>5, AppsAside DEF Step
<1>6. CASE AddDb(r)
  <2>1. /\ run[r].pc = "queued" /\ chain = None /\ UNCHANGED <<maker, secret, app, up, history>>
        /\ \/ /\ Onward(r) /\ run'[r].pc = "provisioning" /\ run'[r].ids = run[r].ids /\ chain' = r
              /\ Current(r)' = Current(r)
              /\ maker[x] = None /\ owner' = [owner EXCEPT ![x] = IF @ = None THEN run[r].of ELSE @]
           \/ Ends(r) /\ UNCHANGED <<owner, chain>>
    BY <1>0, <1>6, AddDbRuns
  <2>2. Runs(r) /\ UNCHANGED <<app, removed, overtaken, up>>  BY <2>1 DEF Runs, history
  <2>3. x \in Name /\ x[1] = Current(r) /\ Current(r) \in Database
        /\ owner \in [Name -> Owner \cup {None}]
    BY <1>0, <2>1, CreatingIs DEF Creating, NameOf, BaseInv, TypeOK, InStep, InStepOf
  <2>4. run'[r].ids \ run[r].ids = {}  BY <1>0, <2>1
  <2>5. \A y \in Name : y[1] \in Web => owner'[y] = owner[y]
    BY <2>1, <2>3 DEF Web
  <2>6. Builds(r)  BY <2>1, <2>2, <2>4, <2>5 DEF Builds
  <2>7. DbListed' /\ Seen' /\ SucceededIsWhole'
    BY <1>0, <2>1, <2>2, <2>6, DbStands, SeenStands, SucceededStands
  <2>8. Provisions'
    <3>1. CASE Ends(r)  BY <1>0, <2>1, <2>2, <3>1, ProvisionsStand
    <3>2. CASE Onward(r) /\ Current(r)' = Current(r) /\ maker[x] = None
      <4>1. \A q \in Run : q # r => run'[q].pc # "provisioning"
        BY <1>0, <2>1, <3>2, ExecutorAssumption DEF Onward, Others, BaseInv, TypeOK, At
      <4>2. x' = x  BY <3>2 DEF NameOf, Onward
      <4>3. QED  BY <2>1, <3>2, <4>1, <4>2 DEF Provisions
    <3>3. QED  BY <2>1, <3>1, <3>2
  <2>9. QED  BY <2>2, <2>6, <2>7, <2>8, <1>6, AppsAside DEF Step
<1>7. CASE Provisioned(r)
  <2>1. /\ run[r].pc = "provisioning" /\ chain' = None /\ UNCHANGED <<secret, app, up, history>>
        /\ \/ /\ Onward(r) /\ run'[r].pc \in {"look", "write"} /\ run'[r].ids = run[r].ids \cup {Current(r)}
              /\ maker' = [maker EXCEPT ![x] = run[r].of] /\ UNCHANGED owner
           \/ /\ Ends(r) /\ UNCHANGED maker
              /\ owner' = [owner EXCEPT ![x] = IF run[r].mine THEN None ELSE @]
    BY <1>0, <1>7, ProvisionedRuns
  <2>2. Runs(r) /\ UNCHANGED <<app, removed, overtaken, up>>  BY <2>1 DEF Runs, history
  <2>3. /\ x \in Name /\ x[1] = Current(r) /\ x[2] = run[r].copy /\ Current(r) \in Database
        /\ owner \in [Name -> Owner \cup {None}] /\ maker \in [Name -> Owner \cup {None}]
        /\ maker[x] = None
    BY <1>0, <2>1, CreatingIs DEF Creating, NameOf, BaseInv, TypeOK, InStep, InStepOf, OwnInv, Provisions
  <2>4. (run'[r].ids \ run[r].ids) \cap Web = {}  BY <1>0, <2>1, <2>3 DEF Web
  <2>5. \A y \in Name : y[1] \in Web => owner'[y] = owner[y] /\ maker'[y] = maker[y]
    BY <2>1, <2>3 DEF Web
  <2>6. \A y \in Name : \/ maker'[y] = maker[y]
                        \/ Onward(r) /\ y = x /\ maker'[y] = run[r].of /\ x[1] \in run'[r].ids
    BY <2>1, <2>3
  <2>7. Builds(r)  BY <2>2, <2>3, <2>4, <2>5, <2>6 DEF Builds
  <2>8. DbListed' /\ Provisions' /\ Seen' /\ SucceededIsWhole'
    BY <1>0, <2>1, <2>2, <2>7, DbStands, ProvisionsStand, SeenStands, SucceededStands
  <2>9. QED  BY <2>2, <2>7, <2>8, <1>7, AppsAside DEF Step
<1>8. CASE Write(r)
  <2>1. /\ run[r].pc = "write" /\ UNCHANGED <<owner, maker, app, chain, up, overtaken, removed>>
        /\ \/ Onward(r) /\ run'[r].pc = "ready" /\ run'[r].ids = run[r].ids
           \/ Ends(r)
    BY <1>0, <1>8, WriteRuns
  <2>2. Runs(r) /\ Builds(r)  BY <1>0, <2>1, UnbuiltIs DEF Runs
  <2>3. DbListed' /\ Provisions' /\ Seen' /\ SucceededIsWhole'
    BY <1>0, <2>1, <2>2, DbStands, ProvisionsStand, SeenStands, SucceededStands
  <2>4. QED  BY <2>1, <2>2, <2>3, <1>8, AppsAside DEF Step
<1>9. CASE Ready(r)
  <2>1. /\ run[r].pc = "ready" /\ UNCHANGED <<branch, chain, up, history>>
        /\ \/ /\ Onward(r) /\ run'[r].pc = "deploy" /\ run'[r].ids = run[r].ids
              /\ \A s \in Database : Listed(NameOf(r, s))
           \/ Ends(r)
    BY <1>0, <1>9, ReadyRuns
  <2>2. Runs(r) /\ Builds(r) /\ UNCHANGED <<app, maker>>
    BY <1>0, <2>1, UnbuiltIs DEF Runs, branch, history
  <2>3. DbListed' /\ Provisions' /\ Seen' /\ SucceededIsWhole'
    BY <1>0, <2>1, <2>2, DbStands, ProvisionsStand, SeenStands, SucceededStands
  <2>4. QED  BY <2>2, <2>3, <1>9, AppsAside DEF Step
<1>10. CASE Deploy(r)
  <2>1. /\ run[r].pc = "deploy" /\ Current(r) \in Web /\ UNCHANGED <<owner, secret, chain, up, history>>
        /\ \/ /\ Onward(r) /\ run'[r].pc \in {"deploy", "health"} /\ run'[r].ids = run[r].ids
              /\ app' = [app EXCEPT ![x] = [by |-> run[r].of, value |-> Injected(x)]]
              /\ maker' = [maker EXCEPT ![x] = IF @ = None THEN run[r].of ELSE @]
           \/ Ends(r) /\ UNCHANGED maker /\ (app' = [app EXCEPT ![x] = None] \/ UNCHANGED app)
    BY <1>0, <1>10, DeployRuns
  <2>2. Runs(r) /\ UNCHANGED <<removed, overtaken, up, owner>>  BY <2>1 DEF Runs, history
  <2>3. /\ run[r].ids = Service /\ run[r].copy \in Copy /\ run[r].of \in Deployment
        /\ app \in [Name -> Container \cup {None}] /\ maker \in [Name -> Owner \cup {None}]
    BY <1>0, <2>1, Fields, WorkingIs DEF BaseInv, TypeOK, InStep, InStepOf, Complete, Working
  <2>4. x \in Name /\ x[1] = Current(r) /\ x[2] = run[r].copy /\ Current(r) \in Service
    BY <2>1, <2>3, WebNames DEF NameOf
  <2>5. x \in removed \/ maker[x] = run[r].of
    BY <2>1, <2>3, <2>4 DEF OwnInv, RunsEarned, Earned, NameOf
  <2> HIDE DEF x
  <2>6. run'[r].ids \ run[r].ids = {}  BY <1>0, <2>1
  <2>7. /\ \A y \in Name : maker'[y] = maker[y] \/ (Onward(r) /\ y = x /\ maker[x] = None /\ maker'[x] = run[r].of
                                                     /\ x[1] \in run'[r].ids)
    BY <2>1, <2>3, <2>4
  <2>8. Builds(r)
    BY <1>0, <2>2, <2>3, <2>4, <2>5, <2>6, <2>7 DEF Builds
  <2>9. \A y \in Name : app'[y] = app[y] \/ (y = x /\ (app'[x] = None \/ app'[x].by = run[r].of))
    BY <2>1, <2>3, <2>4
  <2>10. AppsOwn'
    <3> SUFFICES ASSUME NEW y \in Name, app'[y] # None
                 PROVE  y[1] \in Web /\ (y \in removed' \/ maker'[y] = app'[y].by)
      BY DEF AppsOwn
    <3>1. CASE app'[y] = app[y]
      <4>1. app[y].by # None  BY <1>0, <2>3, <3>1 DEF Container
      <4>2. QED  BY <2>8, <3>1, <4>1 DEF OwnInv, AppsOwn, Builds
    <3>2. CASE app'[y] # app[y]
      <4>1. y = x /\ app'[y].by = run[r].of  BY <2>9, <3>2
      <4>2. QED  BY <1>0, <2>1, <2>2, <2>3, <2>4, <2>5, <2>7, <4>1
    <3>3. QED  BY <3>1, <3>2
  <2>11. DbListed' /\ Seen'
    BY <1>0, <2>1, <2>2, <2>8, DbStands, SeenStands
  <2>12. SucceededIsWhole'
    BY <2>1, <2>2, <2>5, <2>8, <2>9, SucceededStands
  <2>13. Provisions'
    BY <1>0, <2>1, <2>2, <2>4, <2>7, ProvisionsStand
  <2>14. QED
    BY <2>2, <2>8, <2>10, <2>11, <2>12, <2>13, <1>10, StepKeepsBase, WhoKeeps, MadeKeeps DEF OwnInv, Step
<1>11. CASE Health(r)
  <2>1. run[r].pc = "health" /\ Ends(r) /\ UNCHANGED <<branch, chain, up, history>>
    BY <1>0, <1>11, HealthRuns
  <2>2. Runs(r) /\ Builds(r) /\ UNCHANGED <<app, maker>>
    BY <1>0, <2>1, UnbuiltIs DEF Runs, branch, history
  <2>3. DbListed' /\ Provisions' /\ Seen'
    BY <1>0, <2>1, <2>2, DbStands, ProvisionsStand, SeenStands
  <2>4. QED  BY <2>2, <2>3, <1>11, HealthSucceeds, AppsAside DEF Step
<1>12. QED
  BY <1>1, <1>2, <1>3, <1>4, <1>5, <1>6, <1>7, <1>8, <1>9, <1>10, <1>11 DEF Step

-------------------------------------------------------------------------------
\* The other actions.

\* A call goes on from the record; so does what follows until the record is written.
LEMMA AskKeepsOwn == ASSUME ~Twice, OwnInv, NEW d \in Deployment, Ask(d) PROVE OwnInv'
<1>0. BaseInv /\ TypeOK  BY DEF OwnInv, BaseInv
<1>1. /\ up /\ UNCHANGED <<record, aged, branch, chain, up, tainted, removed>>
      /\ \A q \in Run : ~(run[q].pc \in Accepting /\ run[q].of = d)
      /\ overtaken' = IF \E q \in Run : Lives(q, d) THEN overtaken \cup {d} ELSE overtaken
  BY DEF Ask
<1>2. PICK r \in Run :
          /\ run[r].pc = "idle" /\ run' \in [Run -> Attempt] /\ Others(r) /\ run'[r] = Asked(d)
  BY <1>0, AskIs, Zenon
<1>3. /\ run'[r].pc = "accepting" /\ run'[r].of = d
      /\ record[d] = None => run'[r].ids = {}
      /\ record[d] # None => run'[r].copy = record[d].copy /\ run'[r].ids = record[d].ids
  <2>1. LET n == Asked(d) IN
        /\ n.pc = "accepting" /\ n.of = d
        /\ record[d] = None => n.ids = {}
        /\ record[d] # None => n.copy = record[d].copy /\ n.ids = record[d].ids
    BY <1>0, AskedIs
  <2>2. QED  BY <1>2, <2>1
<1>4. UNCHANGED <<owner, maker, secret, app>> /\ overtaken \subseteq overtaken'
  BY <1>1 DEF branch
<1>5. "accepting" \in Accepting /\ "accepting" \notin Working /\ "idle" \notin Accepting \cup Working
  BY DEF Accepting, Working
<1>6. d \notin overtaken' => \A q \in Run : Live(q) => run[q].of # d
  BY <1>1 DEF Live, Lives
<1>7. Solo'
  BY <1>2, <1>3, <1>4, <1>5, <1>6 DEF OwnInv, Solo, Live, Others
<1>8. Holders'
  BY <1>1, <1>2, <1>3, <1>4, <1>5 DEF OwnInv, Holders, Holds, Others
<1>9. Resumes'
  BY <1>1, <1>2, <1>3, <1>4 DEF OwnInv, Resumes, ResumesFrom, Others
<1>10. RunsEarned'
  <2> SUFFICES ASSUME NEW q \in Run PROVE Earned(run[q].of, run[q].ids, run[q].copy)'
    BY DEF RunsEarned
  <2>1. CASE q = r
    BY <1>1, <1>3, <1>4, <2>1 DEF OwnInv, RecordsEarned, Earned
  <2>2. CASE q # r
    BY <1>1, <1>2, <1>4, <2>2 DEF OwnInv, RunsEarned, Earned, Others
  <2>3. QED  BY <2>1, <2>2
<1>11. RecordsEarned' /\ Registered' /\ AppsOwn' /\ MadeBy' /\ SucceededIsWhole'
  BY <1>1, <1>4 DEF OwnInv, RecordsEarned, Earned, Registered, AppsOwn, MadeBy, SucceededIsWhole, Listed
<1>12. DbListed'
  BY <1>1, <1>2, <1>3, <1>4 DEF OwnInv, DbListed, Listed, Others
<1>13. Provisions' /\ Seen'
  BY <1>1, <1>2, <1>3, <1>4 DEF OwnInv, Provisions, Seen, NameOf, Current, Others
<1>14. QED
  BY <1>0, <1>7, <1>8, <1>9, <1>10, <1>11, <1>12, <1>13, AskKeepsBase DEF OwnInv

\* Nothing but a run that is no longer there, or a step of one that was accepted.
LEMMA AcceptedKeeps ==
  ASSUME OwnInv, BaseInv', NEW r \in Run, run' \in [Run -> Attempt], Others(r),
         run[r].pc \in Accepting,
         UNCHANGED <<record, branch, history>>,
         \/ run'[r].pc = "ended" /\ run'[r].ids = {}
         \/ /\ run'[r].pc \in Accepting /\ run'[r].of = run[r].of /\ run'[r].ids = run[r].ids
            /\ run[r].ids # {} => run'[r].copy = run[r].copy
  PROVE  OwnInv'
<1>1. UNCHANGED <<owner, maker, secret, app, overtaken, removed>>  BY DEF branch, history
<1>2. run'[r].pc \notin Working /\ run'[r].pc \notin {"deploy", "health", "provisioning", "act"}
  BY DEF Accepting, Working
<1>3. RunsEarned'
  BY <1>1 DEF OwnInv, RunsEarned, Earned, Others
<1>4. Solo' /\ Holders' /\ Resumes'
  BY <1>1, <1>2 DEF OwnInv, Solo, Holders, Holds, Resumes, ResumesFrom, Live, Others, Accepting, Working
<1>5. RecordsEarned' /\ Registered' /\ AppsOwn' /\ MadeBy' /\ SucceededIsWhole'
  BY <1>1 DEF OwnInv, RecordsEarned, Earned, Registered, AppsOwn, MadeBy, SucceededIsWhole, Listed
<1>6. DbListed' /\ Provisions' /\ Seen'
  BY <1>1, <1>2 DEF OwnInv, DbListed, Provisions, Seen, NameOf, Current, Listed, Others
<1>7. QED  BY <1>3, <1>4, <1>5, <1>6 DEF OwnInv

\* A refusal keeps the invariant,
LEMMA RefuseKeepsOwn == ASSUME OwnInv, NEW r \in Run, Refuse(r) PROVE OwnInv'
<1>1. BaseInv /\ "accepting" \in Accepting  BY DEF OwnInv, Accepting
<1>2. run'[r].pc = "ended" /\ run'[r].ids = {}  BY <1>1, RefuseIs, EndedIs
<1>3. QED  BY <1>1, <1>2, RefuseIs, RefuseKeepsBase, AcceptedKeeps

\* minting the names,
LEMMA MintKeepsOwn == ASSUME OwnInv, NEW r \in Run, Mint(r) PROVE OwnInv'
<1>1. BaseInv /\ "accepting" \in Accepting /\ "minted" \in Accepting  BY DEF OwnInv, Accepting
<1>2. run[r].ids # {} => run'[r].copy = run[r].copy  BY <1>1, MintIs DEF MintedCopies
<1>3. QED  BY <1>1, <1>2, MintIs, MintKeepsBase, AcceptedKeeps

\* and the record as it is written: it knows what the one before it knew.
LEMMA ClaimKeepsOwn == ASSUME OwnInv, NEW r \in Run, Claim(r) PROVE OwnInv'
<1>0. BaseInv /\ TypeOK  BY DEF OwnInv, BaseInv
<1> PICK d \in Deployment : d = run[r].of  BY <1>0, ClaimIs
<1> DEFINE row == [status |-> "running", claim |-> r, copy |-> run[r].copy, ids |-> run[r].ids]
<1>1. /\ run[r].pc = "minted" /\ row \in Record
      /\ run' \in [Run -> Attempt] /\ Others(r)
      /\ run'[r].pc = "look" /\ run'[r].of = d
      /\ run'[r].copy = run[r].copy /\ run'[r].ids = run[r].ids
      /\ record' = [record EXCEPT ![d] = row]
      /\ UNCHANGED <<branch, chain, up, history>>
  BY <1>0, ClaimIs
<1>2. UNCHANGED <<owner, maker, secret, app, overtaken, removed>>  BY <1>1 DEF branch, history
<1>3. /\ record'[d] = row /\ row # None /\ row.claim = r /\ row.copy = run[r].copy
      /\ row.ids = run[r].ids /\ row.status = "running"
      /\ \A e \in Deployment : e # d => record'[e] = record[e]
  BY <1>0, <1>1, ExecutorAssumption DEF TypeOK
<1>4. /\ run[r].pc \in Accepting /\ run'[r].pc \in Working /\ run'[r].pc \notin Accepting
      /\ Live(r) /\ run'[r].pc \notin {"deploy", "health", "provisioning", "act"}
  BY <1>1 DEF Accepting, Working, Live
<1> HIDE DEF row
<1>5. d \notin overtaken => \A q \in Run : q # r /\ Live(q) => run[q].of # d
  BY <1>4 DEF OwnInv, Solo
<1>6. Solo'
  BY <1>1, <1>2, <1>4 DEF OwnInv, Solo, Live, Others
<1>7. Holders'
  <2> SUFFICES ASSUME NEW q \in Run, run'[q].pc \in Working, run'[q].of \notin overtaken
               PROVE  Holds(q)'
    BY <1>2 DEF Holders
  <2>1. CASE q = r  BY <1>1, <1>3, <2>1 DEF Holds
  <2>2. CASE q # r
    <3>1. run'[q] = run[q] /\ Live(q)  BY <1>1, <2>2 DEF Others, Live
    <3>2. run[q].of \in Deployment /\ run[q].of # d
      BY <1>0, <1>5, <2>2, <3>1 DEF BaseInv, InStep, InStepOf
    <3>3. QED  BY <1>3, <3>1, <3>2 DEF OwnInv, Holders, Holds
  <2>3. QED  BY <2>1, <2>2
<1>8. Resumes'
  <2> SUFFICES ASSUME NEW q \in Run, run'[q].pc \in Accepting, run'[q].of \notin overtaken
               PROVE  ResumesFrom(q, record[run[q].of])'
    BY <1>2 DEF Resumes
  <2>1. q # r  BY <1>4
  <2>2. run'[q] = run[q] /\ Live(q)  BY <1>1, <2>1 DEF Others, Live
  <2>3. run[q].of \in Deployment /\ run[q].of # d
    BY <1>0, <1>5, <2>1, <2>2 DEF BaseInv, InStep, InStepOf
  <2>4. record'[run[q].of] = record[run[q].of]  BY <1>3, <2>3
  <2>5. QED  BY <2>2, <2>4 DEF OwnInv, Resumes, ResumesFrom
<1>9. RunsEarned'
  BY <1>1, <1>2 DEF OwnInv, RunsEarned, Earned, Others
<1>10. RecordsEarned'
  <2> SUFFICES ASSUME NEW e \in Deployment, record'[e] # None
               PROVE  Earned(e, record[e].ids, record[e].copy)'
    BY DEF RecordsEarned
  <2>1. CASE e = d  BY <1>2, <1>3, <2>1 DEF OwnInv, RunsEarned, Earned
  <2>2. CASE e # d  BY <1>2, <1>3, <2>2 DEF OwnInv, RecordsEarned, Earned
  <2>3. QED  BY <2>1, <2>2
<1>11. Registered' /\ AppsOwn'
  BY <1>2 DEF OwnInv, Registered, AppsOwn
<1>12. MadeBy'
  <2> SUFFICES ASSUME NEW x \in Name, NEW e \in Deployment \ overtaken, maker[x] = e
               PROVE  record'[e] # None /\ x[1] \in record'[e].ids /\ x[2] = record'[e].copy
    BY <1>2 DEF MadeBy
  <2>1. record[e] # None /\ x[1] \in record[e].ids /\ x[2] = record[e].copy
    BY DEF OwnInv, MadeBy
  <2>2. CASE e = d
    <3>1. run[r].ids = record[d].ids /\ run[r].copy = record[d].copy
      BY <1>4, <2>1, <2>2 DEF OwnInv, Resumes, ResumesFrom
    <3>2. QED  BY <1>3, <2>1, <2>2, <3>1
  <2>3. CASE e # d  BY <1>3, <2>1, <2>3
  <2>4. QED  BY <2>2, <2>3
<1>13. SucceededIsWhole'
  BY <1>2, <1>3 DEF OwnInv, SucceededIsWhole, Listed
<1>14. DbListed' /\ Provisions' /\ Seen'
  BY <1>1, <1>2, <1>4 DEF OwnInv, DbListed, Provisions, Seen, NameOf, Current, Listed, Others
<1>15. QED
  BY <1>0, <1>6, <1>7, <1>8, <1>9, <1>10, <1>11, <1>12, <1>13, <1>14, ClaimKeepsBase DEF OwnInv

\* What does not read what changes.
LEMMA LeaseEndsKeepsOwn == ASSUME OwnInv, NEW d \in Deployment, LeaseEnds(d) PROVE OwnInv'
<1>1. UNCHANGED <<record, run, owner, maker, secret, app, overtaken, tainted, removed>>
  BY DEF LeaseEnds, branch, history
<1>2. RunsEarned' /\ RecordsEarned' /\ Registered' /\ AppsOwn' /\ MadeBy' /\ SucceededIsWhole'
  BY <1>1 DEF OwnInv, RunsEarned, RecordsEarned, Earned, Registered, AppsOwn, MadeBy, SucceededIsWhole, Listed
<1>3. Solo' /\ Holders' /\ Resumes'
  BY <1>1 DEF OwnInv, Solo, Holders, Holds, Resumes, ResumesFrom, Live
<1>4. DbListed' /\ Provisions' /\ Seen'
  BY <1>1 DEF OwnInv, DbListed, Provisions, Seen, NameOf, Current, Listed
<1>5. QED  BY <1>2, <1>3, <1>4, LeaseEndsKeepsBase DEF OwnInv

\* People on the branch: the runs and the records stay.
LEMMA HandsAside ==
  ASSUME OwnInv, UNCHANGED <<record, run, overtaken>> PROVE Solo' /\ Holders' /\ Resumes'
BY DEF OwnInv, Solo, Holders, Holds, Resumes, ResumesFrom, Live

\* A service added by hand takes a name nobody made a service of.
LEMMA AddByHandKeepsOwn == ASSUME OwnInv, NEW x \in Name, AddByHand(x) PROVE OwnInv'
<1>0. BaseInv /\ TypeOK /\ User \notin Deployment /\ User # None
  BY ExecutorAssumption DEF OwnInv, BaseInv, Owner
<1>1. /\ maker[x] = None /\ (IF x[1] \in Database THEN chain = None ELSE owner[x] = None)
      /\ owner' = [owner EXCEPT ![x] = IF @ = None THEN User ELSE @]
      /\ maker' = [maker EXCEPT ![x] = User]
      /\ UNCHANGED <<record, run, app, overtaken, removed>>
  BY DEF AddByHand, history
<1>2. /\ maker'[x] = User /\ (x[1] \in Web => owner'[x] = User)
      /\ \A y \in Name : y # x => maker'[y] = maker[y] /\ owner'[y] = owner[y]
  BY <1>0, <1>1 DEF TypeOK, Web
<1>3. \A y \in Name : maker[y] # None => y # x /\ maker'[y] = maker[y] /\ owner'[y] = owner[y]
  BY <1>1, <1>2
<1>4. ASSUME NEW d \in Deployment, NEW ids \in SUBSET Service, NEW c \in Copy, Earned(d, ids, c)
      PROVE  Earned(d, ids, c)'
  <2>1. d # None  BY ExecutorAssumption DEF Owner
  <2>2. QED  BY <1>1, <1>3, <1>4, <2>1, WebNames DEF Earned
<1>5. RunsEarned'
  <2> SUFFICES ASSUME NEW q \in Run PROVE Earned(run[q].of, run[q].ids, run[q].copy)'
    BY DEF RunsEarned
  <2>1. CASE run[q].pc \in {"idle", "ended"}
    BY <1>0, <1>1, <2>1 DEF BaseInv, InStep, InStepOf, Earned
  <2>2. CASE run[q].pc \notin {"idle", "ended"}
    <3>1. PICK d \in Deployment, ids \in SUBSET Service, c \in Copy :
            d = run[q].of /\ ids = run[q].ids /\ c = run[q].copy
      BY <1>0, <2>2, Fields DEF BaseInv, InStep, InStepOf, Live
    <3>2. Earned(d, ids, c)'  BY <1>4, <3>1 DEF OwnInv, RunsEarned
    <3>3. QED  BY <1>1, <3>1, <3>2 DEF Earned
  <2>3. QED  BY <2>1, <2>2
<1>6. RecordsEarned'
  <2> SUFFICES ASSUME NEW d \in Deployment, record'[d] # None
               PROVE  Earned(d, record[d].ids, record[d].copy)'
    BY DEF RecordsEarned
  <2>1. PICK ids \in SUBSET Service, c \in Copy : ids = record[d].ids /\ c = record[d].copy
    BY <1>0, <1>1 DEF TypeOK, Record
  <2>2. Earned(d, ids, c)'  BY <1>1, <1>4, <2>1 DEF OwnInv, RecordsEarned
  <2>3. QED  BY <1>1, <2>1, <2>2 DEF Earned
<1>7. Registered'
  BY <1>1, <1>2 DEF OwnInv, Registered
<1>8. AppsOwn'
  <2>1. \A y \in Name : app[y] # None => app[y].by # None
    BY <1>0, ExecutorAssumption DEF TypeOK, Container, Owner
  <2>2. QED  BY <1>1, <1>3, <2>1 DEF OwnInv, AppsOwn
<1>9. MadeBy'
  BY <1>0, <1>1, <1>2 DEF OwnInv, MadeBy
<1>10. SucceededIsWhole'
  <2> SUFFICES ASSUME NEW d \in Deployment \ overtaken, record[d] # None, record[d].status = "succeeded"
               PROVE  /\ \A s \in Service : LET y == <<s, record[d].copy>> IN y \in removed \/ maker'[y] # None
                      /\ \A s \in Web : LET y == <<s, record[d].copy>> IN
                            y \in removed \/ (owner'[y] = d /\ app[y] # None /\ app[y].by = d)
    BY <1>1 DEF SucceededIsWhole, Listed
  <2>1. PICK c \in Copy : c = record[d].copy  BY <1>0 DEF TypeOK, Record
  <2>2. ASSUME NEW s \in Service, <<s, c>> \notin removed PROVE maker'[<<s, c>>] # None
    <3>1. <<s, c>> \in Name  BY DEF Name
    <3>2. maker[<<s, c>>] # None  BY <2>1, <2>2 DEF OwnInv, SucceededIsWhole, Listed
    <3>3. QED  BY <1>3, <3>1, <3>2
  <2>3. ASSUME NEW s \in Web, <<s, c>> \notin removed
        PROVE  owner'[<<s, c>>] = d /\ app[<<s, c>>] # None /\ app[<<s, c>>].by = d
    <3>1. <<s, c>> \in Name /\ s \in Service  BY WebNames
    <3>2. maker[<<s, c>>] # None /\ owner[<<s, c>>] = d /\ app[<<s, c>>] # None /\ app[<<s, c>>].by = d
      BY <2>1, <2>3, <3>1 DEF OwnInv, SucceededIsWhole, Listed
    <3>3. QED  BY <1>3, <3>1, <3>2
  <2>4. QED  BY <2>1, <2>2, <2>3
<1>11. DbListed'
  <2> SUFFICES ASSUME NEW q \in Run, run[q].pc \in {"deploy", "health"}, NEW s \in Database,
                      <<s, run[q].copy>> \notin removed
               PROVE  maker'[<<s, run[q].copy>>] # None
    BY <1>1 DEF DbListed, Listed
  <2>1. <<s, run[q].copy>> \in Name  BY <1>0, Fields, ExecutorAssumption DEF Name
  <2>2. QED  BY <1>3, <2>1 DEF OwnInv, DbListed, Listed
<1>12. Provisions' /\ Seen'
  <2> SUFFICES ASSUME NEW q \in Run
               PROVE  LET y == NameOf(q, Current(q)) IN
                      /\ run[q].pc = "provisioning" => maker'[y] = None
                      /\ run[q].pc = "act" /\ run[q].sees # None /\ Current(q) \in Web =>
                           y \in removed \/ maker'[y] = run[q].sees
    <3>1. \A p \in Run : NameOf(p, Current(p))' = NameOf(p, Current(p)) /\ Current(p)' = Current(p)
      BY <1>1 DEF NameOf, Current
    <3>2. QED  BY <1>1, <3>1 DEF Provisions, Seen
  <2>1. CASE run[q].pc = "provisioning"
    <3>1. chain = q /\ Current(q) \in Database /\ NameOf(q, Current(q))[1] = Current(q)
          /\ NameOf(q, Current(q)) \in Name /\ chain # None
      BY <1>0, <2>1, CreatingIs, ExecutorAssumption
         DEF TypeOK, At, BaseInv, InStep, InStepOf, NameOf, Creating
    <3>2. NameOf(q, Current(q)) # x  BY <1>1, <3>1
    <3>3. QED  BY <1>2, <2>1, <3>1, <3>2 DEF OwnInv, Provisions
  <2>2. CASE run[q].pc = "act"
    <3>1. NameOf(q, Current(q)) \in Name  BY <1>0, <2>2, CreatingIs DEF Creating
    <3>2. QED  BY <1>3, <2>2, <3>1 DEF OwnInv, Seen
  <2>3. QED  BY <2>1, <2>2
<1>13. QED
  BY <1>1, <1>5, <1>6, <1>7, <1>8, <1>9, <1>10, <1>11, <1>12, HandsAside, AddByHandKeepsBase DEF OwnInv

\* One removed by hand is no longer spoken of.
LEMMA RemoveByHandKeepsOwn == ASSUME OwnInv, NEW x \in Name, RemoveByHand(x) PROVE OwnInv'
<1>0. BaseInv /\ TypeOK /\ None \notin Deployment
  BY ExecutorAssumption DEF OwnInv, BaseInv, Owner
<1>1. /\ owner' = [owner EXCEPT ![x] = None] /\ maker' = [maker EXCEPT ![x] = None]
      /\ app' = [app EXCEPT ![x] = None] /\ removed' = removed \cup {x}
      /\ UNCHANGED <<record, run, overtaken>>
  BY DEF RemoveByHand
<1>2. /\ x \in removed' /\ removed \subseteq removed'
      /\ maker'[x] = None /\ app'[x] = None
      /\ \A y \in Name : y # x => maker'[y] = maker[y] /\ owner'[y] = owner[y] /\ app'[y] = app[y]
  BY <1>0, <1>1 DEF TypeOK
<1>3. ASSUME NEW d, NEW ids \in SUBSET Service, NEW c \in Copy, Earned(d, ids, c)
      PROVE  \A s \in ids \cap Web : <<s, c>> \in removed' \/ maker'[<<s, c>>] = d
  BY <1>2, <1>3, WebNames DEF Earned
<1>4. RunsEarned'
  <2> SUFFICES ASSUME NEW q \in Run PROVE Earned(run[q].of, run[q].ids, run[q].copy)'
    BY DEF RunsEarned
  <2>1. run[q].ids \in SUBSET Service /\ run[q].copy \in Copy  BY <1>0, Fields
  <2>2. QED  BY <1>1, <1>3, <2>1 DEF OwnInv, RunsEarned, Earned
<1>5. RecordsEarned'
  <2> SUFFICES ASSUME NEW d \in Deployment, record'[d] # None
               PROVE  Earned(d, record[d].ids, record[d].copy)'
    BY DEF RecordsEarned
  <2>1. record[d] # None /\ record[d].ids \in SUBSET Service /\ record[d].copy \in Copy
    BY <1>0, <1>1 DEF TypeOK, Record
  <2>2. QED  BY <1>1, <1>3, <2>1 DEF OwnInv, RecordsEarned, Earned
<1>6. Registered' /\ AppsOwn' /\ MadeBy'
  BY <1>0, <1>1, <1>2 DEF OwnInv, Registered, AppsOwn, MadeBy
<1>7. SucceededIsWhole'
  <2> SUFFICES ASSUME NEW d \in Deployment \ overtaken, record[d] # None, record[d].status = "succeeded"
               PROVE  /\ \A s \in Service : LET y == <<s, record[d].copy>> IN y \in removed' \/ maker'[y] # None
                      /\ \A s \in Web : LET y == <<s, record[d].copy>> IN
                            y \in removed' \/ (owner'[y] = d /\ app'[y] # None /\ app'[y].by = d)
    BY <1>1 DEF SucceededIsWhole, Listed
  <2>1. PICK c \in Copy : c = record[d].copy  BY <1>0 DEF TypeOK, Record
  <2>2. \A s \in Service : <<s, c>> \in Name  BY DEF Name
  <2>3. \A s \in Service : <<s, c>> \in removed \/ maker[<<s, c>>] # None
    BY <2>1 DEF OwnInv, SucceededIsWhole, Listed
  <2>4. \A s \in Web : \/ <<s, c>> \in removed
                       \/ owner[<<s, c>>] = d /\ app[<<s, c>>] # None /\ app[<<s, c>>].by = d
    BY <2>1 DEF OwnInv, SucceededIsWhole
  <2>5. QED  BY <1>2, <2>1, <2>2, <2>3, <2>4 DEF Web
<1>8. DbListed'
  <2> SUFFICES ASSUME NEW q \in Run, run[q].pc \in {"deploy", "health"}, NEW s \in Database,
                      <<s, run[q].copy>> \notin removed'
               PROVE  maker'[<<s, run[q].copy>>] # None
    BY <1>1 DEF DbListed, Listed
  <2>1. <<s, run[q].copy>> \in Name  BY <1>0, Fields, ExecutorAssumption DEF Name
  <2>2. QED  BY <1>2, <2>1 DEF OwnInv, DbListed, Listed
<1>9. Provisions' /\ Seen'
  <2> SUFFICES ASSUME NEW q \in Run
               PROVE  LET y == NameOf(q, Current(q)) IN
                      /\ run[q].pc = "provisioning" => maker'[y] = None
                      /\ run[q].pc = "act" /\ run[q].sees # None /\ Current(q) \in Web =>
                           y \in removed' \/ maker'[y] = run[q].sees
    <3>1. \A p \in Run : NameOf(p, Current(p))' = NameOf(p, Current(p)) /\ Current(p)' = Current(p)
      BY <1>1 DEF NameOf, Current
    <3>2. QED  BY <1>1, <3>1 DEF Provisions, Seen
  <2>1. CASE run[q].pc \in {"provisioning", "act"}
    <3>1. NameOf(q, Current(q)) \in Name  BY <1>0, <2>1, CreatingIs DEF Creating
    <3>2. QED  BY <1>2, <3>1 DEF OwnInv, Provisions, Seen
  <2>2. QED  BY <2>1
<1>10. QED
  BY <1>1, <1>4, <1>5, <1>6, <1>7, <1>8, <1>9, HandsAside, RemoveByHandKeepsBase DEF OwnInv

\* A kill ends every run,
LEMMA KillKeepsOwn == ASSUME OwnInv, Kill PROVE OwnInv'
<1>1. /\ \A r \in Run : run'[r].pc \in {"idle", "ended"} /\ run'[r].ids = {}
      /\ UNCHANGED <<record, owner, maker, secret, app, overtaken, removed>>
  BY KillIs DEF OwnInv, branch, history
<1>2. {"idle", "ended"} \cap (Accepting \cup Working \cup {"deploy", "health", "provisioning", "act"}) = {}
  BY DEF Accepting, Working
<1>3. Solo' /\ Holders' /\ Resumes' /\ DbListed' /\ Provisions' /\ Seen'
  BY <1>1, <1>2 DEF Solo, Holders, Resumes, DbListed, Provisions, Seen, Live
<1>4. RunsEarned'  BY <1>1 DEF RunsEarned, Earned
<1>5. RecordsEarned' /\ Registered' /\ AppsOwn' /\ MadeBy' /\ SucceededIsWhole'
  BY <1>1 DEF OwnInv, RecordsEarned, Earned, Registered, AppsOwn, MadeBy, SucceededIsWhole, Listed
<1>6. QED  BY <1>3, <1>4, <1>5, KillKeepsBase DEF OwnInv

\* and a start fails every record.
LEMMA BootKeepsOwn == ASSUME OwnInv, Boot PROVE OwnInv'
<1>0. BaseInv  BY DEF OwnInv
<1>1. /\ UNCHANGED <<run, owner, maker, secret, app, overtaken, removed>>
      /\ \A r \in Run : ~Live(r)
      /\ \A d \in Deployment : record[d] = None <=> record'[d] = None
      /\ \A d \in Deployment : record[d] # None =>
              /\ record'[d].copy = record[d].copy /\ record'[d].ids = record[d].ids
              /\ record'[d].status = "succeeded" => record[d].status = "succeeded"
  BY <1>0, BootIs DEF BaseInv, DownIsQuiet, branch, history
<1>2. {"deploy", "health", "provisioning", "act"} \subseteq Working  BY DEF Working
<1>3. Solo' /\ Holders' /\ Resumes' /\ DbListed' /\ Provisions' /\ Seen'
  BY <1>1, <1>2 DEF Solo, Holders, Resumes, DbListed, Provisions, Seen, Live
<1>4. RunsEarned'  BY <1>1 DEF OwnInv, RunsEarned, Earned
<1>5. RecordsEarned'  BY <1>1 DEF OwnInv, RecordsEarned, Earned
<1>6. Registered' /\ AppsOwn' /\ MadeBy'  BY <1>1 DEF OwnInv, Registered, AppsOwn, MadeBy
<1>7. SucceededIsWhole'  BY <1>1 DEF OwnInv, SucceededIsWhole, Listed
<1>8. QED  BY <1>0, <1>3, <1>4, <1>5, <1>6, <1>7, BootKeepsBase DEF OwnInv

\* The invariant holds at first,
LEMMA InitOwn == Init => OwnInv
<1> SUFFICES ASSUME Init PROVE OwnInv  OBVIOUS
<1>1. /\ \A r \in Run : run[r].pc = "idle" /\ run[r].ids = {} /\ ~Live(r)
      /\ \A d \in Deployment : record[d] = None
      /\ \A x \in Name : owner[x] = None /\ maker[x] = None /\ app[x] = None
  BY DEF Init, Idle, Live, Accepting, Working
<1>2. None \notin Deployment /\ "idle" \notin Accepting \cup Working
  BY ExecutorAssumption DEF Owner, Accepting, Working
<1>3. Solo /\ Holders /\ Resumes /\ DbListed /\ Provisions /\ Seen
  BY <1>1, <1>2 DEF Solo, Holders, Resumes, DbListed, Provisions, Seen, Live
<1>4. RunsEarned /\ RecordsEarned /\ Registered /\ AppsOwn /\ MadeBy /\ SucceededIsWhole
  BY <1>1, <1>2 DEF RunsEarned, RecordsEarned, Earned, Registered, AppsOwn, MadeBy, SucceededIsWhole
<1>5. QED  BY <1>3, <1>4, InitBase DEF OwnInv

\* every step keeps it,
LEMMA NextKeepsOwn == ~Twice /\ OwnInv /\ [Next]_vars => OwnInv'
<1> SUFFICES ASSUME ~Twice, OwnInv, [Next]_vars PROVE OwnInv'  OBVIOUS
<1>1. CASE UNCHANGED vars
  <2>1. UNCHANGED <<record, run, owner, maker, secret, app, overtaken, tainted, removed>>
    BY <1>1 DEF vars, branch, history
  <2>2. RunsEarned' /\ RecordsEarned' /\ Registered' /\ AppsOwn' /\ MadeBy' /\ SucceededIsWhole'
    BY <2>1 DEF OwnInv, RunsEarned, RecordsEarned, Earned, Registered, AppsOwn, MadeBy, SucceededIsWhole, Listed
  <2>3. Solo' /\ Holders' /\ Resumes'
    BY <2>1 DEF OwnInv, Solo, Holders, Holds, Resumes, ResumesFrom, Live
  <2>4. DbListed' /\ Provisions' /\ Seen'
    BY <2>1 DEF OwnInv, DbListed, Provisions, Seen, NameOf, Current, Listed
  <2>5. QED  BY <2>2, <2>3, <2>4, NextKeepsBase DEF OwnInv
<1>2. CASE \E d \in Deployment : Ask(d) \/ LeaseEnds(d)
  BY <1>2, AskKeepsOwn, LeaseEndsKeepsOwn
<1>3. CASE \E r \in Run : Refuse(r) \/ Mint(r) \/ Claim(r) \/ Step(r)
  BY <1>3, RefuseKeepsOwn, MintKeepsOwn, ClaimKeepsOwn, StepKeepsOwn
<1>4. CASE \E x \in Name : AddByHand(x) \/ RemoveByHand(x)
  BY <1>4, AddByHandKeepsOwn, RemoveByHandKeepsOwn
<1>5. CASE Kill \/ Boot  BY <1>5, KillKeepsOwn, BootKeepsOwn
<1>6. QED  BY <1>1, <1>2, <1>3, <1>4, <1>5 DEF Next

\* and it is enough.
LEMMA OwnIsRight == OwnInv => RecordsHold
<1> SUFFICES ASSUME OwnInv PROVE RecordsHold  OBVIOUS
<1>1. RunningIsLive
  BY DEF OwnInv, BaseInv, TypeOK, Record, Claims, ClaimsOf, RunningIsLive, Lives
<1>2. NoTakeover  BY DEF OwnInv, AppsOwn, NoTakeover
<1>3. OneCopy  BY DEF OwnInv, MadeBy, OneCopy
<1>4. QED  BY <1>1, <1>2, <1>3 DEF OwnInv, RecordsHold, RecordsAreTrue, CopiesApart

\* A deployment's record is true and its services are its own: what reads succeeded is whole, no
\* copy takes a service of another, and no deployment makes two copies.  As in the run, a
\* deployment is not called again while a call of it is being accepted.
THEOREM RecordsTheorem == ASSUME ~Twice PROVE Spec => []RecordsHold
<1>1. OwnInv /\ [Next]_vars => OwnInv'  BY NextKeepsOwn
<1>2. QED  BY <1>1, InitOwn, OwnIsRight, PTL DEF Spec

-------------------------------------------------------------------------------
\* Values.

BoundTo(x) == secret[x[1]] # None /\ secret[x[1]].copy = x[2]

\* Neither did another copy take its variable, nor was it removed.
Spared(x) == x \notin tainted /\ x \notin removed

Finding == Accepting \cup Creating \cup {"write"}
Binds == {"ready", "deploy", "health"}

\* Write_variables binds every variable to one copy, with one value.
OneValue == \A s, t \in Web : secret[s] # None /\ secret[t] # None => secret[s] = secret[t]

\* A container was started with the value that is bound to it.
AppsBound ==
    \A x \in Name : app[x] # None /\ Spared(x) /\ app[x].by \notin overtaken =>
        BoundTo(x) /\ secret[x[1]].value = app[x].value

\* A run past write_variables finds its variables where it wrote them.
RunsBound ==
    \A r \in Run : run[r].pc \in Binds =>
        \A s \in Web : Spared(<<s, run[r].copy>>) => BoundTo(<<s, run[r].copy>>)

\* A run that will write recovered the value of every container its deployment started.
Found(r) ==
    \A x \in Name : app[x] # None /\ Spared(x) /\ app[x].by = run[r].of => run[r].value = app[x].value
ValuesFound ==
    \A r \in Run : run[r].pc \in Finding /\ run[r].of \notin overtaken => Found(r)

ValuesInv == OwnInv /\ OneValue /\ AppsBound /\ RunsBound /\ ValuesFound

\* A step that leaves the branch's values alone, and begins no run without them.
LEMMA ValuesStand ==
  ASSUME ValuesInv, OwnInv', UNCHANGED <<secret, app, tainted, removed>>, overtaken \subseteq overtaken',
         \A q \in Run : run'[q].pc \in Binds => run[q].pc \in Binds /\ run'[q].copy = run[q].copy,
         \A q \in Run : run'[q].pc \in Finding /\ run'[q].of \notin overtaken' =>
            \/ Found(q)'
            \/ run[q].pc \in Finding /\ run'[q].of = run[q].of /\ run'[q].value = run[q].value
  PROVE  ValuesInv'
<1>1. OneValue'  BY DEF ValuesInv, OneValue
<1>2. AppsBound'  BY DEF ValuesInv, AppsBound, BoundTo, Spared
<1>3. RunsBound'  BY DEF ValuesInv, RunsBound, BoundTo, Spared
<1>4. ValuesFound'
  <2> SUFFICES ASSUME NEW q \in Run, run'[q].pc \in Finding, run'[q].of \notin overtaken'
               PROVE  Found(q)'
    BY DEF ValuesFound
  <2>1. CASE run[q].pc \in Finding /\ run'[q].of = run[q].of /\ run'[q].value = run[q].value
    BY <2>1 DEF ValuesInv, ValuesFound, Found, Spared
  <2>2. QED  BY <2>1
<1>5. QED  BY <1>1, <1>2, <1>3, <1>4 DEF ValuesInv

\* What a run of a deployment recovers is what that deployment's containers were started with.
LEMMA RecoversThem ==
  ASSUME ValuesInv, NEW d \in Deployment \ overtaken, NEW x \in Name,
         app[x] # None, Spared(x), app[x].by = d
  PROVE  /\ record[d] # None
         /\ Recovered(record[d]) # {}
         /\ \A v \in Recovered(record[d]) : v = app[x].value
<1>1. x[1] \in Web /\ maker[x] = d  BY DEF ValuesInv, OwnInv, AppsOwn, Spared
<1>2. record[d] # None /\ x[1] \in record[d].ids /\ x[2] = record[d].copy
  BY <1>1 DEF ValuesInv, OwnInv, MadeBy
<1>3. secret[x[1]] # None /\ secret[x[1]].copy = x[2] /\ secret[x[1]].value = app[x].value
  BY DEF ValuesInv, AppsBound, BoundTo
<1>4. app[x].value \in Recovered(record[d])  BY <1>1, <1>2, <1>3 DEF Recovered
<1>5. ASSUME NEW v \in Recovered(record[d]) PROVE v = app[x].value
  <2>1. PICK s \in Web : secret[s] # None /\ secret[s].value = v  BY DEF Recovered
  <2>2. secret[s] = secret[x[1]]  BY <1>1, <1>3, <2>1 DEF ValuesInv, OneValue
  <2>3. QED  BY <1>3, <2>1, <2>2
<1>6. QED  BY <1>2, <1>4, <1>5

\* A call recovers the value (recoverStoredVariables).
LEMMA AskKeepsValues == ASSUME ~Twice, ValuesInv, NEW d \in Deployment, Ask(d) PROVE ValuesInv'
<1>0. OwnInv /\ BaseInv /\ TypeOK /\ OwnInv'  BY AskKeepsOwn DEF ValuesInv, OwnInv, BaseInv
<1>1. /\ UNCHANGED <<secret, app, tainted, removed>> /\ overtaken \subseteq overtaken'
  BY DEF Ask, branch
<1>2. PICK r \in Run :
          /\ run[r].pc = "idle" /\ run' \in [Run -> Attempt] /\ Others(r) /\ run'[r] = Asked(d)
  BY <1>0, AskIs, Zenon
<1>3. /\ run'[r].pc = "accepting" /\ run'[r].of = d
      /\ record[d] # None =>
            run'[r].value = IF Recovered(record[d]) = {} THEN 0 ELSE CHOOSE v \in Recovered(record[d]) : TRUE
  <2>1. LET n == Asked(d) IN
        /\ n.pc = "accepting" /\ n.of = d
        /\ record[d] # None =>
              n.value = IF Recovered(record[d]) = {} THEN 0 ELSE CHOOSE v \in Recovered(record[d]) : TRUE
    BY <1>0, AskedIs
  <2>2. QED  BY <1>2, <2>1
<1>4. ASSUME d \notin overtaken' PROVE Found(r)'
  <2> SUFFICES ASSUME NEW x \in Name, app[x] # None, Spared(x), app[x].by = d
               PROVE  run'[r].value = app[x].value
    BY <1>1, <1>3 DEF Found, Spared
  <2>1. /\ record[d] # None /\ Recovered(record[d]) # {}
        /\ \A v \in Recovered(record[d]) : v = app[x].value
    BY <1>1, <1>4, RecoversThem
  <2>2. (CHOOSE v \in Recovered(record[d]) : TRUE) \in Recovered(record[d])  BY <2>1
  <2>3. QED  BY <1>3, <2>1, <2>2
<1>5. run'[r].pc \notin Binds  BY <1>3 DEF Binds
<1>6. QED  BY <1>0, <1>1, <1>2, <1>3, <1>4, <1>5, ValuesStand DEF Others

\* A step that takes a run on within the steps before write_variables, or within those after.
LEMMA ValuesOnward ==
  ASSUME ValuesInv, OwnInv', NEW r \in Run, Onward(r) \/ Ends(r),
         UNCHANGED <<secret, app, history>>,
         Onward(r) => \/ run[r].pc \in Finding /\ run'[r].pc \in Finding
                      \/ run[r].pc \in Binds /\ run'[r].pc \in Binds
  PROVE  ValuesInv'
<1>1. UNCHANGED <<overtaken, tainted, removed>>  BY DEF history
<1>2. Others(r) /\ (Ends(r) => run'[r].pc \notin Binds \cup Finding)
  BY EndsPc DEF Onward, Ends, Binds, Finding, Accepting, Creating
<1>3. Binds \cap Finding = {}  BY DEF Binds, Finding, Accepting, Creating
<1>4. Onward(r) => run'[r].of = run[r].of /\ run'[r].copy = run[r].copy /\ run'[r].value = run[r].value
  BY DEF Onward
<1>5. QED  BY <1>1, <1>2, <1>3, <1>4, ValuesStand DEF Others

\* Write_variables writes the value that was recovered, or takes the variables from another copy.
LEMMA WriteKeepsValues == ASSUME ValuesInv, OwnInv', NEW r \in Run, Write(r) PROVE ValuesInv'
<1>0. OwnInv /\ BaseInv /\ TypeOK  BY DEF ValuesInv, OwnInv, BaseInv
<1>1. run[r].pc = "write" /\ UNCHANGED <<owner, maker, app, chain, up, overtaken, removed>>
  BY <1>0, WriteRuns
<1>2. CASE Ends(r) /\ UNCHANGED <<secret, tainted>>
  <2>1. ~Onward(r)  BY <1>2, EndsPc DEF Onward, Working
  <2>2. QED  BY <1>1, <1>2, <2>1, ValuesOnward DEF history
<1>3. CASE Onward(r) /\ run'[r].pc = "ready" /\ WriteEnv(r)
  <2> DEFINE value == IF run[r].value = 0 THEN r ELSE run[r].value
  <2>1. /\ secret' = [s \in Web |-> [copy |-> run[r].copy, value |-> value]]
        /\ tainted \subseteq tainted'
        /\ \A s \in Web : secret[s] # None /\ secret[s].copy # run[r].copy => <<s, secret[s].copy>> \in tainted'
    BY <1>3 DEF WriteEnv
  <2>2. \A s \in Web : secret'[s] # None /\ secret'[s].copy = run[r].copy /\ secret'[s].value = value
    <3>1. run[r].copy \in Copy /\ value \in Run  BY <1>0, Fields
    <3>2. [copy |-> run[r].copy, value |-> value] \in Binding  BY <3>1 DEF Binding
    <3>3. QED  BY <2>1, <3>2, ExecutorAssumption
  <2>3. /\ Others(r) /\ run'[r].copy = run[r].copy
        /\ run[r].of \in Deployment /\ run[r].ids = Service /\ run[r].copy \in Copy
    BY <1>0, <1>1, <1>3, WorkingIs, Fields DEF Onward, BaseInv, InStep, InStepOf, Complete
  <2>4. ASSUME NEW s \in Web, NEW c, BoundTo(<<s, c>>), Spared(<<s, c>>)' PROVE c = run[r].copy
    BY <2>1, <2>4 DEF BoundTo, Spared
  <2>5. \A x : Spared(x)' => Spared(x)  BY <1>1, <2>1 DEF Spared
  <2>6. OneValue'  BY <2>1 DEF OneValue
  <2>7. AppsBound'
    <3> SUFFICES ASSUME NEW x \in Name, app[x] # None, Spared(x)', app[x].by \notin overtaken
                 PROVE  BoundTo(x)' /\ secret'[x[1]].value = app[x].value
      BY <1>1 DEF AppsBound
    <3>1. BoundTo(x) /\ secret[x[1]].value = app[x].value  BY <2>5 DEF ValuesInv, AppsBound
    <3>2. x[1] \in Web /\ maker[x] = app[x].by  BY <2>5 DEF OwnInv, ValuesInv, AppsOwn, Spared
    <3>3. x = <<x[1], x[2]>>  BY DEF Name
    <3>4. x[2] = run[r].copy  BY <2>4, <3>1, <3>2, <3>3
    <3>5. maker[x] = run[r].of
      BY <2>3, <2>5, <3>2, <3>3, <3>4 DEF ValuesInv, OwnInv, RunsEarned, Earned, Spared, Web
    <3>6. run[r].value = app[x].value
      BY <1>1, <2>5, <3>2, <3>5 DEF ValuesInv, ValuesFound, Found, Finding
    <3>7. app[x].value \in Run /\ app[x].value # 0
      BY <1>0, <3>1, <3>2, ExecutorAssumption DEF TypeOK, Binding, BoundTo, Run
    <3>8. QED  BY <2>2, <3>2, <3>4, <3>6, <3>7 DEF BoundTo
  <2>8. RunsBound'
    <3> SUFFICES ASSUME NEW q \in Run, run'[q].pc \in Binds, NEW s \in Web, Spared(<<s, run[q].copy>>)'
                 PROVE  secret'[s] # None /\ secret'[s].copy = run'[q].copy
      BY DEF RunsBound, BoundTo
    <3>1. CASE q = r  BY <2>2, <2>3, <3>1
    <3>2. CASE q # r
      <4>1. run'[q] = run[q]  BY <2>3, <3>2 DEF Others
      <4>2. PICK c \in Copy : c = run[q].copy  BY <1>0, Fields
      <4>3. Spared(<<s, c>>)'  BY <4>1, <4>2 DEF Spared
      <4>4. BoundTo(<<s, c>>)  BY <2>5, <4>1, <4>2, <4>3 DEF ValuesInv, RunsBound
      <4>5. QED  BY <2>2, <2>4, <4>1, <4>2, <4>3, <4>4
    <3>3. QED  BY <3>1, <3>2
  <2>9. ValuesFound'
    <3> SUFFICES ASSUME NEW q \in Run, run'[q].pc \in Finding, run'[q].of \notin overtaken
                 PROVE  Found(q)'
      BY <1>1 DEF ValuesFound
    <3>1. q # r  BY <1>3 DEF Finding, Accepting, Creating
    <3>2. run'[q] = run[q]  BY <2>3, <3>1 DEF Others
    <3>3. QED  BY <1>1, <2>5, <3>2 DEF ValuesInv, ValuesFound, Found
  <2>10. QED  BY <2>6, <2>7, <2>8, <2>9 DEF ValuesInv
<1>4. QED  BY <1>0, <1>2, <1>3, WriteRuns

\* A container is handed the value that is bound to it.
LEMMA InjectsBound ==
  ASSUME ValuesInv, NEW r \in Run, run[r].pc \in Binds, NEW s \in Web, Spared(<<s, run[r].copy>>)
  PROVE  /\ BoundTo(<<s, run[r].copy>>)
         /\ Injected(<<s, run[r].copy>>) = secret[s].value
BY DEF ValuesInv, RunsBound, BoundTo, Injected

\* Deploy starts a container with the value that is bound.
LEMMA DeployKeepsValues == ASSUME ValuesInv, OwnInv', NEW r \in Run, Deploy(r) PROVE ValuesInv'
<1>0. OwnInv /\ BaseInv /\ TypeOK  BY DEF ValuesInv, OwnInv, BaseInv
<1>1. PICK x \in Name : /\ x = NameOf(r, Current(r)) /\ x = <<Current(r), run[r].copy>> /\ x[1] = Current(r)
  BY <1>0, DeployRuns, WebNames, Fields DEF NameOf
<1>2. /\ run[r].pc = "deploy" /\ x[1] \in Web /\ UNCHANGED <<secret, overtaken, tainted, removed>>
      /\ run[r].pc \in Binds /\ run[r].pc \in Working
  BY <1>0, <1>1, DeployRuns DEF history, Binds, Working
<1>3. CASE Ends(r) /\ (app' = [app EXCEPT ![x] = None] \/ UNCHANGED app)
  <2>1. \A y \in Name : app'[y] # None => app'[y] = app[y]
    BY <1>0, <1>3 DEF TypeOK
  <2>2. Others(r) /\ run'[r].pc \notin Binds \cup Finding
    BY <1>3, EndsPc DEF Ends, Binds, Finding, Accepting, Creating
  <2>3. OneValue'  BY <1>2 DEF ValuesInv, OneValue
  <2>4. AppsBound'  BY <1>2, <2>1 DEF ValuesInv, AppsBound, BoundTo, Spared
  <2>5. RunsBound'  BY <1>2, <2>2 DEF ValuesInv, RunsBound, BoundTo, Spared, Others
  <2>6. ValuesFound'  BY <1>2, <2>1, <2>2 DEF ValuesInv, ValuesFound, Found, Spared, Others
  <2>7. QED  BY <2>3, <2>4, <2>5, <2>6 DEF ValuesInv
<1>4. CASE /\ Onward(r) /\ run'[r].pc \in {"deploy", "health"}
           /\ app' = [app EXCEPT ![x] = [by |-> run[r].of, value |-> Injected(x)]]
  <2>1. /\ app'[x].by = run[r].of /\ app'[x].value = Injected(x)
        /\ \A y \in Name : y # x => app'[y] = app[y]
    BY <1>0, <1>4 DEF TypeOK
  <2>2. /\ Others(r) /\ run'[r].copy = run[r].copy
        /\ run'[r].pc \in Binds /\ run'[r].pc \notin Finding
    BY <1>4 DEF Onward, Binds, Finding, Accepting, Creating
  <2>3. OneValue'  BY <1>2 DEF ValuesInv, OneValue
  <2>4. AppsBound'
    <3> SUFFICES ASSUME NEW y \in Name, app'[y] # None, Spared(y), app'[y].by \notin overtaken
                 PROVE  BoundTo(y) /\ secret[y[1]].value = app'[y].value
      BY <1>2 DEF AppsBound, BoundTo, Spared
    <3>1. CASE y = x  BY <1>1, <1>2, <2>1, <3>1, InjectsBound
    <3>2. CASE y # x  BY <2>1, <3>2 DEF ValuesInv, AppsBound
    <3>3. QED  BY <3>1, <3>2
  <2>5. RunsBound'  BY <1>2, <2>2 DEF ValuesInv, RunsBound, BoundTo, Spared, Others
  <2>6. ValuesFound'
    <3> SUFFICES ASSUME NEW q \in Run, run'[q].pc \in Finding, run'[q].of \notin overtaken,
                        NEW y \in Name, app'[y] # None, Spared(y), app'[y].by = run'[q].of
                 PROVE  run'[q].value = app'[y].value
      BY <1>2 DEF ValuesFound, Found, Spared
    <3>1. q # r /\ run'[q] = run[q]  BY <2>2 DEF Others
    <3>2. y # x
      <4>1. Live(q) /\ Live(r)
        BY <1>2, <3>1 DEF Live, Finding, Creating, Working
      <4>2. run[q].of \in Deployment  BY <1>0, <4>1 DEF BaseInv, InStep, InStepOf
      <4>3. run[q].of # run[r].of  BY <3>1, <4>1, <4>2 DEF OwnInv, ValuesInv, Solo
      <4>4. QED  BY <2>1, <3>1, <4>3
    <3>3. QED  BY <2>1, <3>1, <3>2 DEF ValuesInv, ValuesFound, Found
  <2>7. QED  BY <2>3, <2>4, <2>5, <2>6 DEF ValuesInv
<1>5. QED  BY <1>0, <1>1, <1>3, <1>4, DeployRuns

\* Every step of a run keeps the values,
LEMMA StepKeepsValues == ASSUME ValuesInv, NEW r \in Run, Step(r) PROVE ValuesInv'
<1>0. OwnInv /\ BaseInv /\ OwnInv'  BY StepKeepsOwn DEF ValuesInv, OwnInv
<1>1. Ends(r) => ~Onward(r)  BY EndsPc DEF Onward, Working
<1>2. {"look", "act", "queued", "provisioning", "write"} \subseteq Finding
      /\ {"ready", "deploy", "health"} \subseteq Binds
  BY DEF Finding, Creating, Binds
<1>3. CASE Look(r)  BY <1>0, <1>2, <1>3, LookMoves, ValuesOnward DEF branch
<1>4. CASE Reuse(r)  BY <1>0, <1>2, <1>4, ReuseRuns, ValuesOnward DEF branch
<1>5. CASE Conflict(r)  BY <1>0, <1>1, <1>5, ConflictRuns, ValuesOnward DEF branch
<1>6. CASE AddWeb(r)  BY <1>0, <1>1, <1>2, <1>6, AddWebRuns, ValuesOnward
<1>7. CASE CallDb(r)  BY <1>0, <1>2, <1>7, CallDbRuns, ValuesOnward DEF branch
<1>8. CASE AddDb(r)  BY <1>0, <1>1, <1>2, <1>8, AddDbRuns, ValuesOnward
<1>9. CASE Provisioned(r)  BY <1>0, <1>1, <1>2, <1>9, ProvisionedRuns, ValuesOnward
<1>10. CASE Write(r)  BY <1>0, <1>10, WriteKeepsValues
<1>11. CASE Ready(r)  BY <1>0, <1>1, <1>2, <1>11, ReadyRuns, ValuesOnward DEF branch
<1>12. CASE Deploy(r)  BY <1>0, <1>12, DeployKeepsValues
<1>13. CASE Health(r)  BY <1>0, <1>1, <1>13, HealthRuns, ValuesOnward DEF branch
<1>14. QED
  BY <1>3, <1>4, <1>5, <1>6, <1>7, <1>8, <1>9, <1>10, <1>11, <1>12, <1>13 DEF Step

\* the steps before it,
LEMMA AcceptedKeepsValues ==
  ASSUME ValuesInv, NEW r \in Run, Refuse(r) \/ Mint(r) \/ Claim(r)
  PROVE  ValuesInv'
<1>0. OwnInv /\ BaseInv /\ OwnInv'
  BY RefuseKeepsOwn, MintKeepsOwn, ClaimKeepsOwn DEF ValuesInv, OwnInv
<1>1. /\ Others(r) /\ UNCHANGED <<branch, history>> /\ run[r].pc \in Finding
      /\ run'[r].pc \notin Binds
      /\ run'[r].pc \in Finding => run'[r].of = run[r].of /\ run'[r].value = run[r].value
  BY <1>0, RefuseIs, MintIs, ClaimIs, EndedIs DEF Finding, Accepting, Creating, Binds
<1>2. UNCHANGED <<secret, app, tainted, removed, overtaken>>  BY <1>1 DEF branch, history
<1>3. QED  BY <1>0, <1>1, <1>2, ValuesStand DEF Others

\* a removal unbinds what is removed alone,
LEMMA RemoveByHandKeepsValues ==
  ASSUME ValuesInv, OwnInv', NEW x \in Name, RemoveByHand(x) PROVE ValuesInv'
<1>0. TypeOK  BY DEF ValuesInv, OwnInv, BaseInv
<1>1. /\ app' = [app EXCEPT ![x] = None] /\ removed' = removed \cup {x}
      /\ secret' = [s \in Web |-> IF x = <<s, IF secret[s] = None THEN 0 ELSE secret[s].copy>>
                                  THEN None ELSE secret[s]]
      /\ UNCHANGED <<run, overtaken, tainted>>
  BY DEF RemoveByHand
<1>2. \A y \in Name : app'[y] # None => app'[y] = app[y]  BY <1>0, <1>1 DEF TypeOK
<1>3. \A y : Spared(y)' => y # x /\ Spared(y)  BY <1>1 DEF Spared
<1>4. \A s \in Web : secret'[s] # None => secret'[s] = secret[s]  BY <1>1
<1>5. ASSUME NEW s \in Web, NEW c, BoundTo(<<s, c>>), <<s, c>> # x
      PROVE  secret'[s] = secret[s] /\ BoundTo(<<s, c>>)'
  BY <1>1, <1>5 DEF BoundTo
<1>6. OneValue'  BY <1>4 DEF ValuesInv, OneValue
<1>7. AppsBound'
  <2> SUFFICES ASSUME NEW y \in Name, app'[y] # None, Spared(y)', app'[y].by \notin overtaken
               PROVE  BoundTo(y)' /\ secret'[y[1]].value = app'[y].value
    BY <1>1 DEF AppsBound
  <2>1. app'[y] = app[y] /\ Spared(y) /\ y # x  BY <1>2, <1>3
  <2>2. BoundTo(y) /\ secret[y[1]].value = app[y].value  BY <2>1 DEF ValuesInv, AppsBound
  <2>3. y[1] \in Web /\ y = <<y[1], y[2]>>  BY <2>1 DEF ValuesInv, OwnInv, AppsOwn, Name
  <2>4. QED  BY <1>5, <2>1, <2>2, <2>3
<1>8. RunsBound'
  <2> SUFFICES ASSUME NEW q \in Run, run[q].pc \in Binds, NEW s \in Web, Spared(<<s, run[q].copy>>)'
               PROVE  BoundTo(<<s, run[q].copy>>)'
    BY <1>1 DEF RunsBound
  <2>1. PICK c \in Copy : c = run[q].copy  BY <1>0, Fields
  <2>2. Spared(<<s, c>>)'  BY <1>1, <2>1 DEF Spared
  <2>3. BoundTo(<<s, c>>) /\ <<s, c>> # x  BY <1>3, <2>1, <2>2 DEF ValuesInv, RunsBound
  <2>4. BoundTo(<<s, c>>)'  BY <1>5, <2>3
  <2>5. QED  BY <1>1, <2>1, <2>4 DEF BoundTo
<1>9. ValuesFound'  BY <1>1, <1>2, <1>3 DEF ValuesInv, ValuesFound, Found
<1>10. QED  BY <1>6, <1>7, <1>8, <1>9 DEF ValuesInv

\* and so every step keeps them.
LEMMA NextKeepsValues == ~Twice /\ ValuesInv /\ [Next]_vars => ValuesInv'
<1> SUFFICES ASSUME ~Twice, ValuesInv, [Next]_vars PROVE ValuesInv'  OBVIOUS
<1>0. OwnInv /\ BaseInv /\ OwnInv'  BY NextKeepsOwn DEF ValuesInv, OwnInv
<1>1. CASE UNCHANGED vars
  BY <1>0, <1>1, ValuesStand DEF vars, branch, history
<1>2. CASE \E d \in Deployment : Ask(d)  BY <1>2, AskKeepsValues
<1>3. CASE \E d \in Deployment : LeaseEnds(d)
  BY <1>0, <1>3, ValuesStand DEF LeaseEnds, branch, history
<1>4. CASE \E r \in Run : Refuse(r) \/ Mint(r) \/ Claim(r)  BY <1>4, AcceptedKeepsValues
<1>5. CASE \E r \in Run : Step(r)  BY <1>5, StepKeepsValues
<1>6. CASE \E x \in Name : AddByHand(x)
  BY <1>0, <1>6, ValuesStand DEF AddByHand, history
<1>7. CASE \E x \in Name : RemoveByHand(x)  BY <1>0, <1>7, RemoveByHandKeepsValues
<1>8. CASE Kill
  <2>1. \A r \in Run : run'[r].pc \notin Binds \cup Finding
    BY <1>0, <1>8, KillIs DEF Binds, Finding, Accepting, Creating
  <2>2. QED  BY <1>0, <1>8, <2>1, ValuesStand DEF Kill, branch, history
<1>9. CASE Boot
  BY <1>0, <1>9, ValuesStand DEF Boot, branch, history
<1>10. QED
  BY <1>1, <1>2, <1>3, <1>4, <1>5, <1>6, <1>7, <1>8, <1>9 DEF Next

\* At first there are none.
LEMMA InitValues == Init => ValuesInv
<1> SUFFICES ASSUME Init PROVE ValuesInv  OBVIOUS
<1>1. /\ \A r \in Run : run[r].pc = "idle"
      /\ \A x \in Name : app[x] = None
      /\ \A s \in Web : secret[s] = None
  BY DEF Init, Idle
<1>2. "idle" \notin Binds \cup Finding  BY DEF Binds, Finding, Accepting, Creating
<1>3. QED
  BY <1>1, <1>2, InitOwn DEF ValuesInv, OneValue, AppsBound, RunsBound, ValuesFound

\* A container that is there is replaced by Deploy alone.
LEMMA AppsChange ==
  ASSUME OwnInv, [Next]_vars, NEW x \in Name, app[x] # None, app'[x] # None, app'[x] # app[x]
  PROVE  \E r \in Run : /\ Deploy(r) /\ x = NameOf(r, Current(r))
                        /\ app'[x].value = Injected(x)
<1>0. BaseInv /\ app \in [Name -> Container \cup {None}]  BY DEF OwnInv, BaseInv, TypeOK
<1>1. PICK r \in Run : Deploy(r)
  <2>1. ~UNCHANGED app  OBVIOUS
  <2>2. ASSUME NEW y \in Name, RemoveByHand(y) PROVE FALSE
    BY <1>0, <2>2 DEF RemoveByHand
  <2>3. ASSUME NEW r \in Run, Step(r) PROVE Deploy(r)
    BY <1>0, <2>1, <2>3 DEF Step, Look, Reuse, Conflict, AddWeb, CallDb, AddDb, Provisioned, Write, Ready,
                            Health, branch
  <2>4. QED
    BY <2>1, <2>2, <2>3 DEF Next, vars, Ask, LeaseEnds, Refuse, Mint, Claim, AddByHand, Kill, Boot, branch
<1>2. PICK y : y = NameOf(r, Current(r))  OBVIOUS
<1>3. \/ app' = [app EXCEPT ![y] = [by |-> run[r].of, value |-> Injected(y)]]
      \/ app' = [app EXCEPT ![y] = None] \/ UNCHANGED app
  BY <1>0, <1>1, <1>2, DeployRuns
<1>4. QED  BY <1>0, <1>1, <1>2, <1>3

\* A retry does not rotate the value a container was started with: whatever replaces a
\* container hands the new one the value the old one had, unless the variable went to another copy,
\* the service was removed, or the deployment was called again while its run lived.
THEOREM ValuesTheorem == ASSUME ~Twice PROVE Spec => ValueKept
<1> DEFINE Kept ==
      \A x \in Name \ (tainted' \cup removed) :
          app[x] # None /\ app'[x] # None /\ app[x].by \notin overtaken =>
              app'[x].value = app[x].value
<1>1. ValuesInv /\ [Next]_vars => Kept
  <2> SUFFICES ASSUME ValuesInv, [Next]_vars, NEW x \in Name, x \notin tainted', x \notin removed,
                      app[x] # None, app'[x] # None, app[x].by \notin overtaken, app'[x] # app[x]
               PROVE  app'[x].value = app[x].value
    OBVIOUS
  <2>1. OwnInv /\ BaseInv  BY DEF ValuesInv, OwnInv
  <2>2. PICK r \in Run : Deploy(r) /\ x = NameOf(r, Current(r)) /\ app'[x].value = Injected(x)
    BY <2>1, AppsChange
  <2>3. run[r].pc \in Binds /\ Current(r) \in Web /\ x = <<Current(r), run[r].copy>> /\ x[1] = Current(r)
        /\ tainted' = tainted
    BY <2>1, <2>2, DeployRuns DEF Binds, NameOf, history
  <2>4. Injected(x) = secret[x[1]].value  BY <2>3, InjectsBound DEF Spared
  <2>5. secret[x[1]].value = app[x].value  BY <2>3 DEF ValuesInv, AppsBound, Spared
  <2>6. QED  BY <2>2, <2>4, <2>5
<1>2. ValuesInv /\ [Next]_vars => ValuesInv'  BY NextKeepsValues
<1>3. Spec => [][Kept]_vars
  BY <1>1, <1>2, InitValues, PTL DEF Spec
<1>4. QED  BY <1>3 DEF ValueKept

-------------------------------------------------------------------------------
\* The requests.

\* No failure but a missing thing is answered as an absence.
OnlyMissingIs404(code) ==
    /\ \A f \in DOMAIN code \ {"missing", "moved", "exists", "partial"} : code[f] # 404
    /\ "partial" \in DOMAIN code => code["partial"] \notin {200, 404}

\* The checks of a route are in an order.
IsChecks(s) == Len(s) \in Nat /\ DOMAIN s = 1..Len(s)

\* What the answers of a route rest on: what it adds is named by its branch, and that a branch
\* has nothing to be made from is no absence of the project.
SoundRoute(r) ==
    /\ IsChecks(r.checks) /\ r.on \subseteq Thing
    /\ OnlyMissingIs404(r.code)
    /\ r.does = "add" /\ "feat" \in r.on =>
          \A f \in DOMAIN r.code \cap {"missing", "moved"} : r.code[f] # 404

SoundGroup(group) == \A r \in DOMAIN group : SoundRoute(group[r])

\* What clients have asked for.
Requested == [route : Used, on : Thing, wrong : {"none", "body", "late"}]

ApiTyped ==
    /\ there \subseteq Thing /\ gone \subseteq Thing
    /\ policy \in [Governed -> Decision]
    /\ pending \in [Governed -> Nat] /\ granted \in [Governed -> Nat]
    /\ \A c \in Client : request[c] # Nothing =>
          request[c] \in Requested /\ request[c].on \in Routes[request[c].route].on
    /\ request = [c \in Client |-> request[c]]

\* Approvals of an action are asked for when none is granted: with those that wait they are
\* never more than may wait.
FewApprovals == \A a \in Governed : granted[a] + pending[a] <= MaxPending

ApiInv == ApiTyped /\ FewApprovals /\ RequestsHold

-------------------------------------------------------------------------------
\* The groups of routes, one by one.
LEMMA CodesSound ==
    /\ OnlyMissingIs404(ProjectCode) /\ OnlyMissingIs404(ServiceCode) /\ OnlyMissingIs404(BranchCode)
    /\ OnlyMissingIs404(ErrCode) /\ OnlyMissingIs404(ProvisionCode) /\ OnlyMissingIs404(ObjectCode)
    /\ OnlyMissingIs404(ObserveCode) /\ OnlyMissingIs404(DatabaseCode)
    /\ OnlyMissingIs404(DeleteBranchCode) /\ OnlyMissingIs404(DeleteProjectCode)
    /\ OnlyMissingIs404(DeleteServiceCode) /\ OnlyMissingIs404(RenameCode)
    /\ OnlyMissingIs404(ChangeCode)
BY DEF OnlyMissingIs404, ProjectCode, ServiceCode, BranchCode, ErrCode, ProvisionCode, ObjectCode,
       ObserveCode, DatabaseCode, DeleteBranchCode, DeleteProjectCode, DeleteServiceCode, RenameCode,
       ChangeCode, TeardownCode

LEMMA NoCodeSound == OnlyMissingIs404(<<>>)
BY DEF OnlyMissingIs404

LEMMA ProjectRoutesSound == SoundGroup(ProjectRoutes)
<1>1. SoundRoute(ProjectRoutes.createProject)
  BY CodesSound DEF ProjectRoutes, Route, SoundRoute, IsChecks, Thing
<1>2. SoundRoute(ProjectRoutes.readProject)
  BY CodesSound DEF ProjectRoutes, Route, SoundRoute, IsChecks, Thing, OnlyMissingIs404
<1>3. SoundRoute(ProjectRoutes.deleteProject)
  BY CodesSound DEF ProjectRoutes, Route, SoundRoute, IsChecks, Thing
<1>4. SoundRoute(ProjectRoutes.renameProject)
  BY CodesSound DEF ProjectRoutes, Route, SoundRoute, IsChecks, Thing
<1>5. DOMAIN ProjectRoutes = {"createProject", "readProject", "deleteProject", "renameProject"}
  BY DEF ProjectRoutes
<1> QED BY <1>1, <1>2, <1>3, <1>4, <1>5 DEF SoundGroup

LEMMA BranchRoutesSound == SoundGroup(BranchRoutes)
<1>1. SoundRoute(BranchRoutes.listBranches)
  BY CodesSound DEF BranchRoutes, Route, SoundRoute, IsChecks, Thing, OnlyMissingIs404
<1>2. SoundRoute(BranchRoutes.createBranch)
  BY CodesSound DEF BranchRoutes, Route, SoundRoute, IsChecks, Thing, BranchCode
<1>3. SoundRoute(BranchRoutes.deleteBranch)
  BY CodesSound DEF BranchRoutes, Route, SoundRoute, IsChecks, Thing
<1>4. SoundRoute(BranchRoutes.mergeBranch)
  BY CodesSound DEF BranchRoutes, Route, SoundRoute, IsChecks, Thing, OnlyMissingIs404
<1>5. SoundRoute(BranchRoutes.renameBranch)
  BY CodesSound DEF BranchRoutes, Route, SoundRoute, IsChecks, Thing
<1>6. DOMAIN BranchRoutes = {"listBranches", "createBranch", "deleteBranch", "mergeBranch", "renameBranch"}
  BY DEF BranchRoutes
<1> QED BY <1>1, <1>2, <1>3, <1>4, <1>5, <1>6 DEF SoundGroup

LEMMA ServiceRoutesSound == SoundGroup(ServiceRoutes)
<1>1. SoundRoute(ServiceRoutes.listServices)
  BY CodesSound DEF ServiceRoutes, Route, SoundRoute, IsChecks, Thing, OnlyMissingIs404
<1>2. SoundRoute(ServiceRoutes.addService)
  BY CodesSound DEF ServiceRoutes, Route, SoundRoute, IsChecks, Thing
<1>3. SoundRoute(ServiceRoutes.lifecycle)
  BY CodesSound DEF ServiceRoutes, Route, SoundRoute, IsChecks, Thing
<1>4. SoundRoute(ServiceRoutes.restart)
  BY CodesSound DEF ServiceRoutes, Route, SoundRoute, IsChecks, Thing
<1>5. SoundRoute(ServiceRoutes.serviceState)
  BY CodesSound DEF ServiceRoutes, Route, SoundRoute, IsChecks, Thing
<1>6. DOMAIN ServiceRoutes = {"listServices", "addService", "lifecycle", "restart", "serviceState"}
  BY DEF ServiceRoutes
<1> QED BY <1>1, <1>2, <1>3, <1>4, <1>5, <1>6 DEF SoundGroup

LEMMA NamingRoutesSound == SoundGroup(NamingRoutes)
<1>1. SoundRoute(NamingRoutes.serviceSecrets)
  BY CodesSound DEF NamingRoutes, Route, SoundRoute, IsChecks, Thing, OnlyMissingIs404
<1>2. SoundRoute(NamingRoutes.setAccess)
  BY CodesSound DEF NamingRoutes, Route, SoundRoute, IsChecks, Thing
<1>3. SoundRoute(NamingRoutes.renameService)
  BY CodesSound DEF NamingRoutes, Route, SoundRoute, IsChecks, Thing
<1>4. DOMAIN NamingRoutes = {"serviceSecrets", "setAccess", "renameService"}
  BY DEF NamingRoutes
<1> QED BY <1>1, <1>2, <1>3, <1>4 DEF SoundGroup

LEMMA VolumeRoutesSound == SoundGroup(VolumeRoutes)
<1>1. SoundRoute(VolumeRoutes.readVolume)
  BY CodesSound DEF VolumeRoutes, Route, SoundRoute, IsChecks, Thing
<1>2. SoundRoute(VolumeRoutes.setVolume)
  BY CodesSound DEF VolumeRoutes, Route, SoundRoute, IsChecks, Thing
<1>3. SoundRoute(VolumeRoutes.removeVolume)
  BY CodesSound DEF VolumeRoutes, Route, SoundRoute, IsChecks, Thing
<1>4. DOMAIN VolumeRoutes = {"readVolume", "setVolume", "removeVolume"}
  BY DEF VolumeRoutes
<1> QED BY <1>1, <1>2, <1>3, <1>4 DEF SoundGroup

LEMMA LimitRoutesSound == SoundGroup(LimitRoutes)
<1>1. SoundRoute(LimitRoutes.readLimits)
  BY CodesSound DEF LimitRoutes, Route, SoundRoute, IsChecks, Thing
<1>2. SoundRoute(LimitRoutes.setLimits)
  BY CodesSound DEF LimitRoutes, Route, SoundRoute, IsChecks, Thing
<1>3. SoundRoute(LimitRoutes.setAlwaysOn)
  BY CodesSound DEF LimitRoutes, Route, SoundRoute, IsChecks, Thing
<1>4. DOMAIN LimitRoutes = {"readLimits", "setLimits", "setAlwaysOn"}
  BY DEF LimitRoutes
<1> QED BY <1>1, <1>2, <1>3, <1>4 DEF SoundGroup

LEMMA RemovalRoutesSound == SoundGroup(RemovalRoutes)
<1>1. SoundRoute(RemovalRoutes.removeService)
  BY CodesSound DEF RemovalRoutes, Route, SoundRoute, IsChecks, Thing
<1>2. DOMAIN RemovalRoutes = {"removeService"}
  BY DEF RemovalRoutes
<1> QED BY <1>1, <1>2 DEF SoundGroup

LEMMA DeployRoutesSound == SoundGroup(DeployRoutes)
<1>1. SoundRoute(DeployRoutes.deploy)
  BY CodesSound DEF DeployRoutes, Route, SoundRoute, IsChecks, Thing, OnlyMissingIs404
<1>2. DOMAIN DeployRoutes = {"deploy"}
  BY DEF DeployRoutes
<1> QED BY <1>1, <1>2 DEF SoundGroup

LEMMA DomainRoutesSound == SoundGroup(DomainRoutes)
<1>1. SoundRoute(DomainRoutes.setDomain)
  BY CodesSound DEF DomainRoutes, Route, SoundRoute, IsChecks, Thing, OnlyMissingIs404
<1>2. SoundRoute(DomainRoutes.readDomain)
  BY CodesSound DEF DomainRoutes, Route, SoundRoute, IsChecks, Thing, OnlyMissingIs404
<1>3. SoundRoute(DomainRoutes.removeDomain)
  BY CodesSound DEF DomainRoutes, Route, SoundRoute, IsChecks, Thing, OnlyMissingIs404
<1>4. DOMAIN DomainRoutes = {"setDomain", "readDomain", "removeDomain"}
  BY DEF DomainRoutes
<1> QED BY <1>1, <1>2, <1>3, <1>4 DEF SoundGroup

LEMMA SecretRoutesSound == SoundGroup(SecretRoutes)
<1>1. SoundRoute(SecretRoutes.readSecrets)
  BY CodesSound DEF SecretRoutes, Route, SoundRoute, IsChecks, Thing, OnlyMissingIs404
<1>2. SoundRoute(SecretRoutes.secretTree)
  BY CodesSound DEF SecretRoutes, Route, SoundRoute, IsChecks, Thing, OnlyMissingIs404
<1>3. DOMAIN SecretRoutes = {"readSecrets", "secretTree"}
  BY DEF SecretRoutes
<1> QED BY <1>1, <1>2, <1>3 DEF SoundGroup

LEMMA CredentialRoutesSound == SoundGroup(CredentialRoutes)
<1>1. SoundRoute(CredentialRoutes.credentials)
  BY CodesSound DEF CredentialRoutes, Route, SoundRoute, IsChecks, Thing, OnlyMissingIs404
<1>2. DOMAIN CredentialRoutes = {"credentials"}
  BY DEF CredentialRoutes
<1> QED BY <1>1, <1>2 DEF SoundGroup

LEMMA SecretWriteRoutesSound == SoundGroup(SecretWriteRoutes)
<1>1. SoundRoute(SecretWriteRoutes.setSecret)
  BY CodesSound DEF SecretWriteRoutes, Route, SoundRoute, IsChecks, Thing, OnlyMissingIs404
<1>2. SoundRoute(SecretWriteRoutes.unsetSecret)
  BY CodesSound DEF SecretWriteRoutes, Route, SoundRoute, IsChecks, Thing, OnlyMissingIs404
<1>3. DOMAIN SecretWriteRoutes = {"setSecret", "unsetSecret"}
  BY DEF SecretWriteRoutes
<1> QED BY <1>1, <1>2, <1>3 DEF SoundGroup

LEMMA ObjectRoutesSound == SoundGroup(ObjectRoutes)
<1>1. SoundRoute(ObjectRoutes.listObjects)
  BY CodesSound DEF ObjectRoutes, Route, SoundRoute, IsChecks, Thing
<1>2. SoundRoute(ObjectRoutes.download)
  BY CodesSound DEF ObjectRoutes, Route, SoundRoute, IsChecks, Thing
<1>3. SoundRoute(ObjectRoutes.upload)
  BY CodesSound DEF ObjectRoutes, Route, SoundRoute, IsChecks, Thing
<1>4. SoundRoute(ObjectRoutes.removeObjects)
  BY CodesSound DEF ObjectRoutes, Route, SoundRoute, IsChecks, Thing
<1>5. DOMAIN ObjectRoutes = {"listObjects", "download", "upload", "removeObjects"}
  BY DEF ObjectRoutes
<1> QED BY <1>1, <1>2, <1>3, <1>4, <1>5 DEF SoundGroup

LEMMA DatabaseRoutesSound == SoundGroup(DatabaseRoutes)
<1>1. SoundRoute(DatabaseRoutes.instance)
  BY CodesSound DEF DatabaseRoutes, Route, SoundRoute, IsChecks, Thing
<1>2. SoundRoute(DatabaseRoutes.settings)
  BY CodesSound DEF DatabaseRoutes, Route, SoundRoute, IsChecks, Thing
<1>3. SoundRoute(DatabaseRoutes.password)
  BY CodesSound DEF DatabaseRoutes, Route, SoundRoute, IsChecks, Thing
<1>4. SoundRoute(DatabaseRoutes.createDatabase)
  BY CodesSound DEF DatabaseRoutes, Route, SoundRoute, IsChecks, Thing
<1>5. SoundRoute(DatabaseRoutes.dropDatabase)
  BY CodesSound DEF DatabaseRoutes, Route, SoundRoute, IsChecks, Thing
<1>6. SoundRoute(DatabaseRoutes.extensions)
  BY CodesSound DEF DatabaseRoutes, Route, SoundRoute, IsChecks, Thing
<1>7. DOMAIN DatabaseRoutes = {"instance", "settings", "password", "createDatabase", "dropDatabase", "extensions"}
  BY DEF DatabaseRoutes
<1> QED BY <1>1, <1>2, <1>3, <1>4, <1>5, <1>6, <1>7 DEF SoundGroup

LEMMA ObserveRoutesSound == SoundGroup(ObserveRoutes)
<1>1. SoundRoute(ObserveRoutes.metrics)
  BY CodesSound DEF ObserveRoutes, Route, SoundRoute, IsChecks, Thing
<1>2. SoundRoute(ObserveRoutes.activity)
  BY CodesSound DEF ObserveRoutes, Route, SoundRoute, IsChecks, Thing
<1>3. DOMAIN ObserveRoutes = {"metrics", "activity"}
  BY DEF ObserveRoutes
<1> QED BY <1>1, <1>2, <1>3 DEF SoundGroup

LEMMA EventRoutesSound == SoundGroup(EventRoutes)
<1>1. SoundRoute(EventRoutes.events)
  BY CodesSound DEF EventRoutes, Route, SoundRoute, IsChecks, Thing, OnlyMissingIs404
<1>2. DOMAIN EventRoutes = {"events"}
  BY DEF EventRoutes
<1> QED BY <1>1, <1>2 DEF SoundGroup

LEMMA TemplateRoutesSound == SoundGroup(TemplateRoutes)
<1>1. SoundRoute(TemplateRoutes.template)
  BY CodesSound DEF TemplateRoutes, Route, SoundRoute, IsChecks, Thing
<1>2. DOMAIN TemplateRoutes = {"template"}
  BY DEF TemplateRoutes
<1> QED BY <1>1, <1>2 DEF SoundGroup

LEMMA RoutesSound == \A r \in DOMAIN Routes : SoundRoute(Routes[r])
<1>1. DOMAIN Groups = 1..17
  BY DEF Groups
<1>2. \A i \in DOMAIN Groups : SoundGroup(Groups[i])
  <2>1. ASSUME NEW i \in 1..17 PROVE SoundGroup(Groups[i])
    BY <2>1, ProjectRoutesSound, BranchRoutesSound, ServiceRoutesSound, NamingRoutesSound, VolumeRoutesSound, LimitRoutesSound, RemovalRoutesSound, DeployRoutesSound, DomainRoutesSound, SecretRoutesSound, CredentialRoutesSound, SecretWriteRoutesSound, ObjectRoutesSound, DatabaseRoutesSound, ObserveRoutesSound, EventRoutesSound, TemplateRoutesSound DEF Groups
  <2> QED BY <1>1, <2>1
<1>3. ASSUME NEW r \in DOMAIN Routes PROVE SoundRoute(Routes[r])
  <2>1. PICK i \in DOMAIN Groups : r \in DOMAIN Groups[i]
    BY DEF Routes
  <2> DEFINE j == CHOOSE k \in DOMAIN Groups : r \in DOMAIN Groups[k]
  <2>2. j \in DOMAIN Groups /\ r \in DOMAIN Groups[j]
    BY <2>1
  <2>3. Routes[r] = Groups[j][r]
    BY DEF Routes
  <2> QED BY <1>2, <2>2, <2>3 DEF SoundGroup
<1> QED BY <1>3

-------------------------------------------------------------------------------
\* What a request's checks let through.

LEMMA RequestedRoute ==
    ASSUME NEW q, q.route \in Used
    PROVE  /\ Len(Checks(q)) \in Nat /\ DOMAIN Checks(q) = 1..Len(Checks(q))
           /\ SoundRoute(Routes[q.route])
<1>1. SoundRoute(Routes[q.route])
  BY UsedAssumption, RoutesSound
<1> QED BY <1>1 DEF SoundRoute, IsChecks, Checks

\* A request that is refused is refused by a check of its handler.
LEMMA RefusedByCheck ==
    ASSUME NEW q, q.route \in Used, ~Admits(q)
    PROVE  Refuses(Refusal(q), q)
<1> DEFINE n == Len(Checks(q))
           Bad == {k \in 1..n : Refuses(Checks(q)[k], q)}
<1>1. n \in Nat /\ DOMAIN Checks(q) = 1..n
  BY RequestedRoute
<1>2. Bad \in SUBSET Nat /\ Bad # {}
  BY <1>1 DEF Admits, Passes
<1>3. \E k \in Bad : \A i \in Bad : <<i, k>> \notin OpToRel(<, Nat)
  BY <1>2, NatLessThanWellFounded, WFMin, Zenon
<1>4. PICK k \in Bad : \A i \in Bad : <<i, k>> \notin OpToRel(<, Nat)
  BY <1>3
<1>5. \A i \in 1..(k - 1) : i \notin Bad
  <2> SUFFICES ASSUME NEW i \in 1..(k - 1), i \in Bad PROVE FALSE
    OBVIOUS
  <2>1. i \in Nat /\ k \in Nat /\ i < k
    BY <1>1
  <2>2. <<i, k>> \in OpToRel(<, Nat)
    BY <2>1 DEF OpToRel
  <2> QED BY <1>4, <2>2
<1>6. k \in DOMAIN Checks(q) /\ Passes(q, k - 1) /\ ~Passes(q, k)
  BY <1>1, <1>5 DEF Passes
<1> DEFINE m == CHOOSE i \in DOMAIN Checks(q) : Passes(q, i - 1) /\ ~Passes(q, i)
<1>7. m \in DOMAIN Checks(q) /\ Passes(q, m - 1) /\ ~Passes(q, m)
  BY <1>6
<1> HIDE DEF m
<1>8. PICK i \in 1..m : Refuses(Checks(q)[i], q)
  BY <1>7 DEF Passes
<1>9. i = m
  BY <1>1, <1>7, <1>8 DEF Passes
<1> QED BY <1>8, <1>9 DEF m, Refusal

\* A gate that opens by a grant finds one; one that stays closed for want of a grant finds none.
LEMMA GatesAsGranted ==
    ASSUME ApiTyped, NEW q, q.route \in Used, NEW a \in Governed
    PROVE  /\ a \in ByGrant(q) => granted[a] > 0
           /\ a \in AsksFor(q) => granted[a] = 0
<1>1. ASSUME a \in ByGrant(q) PROVE granted[a] > 0
  <2>1. PICK i \in DOMAIN Checks(q) : Passes(q, i) /\ Checks(q)[i] = a /\ policy[a] = "approve"
    BY <1>1 DEF ByGrant, Passed
  <2>2. i \in 1..i
    BY <2>1, RequestedRoute
  <2>3. ~Refuses(a, q)
    BY <2>1, <2>2 DEF Passes
  <2> QED BY <2>1, <2>3 DEF Refuses, Open
<1>2. ASSUME a \in AsksFor(q) PROVE granted[a] = 0
  <2>1. ~Admits(q) /\ a = Refusal(q) /\ policy[a] = "approve"
    BY <1>2 DEF AsksFor
  <2>2. Refuses(a, q)
    BY <2>1, RefusedByCheck
  <2>3. a \notin {"project", "target", "body", "late"}
    BY ApiAssumption DEF Action
  <2>4. ~Open(a)
    BY <2>2, <2>3 DEF Refuses
  <2> QED BY <2>1, <2>4 DEF Open, ApiTyped
<1> QED BY <1>1, <1>2

\* What an operation does not find is not there, unless the branch it would be made from is not.
LEMMA MissingIsNotThere ==
    ASSUME ApiTyped, NEW q, q.route \in Used, q.on \in Routes[q.route].on, ~LooksUp(q),
           NEW f \in {"missing", "moved"}, CanFail(q, f), NEW x \in Told(Missing(q), Code(q, f))
    PROVE  x \notin there /\ x \in Thing
<1>1. SoundRoute(Routes[q.route]) /\ q.on \in Thing
  BY RequestedRoute DEF SoundRoute
<1>2. Code(q, f) = 404 /\ x = Missing(q)
  BY DEF Told
<1>3. CASE Routes[q.route].does # "add"
  BY <1>1, <1>2, <1>3 DEF Missing, LooksUp
<1>4. CASE Routes[q.route].does = "add"
  <2>1. q.on # "feat"
    BY <1>1, <1>2, <1>4 DEF SoundRoute, CanFail, Code
  <2>2. q.on = "db" /\ ~({"project", "feat"} \subseteq there)
    BY <1>4, <2>1 DEF LooksUp
  <2> QED BY <1>2, <1>4, <2>2 DEF Missing, Thing
<1> QED BY <1>3, <1>4

-------------------------------------------------------------------------------
\* The first state, and what a request does when it comes.
LEMMA ApiBegins == ApiInit => ApiInv
<1> SUFFICES ASSUME ApiInit PROVE ApiInv
  OBVIOUS
<1>1. ApiTyped
  BY DEF ApiInit, ApiTyped, Thing, Decision
<1>2. FewApprovals
  BY ApiAssumption DEF ApiInit, FewApprovals
<1>3. RequestsHold
  BY DEF ApiInit, RequestsHold, GrantsOneShot, AnswersHold
<1> QED BY <1>1, <1>2, <1>3 DEF ApiInv

LEMMA GatesKept ==
    ASSUME ApiInv, NEW c \in Client, NEW q, q.route \in Used, Serve(c, q)
    PROVE  /\ pending' \in [Governed -> Nat] /\ granted' \in [Governed -> Nat]
           /\ FewApprovals' /\ GrantsOneShot'
<1> USE DEF ApiInv, ApiTyped
<1>1. /\ granted' = [a \in Governed |-> IF a \in ByGrant(q) THEN granted[a] - 1 ELSE granted[a]]
      /\ pending' = [a \in Governed |-> IF a \in AsksFor(q) THEN pending[a] + 1 ELSE pending[a]]
      /\ owed' = [a \in Governed |-> IF a \in ByGrant(q) THEN owed[a] - 1 ELSE owed[a]]
      /\ \A a \in AsksFor(q) : pending[a] < MaxPending
  BY DEF Serve, GrantsLeft
<1>2. \A a \in Governed : /\ a \in ByGrant(q) => granted[a] > 0
                          /\ a \in AsksFor(q) => granted[a] = 0
  BY GatesAsGranted
<1>3. \A a \in Governed : granted[a] \in Nat /\ pending[a] \in Nat
  OBVIOUS
<1>4. GrantsOneShot'
  BY <1>1 DEF RequestsHold, GrantsOneShot
<1>5. granted' \in [Governed -> Nat]
  BY <1>1, <1>2, <1>3
<1>6. pending' \in [Governed -> Nat]
  BY <1>1, <1>3
<1>7. FewApprovals'
  <2> SUFFICES ASSUME NEW a \in Governed PROVE granted'[a] + pending'[a] <= MaxPending
    BY DEF FewApprovals
  <2>1. granted[a] + pending[a] <= MaxPending
    BY DEF FewApprovals
  <2>2. /\ granted'[a] = IF a \in ByGrant(q) THEN granted[a] - 1 ELSE granted[a]
        /\ pending'[a] = IF a \in AsksFor(q) THEN pending[a] + 1 ELSE pending[a]
        /\ a \in AsksFor(q) => pending[a] < MaxPending
    BY <1>1
  <2>3. granted[a] \in Nat /\ pending[a] \in Nat /\ MaxPending \in Nat
    BY ApiAssumption
  <2> QED BY ONLY <1>2, <2>1, <2>2, <2>3
<1> QED BY <1>4, <1>5, <1>6, <1>7

LEMMA ServeKeepsAnswers ==
    ASSUME ApiInv, NEW c \in Client, NEW q, q.route \in Used, q.on \in Routes[q.route].on, Serve(c, q)
    PROVE  gone' \subseteq Thing /\ AnswersHold'
<1> USE DEF ApiInv, ApiTyped
<1>1. gone \cap there = {} /\ there' = there
  BY DEF RequestsHold, AnswersHold, Serve
<1>2. q.on \in Thing
  BY RequestedRoute DEF SoundRoute
<1>3. CASE Admits(q) /\ LooksUp(q)
  BY <1>1, <1>3 DEF Serve, AnswersHold
<1>4. CASE Admits(q) /\ ~LooksUp(q)
  <2>1. CASE CanFail(q, "missing")
    <3>1. gone' = gone \cup Told(Missing(q), Code(q, "missing"))
      BY <1>4, <2>1 DEF Serve
    <3>2. \A x \in Told(Missing(q), Code(q, "missing")) : x \notin there /\ x \in Thing
      BY <1>4, <2>1, MissingIsNotThere
    <3> QED BY <1>1, <3>1, <3>2 DEF AnswersHold
  <2>2. CASE ~CanFail(q, "missing")
    BY <1>1, <1>4, <2>2 DEF Serve, AnswersHold
  <2> QED BY <2>1, <2>2
<1>5. CASE ~Admits(q)
  <2>1. gone' = gone \cup (CASE Refusal(q) = "project" -> {"project"}
                             [] Refusal(q) = "target" -> {q.on}
                             [] OTHER -> {})
    BY <1>5 DEF Serve
  <2>2. Refuses(Refusal(q), q)
    BY <1>5, RefusedByCheck
  <2>3. "project" \notin Governed /\ "target" \notin Governed /\ "project" \in Thing
    BY ApiAssumption DEF Action, Thing
  <2>4. CASE Refusal(q) = "project"
    <3>1. "project" \notin there
      BY <2>2, <2>3, <2>4 DEF Refuses
    <3> QED BY <1>1, <2>1, <2>3, <2>4, <3>1 DEF AnswersHold
  <2>5. CASE Refusal(q) = "target"
    <3>1. q.on \notin there
      BY <2>2, <2>3, <2>5 DEF Refuses
    <3> QED BY <1>1, <1>2, <2>1, <2>5, <3>1 DEF AnswersHold
  <2>6. CASE Refusal(q) \notin {"project", "target"}
    BY <1>1, <2>1, <2>6 DEF AnswersHold
  <2> QED BY <2>4, <2>5, <2>6
<1> QED BY <1>3, <1>4, <1>5

LEMMA CallKeeps ==
    ASSUME ApiInv, NEW c \in Client, Call(c)
    PROVE  ApiInv'
<1>1. PICK r \in Used : \E on \in Routes[r].on, wrong \in {"none", "body", "late"} :
         Serve(c, [route |-> r, on |-> on, wrong |-> wrong])
  BY DEF Call
<1>0. PICK on \in Routes[r].on, wrong \in {"none", "body", "late"} :
         Serve(c, [route |-> r, on |-> on, wrong |-> wrong])
  BY <1>1
<1> DEFINE q == [route |-> r, on |-> on, wrong |-> wrong]
<1>2. /\ q.route = r /\ q.on = on /\ q \in Requested
      /\ Serve(c, q)
  <2>1. on \in Thing
    BY UsedAssumption, RoutesSound DEF SoundRoute
  <2> QED BY <1>0, <2>1 DEF Requested
<1> HIDE DEF q
<1>3. /\ pending' \in [Governed -> Nat] /\ granted' \in [Governed -> Nat]
      /\ FewApprovals' /\ GrantsOneShot'
  BY <1>2, GatesKept
<1>4. gone' \subseteq Thing /\ AnswersHold'
  BY <1>2, ServeKeepsAnswers
<1>5. /\ request' = request \/ request' = [request EXCEPT ![c] = q]
      /\ there' = there /\ policy' = policy
  BY <1>2 DEF Serve
<1>6. /\ \A e \in Client : request'[e] # Nothing =>
            request'[e] \in Requested /\ request'[e].on \in Routes[request'[e].route].on
      /\ request' = [e \in Client |-> request'[e]]
  BY <1>2, <1>5 DEF ApiInv, ApiTyped
<1>7. ApiTyped'
  BY <1>3, <1>4, <1>5, <1>6 DEF ApiInv, ApiTyped
<1> QED BY <1>3, <1>4, <1>7 DEF ApiInv, RequestsHold

-------------------------------------------------------------------------------
\* What operations do when they end, and the operator.
LEMMA EndKeeps ==
    ASSUME ApiInv, NEW c \in Client, Replied(c), UNCHANGED Held,
           there' \subseteq Thing, gone' \subseteq Thing, gone' \cap there' = {}
    PROVE  ApiInv'
<1>1. /\ \A e \in Client : request'[e] # Nothing =>
            request'[e] \in Requested /\ request'[e].on \in Routes[request'[e].route].on
      /\ request' = [e \in Client |-> request'[e]]
  BY DEF Replied, ApiInv, ApiTyped
<1>2. UNCHANGED <<policy, pending, granted, owed>>
  BY DEF Held, asked
<1>3. ApiTyped'
  BY <1>1, <1>2 DEF ApiInv, ApiTyped
<1>4. FewApprovals'
  BY <1>2 DEF ApiInv, FewApprovals
<1>5. RequestsHold'
  BY <1>2 DEF ApiInv, RequestsHold, GrantsOneShot, AnswersHold
<1> QED BY <1>3, <1>4, <1>5 DEF ApiInv

LEMMA OperationKeeps ==
    ASSUME ApiInv, NEW c \in Client,
           Succeed(c) \/ FindsNothing(c) \/ FailsExisting(c) \/ FailsWhole(c) \/ FailsPartly(c)
    PROVE  ApiInv'
<1> DEFINE q == request[c]
<1>1. q # Nothing /\ Replied(c) /\ UNCHANGED Held
  BY DEF Succeed, FindsNothing, FailsExisting, FailsWhole, FailsPartly
<1>2. q.route \in Used /\ q.on \in Thing /\ q.on \in Routes[q.route].on
  BY <1>1 DEF ApiInv, ApiTyped, Requested
<1>3. /\ there \subseteq Thing /\ gone \subseteq Thing /\ gone \cap there = {}
  BY DEF ApiInv, ApiTyped, RequestsHold, AnswersHold
<1>4. SoundRoute(Routes[q.route])
  BY <1>2, RequestedRoute
<1>5. q.on \in Below(q.on) /\ Below(q.on) \subseteq Thing
  BY <1>2 DEF Below, Thing
<1>6. CASE Succeed(c)
  <2> DEFINE does == Routes[q.route].does
             added == IF q.on = "project" THEN {"project", "main"} ELSE {q.on}
  <2>1. /\ there' = CASE does = "add" -> there \cup added
                      [] does = "delete" -> there \ Below(q.on)
                      [] OTHER -> there
        /\ gone' = CASE does = "add" -> gone \ added
                     [] does = "delete" -> gone \cup {q.on}
                     [] OTHER -> gone
    BY <1>6 DEF Succeed
  <2>2. added \subseteq Thing
    BY <1>2 DEF Thing
  <2> HIDE DEF q, does, added
  <2>3. there' \subseteq Thing /\ gone' \subseteq Thing /\ gone' \cap there' = {}
    BY ONLY <1>2, <1>3, <1>5, <2>1, <2>2
  <2> QED BY <1>1, <2>3, EndKeeps DEF q
<1>7. CASE FindsNothing(c)
  <2> DEFINE ways == {f \in {"missing", "moved"} : CanFail(q, f)}
  <2>1. there' = there /\ ~LooksUp(q)
    BY <1>7 DEF FindsNothing
  <2>2. \/ \E f \in ways : gone' = gone \cup Told(Missing(q), Code(q, f))
        \/ Routes[q.route].does = "delete" /\ gone' = gone \cup {q.on}
        \/ gone' = gone
    BY <1>7 DEF FindsNothing
  <2>3. CASE \E f \in ways : gone' = gone \cup Told(Missing(q), Code(q, f))
    <3>1. PICK f \in {"missing", "moved"} : CanFail(q, f) /\ gone' = gone \cup Told(Missing(q), Code(q, f))
      BY <2>3
    <3>2. \A x \in Told(Missing(q), Code(q, f)) : x \notin there /\ x \in Thing
      BY <1>2, <2>1, <3>1, MissingIsNotThere DEF ApiInv
    <3>3. gone' \subseteq Thing /\ gone' \cap there' = {}
      BY ONLY <1>3, <2>1, <3>1, <3>2
    <3> QED BY <1>1, <1>3, <2>1, <3>3, EndKeeps
  <2>4. CASE Routes[q.route].does = "delete" /\ gone' = gone \cup {q.on}
    <3>1. q.on \notin there
      BY <2>1, <2>4 DEF LooksUp
    <3> QED BY <1>1, <1>2, <1>3, <2>1, <2>4, <3>1, EndKeeps
  <2>5. CASE gone' = gone
    BY <1>1, <1>3, <2>1, <2>5, EndKeeps
  <2> QED BY <2>2, <2>3, <2>4, <2>5
<1>8. CASE FailsExisting(c)
  BY <1>1, <1>3, <1>8, EndKeeps DEF FailsExisting
<1>9. CASE FailsWhole(c)
  <2>1. there' = there /\ gone' = gone
    <3>1. PICK f \in DOMAIN Routes[q.route].code \ {"missing", "moved", "exists", "partial"} :
             gone' = gone \cup Told(q.on, Code(q, f))
      BY <1>9 DEF FailsWhole
    <3>2. Code(q, f) # 404
      BY <1>4 DEF SoundRoute, OnlyMissingIs404, Code
    <3> QED BY <1>9, <3>1, <3>2 DEF Told, FailsWhole
  <2> QED BY <1>1, <1>3, <2>1, EndKeeps
<1>10. CASE FailsPartly(c)
  <2>1. CanFail(q, "partial")
    BY <1>10 DEF FailsPartly
  <2>2. Code(q, "partial") \notin {200, 404}
    BY <1>4, <2>1 DEF SoundRoute, OnlyMissingIs404, Code, CanFail
  <2>3. gone' = gone /\ there' \subseteq there
    BY <1>10, <2>2 DEF FailsPartly
  <2>4. gone' \subseteq Thing /\ there' \subseteq Thing /\ gone' \cap there' = {}
    BY ONLY <1>3, <2>3
  <2> QED BY <1>1, <2>4, EndKeeps
<1> QED BY <1>6, <1>7, <1>8, <1>9, <1>10

LEMMA OperatorKeeps ==
    ASSUME ApiInv, SetPolicy \/ \E a \in Governed : Grant(a) \/ DenyApproval(a)
    PROVE  ApiInv'
<1> USE DEF ApiInv, ApiTyped
<1>1. CASE SetPolicy
  <2>1. policy' \in [Governed -> Decision]
    BY <1>1 DEF SetPolicy
  <2> QED BY <1>1, <2>1 DEF SetPolicy, asked, FewApprovals, RequestsHold, GrantsOneShot, AnswersHold
<1>2. ASSUME NEW a \in Governed, Grant(a) PROVE ApiInv'
  <2>1. /\ pending[a] > 0 /\ pending' = [pending EXCEPT ![a] = @ - 1]
        /\ granted' = [granted EXCEPT ![a] = @ + 1]
        /\ owed' = [owed EXCEPT ![a] = IF @ > MaxPending THEN @ ELSE @ + 1]
        /\ policy' \in {policy, [policy EXCEPT ![a] = "allow"]}
        /\ UNCHANGED <<there, request, gone>>
    BY <1>2 DEF Grant
  <2>2. /\ granted[a] \in Nat /\ pending[a] \in Nat /\ MaxPending \in Nat
        /\ granted[a] + pending[a] <= MaxPending /\ owed = granted
    BY ApiAssumption DEF FewApprovals, RequestsHold, GrantsOneShot
  <2>3. granted[a] <= MaxPending /\ pending[a] - 1 \in Nat /\ granted[a] + 1 \in Nat
        /\ (granted[a] + 1) + (pending[a] - 1) <= MaxPending
    BY ONLY <2>1, <2>2
  <2>4. pending' \in [Governed -> Nat] /\ granted' \in [Governed -> Nat]
    BY <2>1, <2>3
  <2>5. owed' = granted'
    <3>1. ~(owed[a] > MaxPending)
      BY ONLY <2>2, <2>3
    <3>2. owed' = [owed EXCEPT ![a] = owed[a] + 1]
      BY ONLY <2>1, <3>1
    <3> QED BY ONLY <2>1, <2>2, <3>2
  <2>6. policy' \in [Governed -> Decision]
    BY <2>1 DEF Decision
  <2>7. FewApprovals'
    <3> SUFFICES ASSUME NEW b \in Governed PROVE granted'[b] + pending'[b] <= MaxPending
      BY DEF FewApprovals
    <3>1. CASE b = a
      BY <2>1, <2>3, <3>1
    <3>2. CASE b # a
      BY <2>1, <3>2 DEF FewApprovals
    <3> QED BY <3>1, <3>2
  <2> QED BY <2>1, <2>4, <2>5, <2>6, <2>7 DEF RequestsHold, GrantsOneShot, AnswersHold
<1>3. ASSUME NEW a \in Governed, DenyApproval(a) PROVE ApiInv'
  <2>1. /\ pending[a] > 0 /\ pending' = [pending EXCEPT ![a] = @ - 1]
        /\ UNCHANGED <<there, policy, granted, request, gone, owed>>
    BY <1>3 DEF DenyApproval
  <2>2. granted[a] \in Nat /\ pending[a] \in Nat /\ MaxPending \in Nat
    BY ApiAssumption
  <2>3. pending' \in [Governed -> Nat]
    BY <2>1, <2>2
  <2>4. FewApprovals'
    <3> SUFFICES ASSUME NEW b \in Governed PROVE granted'[b] + pending'[b] <= MaxPending
      BY DEF FewApprovals
    <3>1. granted[b] + pending[b] <= MaxPending /\ pending'[b] <= pending[b] /\ granted'[b] = granted[b]
          /\ pending'[b] \in Nat /\ pending[b] \in Nat /\ granted[b] \in Nat
      BY <2>1, <2>2, <2>3 DEF FewApprovals
    <3> QED BY ONLY <3>1, ApiAssumption
  <2> QED BY <2>1, <2>3, <2>4 DEF RequestsHold, GrantsOneShot, AnswersHold
<1> QED BY <1>1, <1>2, <1>3

\* Every approval that was granted opens one gate, once, whichever requests come in between; and
\* what a client was told is not there is not there until somebody adds it, whatever route told
\* it and whatever failed (gate, decide, teardownReply, the failures of the routes).
THEOREM RequestsTheorem == ApiSpec => []RequestsHold
<1>1. ApiInit => ApiInv
  BY ApiBegins
<1>2. ApiInv /\ [ApiNext]_apiVars => ApiInv'
  <2> SUFFICES ASSUME ApiInv, [ApiNext]_apiVars PROVE ApiInv'
    OBVIOUS
  <2>1. CASE ApiNext
    BY <2>1, CallKeeps, OperationKeeps, OperatorKeeps DEF ApiNext
  <2>2. CASE UNCHANGED apiVars
    BY <2>2 DEF apiVars, asked, apiHistory, ApiInv, ApiTyped, FewApprovals, RequestsHold,
                GrantsOneShot, AnswersHold
  <2> QED BY <2>1, <2>2
<1>3. ApiInv => RequestsHold
  BY DEF ApiInv
<1> QED BY <1>1, <1>2, <1>3, PTL DEF ApiSpec
===============================================================================
