---------------------------- MODULE BranchesProofs ----------------------------
(***************************************************************************)
(* Proofs about Branches, for any projects, branches, names and refs, with *)
(* refs that collide or not, and any number of operations in flight: every *)
(* branch that is ready has its own stack, nothing is abandoned, and what  *)
(* is demolished is demolished by one operation.                           *)
(***************************************************************************)
EXTENDS Branches, FiniteSetTheorems, SequenceTheorems, TLAPS

\* Nothing is renamed to a name that branches are created under: renameBranch does not look
\* at the claims (engine.ts:965).
NamesApart == \A c \in CreateAs : c[2] \notin RenameTo

-------------------------------------------------------------------------------
\* What an operation is.

Early == {"queued", "provision"} \cup Provisioning
Late == {"volumes", "redeploy", "deploy", "secrets", "settle", "unwind"}
Pcs == Early \cup Late \cup {"teardown", "demolish"}

Op == [kind : {"project", "create", "delete", "deploy", "drop"}, pc : Pcs, project : Project,
       branch : Branch \cup {None}, name : Name, source : Branch \cup {None},
       target : Branch \cup {None}, keys : SUBSET (Project \cup Branch), cloned : BOOLEAN,
       todo : SUBSET Branch, kept : BOOLEAN, round : 1 .. Rounds]

\* An operation about a branch that has no row yet.
IsNew(op) == op.kind \in {"project", "create"} /\ op.pc \in Early

\* Where an operation can be.
Place(kind, pc) ==
    /\ kind = "project" => pc \in Early
    /\ kind = "create" => pc \in Early \cup Late
    /\ kind = "delete" => pc \in {"queued", "teardown"}
    /\ kind = "deploy" => pc \in {"queued", "deploy"}
    /\ kind = "drop" => pc \in {"queued", "demolish"}

\* The keys it has for what it does there.
Shape(op) ==
    /\ Place(op.kind, op.pc)
    /\ op.todo \subseteq op.keys
    /\ op.kind # "drop" => op.branch \in Branch
    /\ op.kind = "project" => op.keys = {op.project}
    /\ op.kind = "create" =>
          /\ op.project \in op.keys /\ op.branch \in op.keys
          /\ <<op.project, op.name>> \in CreateAs
    /\ op.kind \in {"delete", "deploy"} => op.branch \in op.keys
    /\ op.kind = "deploy" => op.target = op.branch
    /\ op.kind = "drop" => op.project \in op.keys

\* One operation and a later one in the line.
Ordered(a, o) ==
    /\ o.pc # "queued" => a.keys \cap o.keys = {}
    /\ ~(a.pc \in Provisioning /\ o.pc \in Provisioning)
    /\ IsNew(a) => o.branch # a.branch /\ a.branch \notin o.keys
    /\ IsNew(o) => a.branch # o.branch /\ o.branch \notin a.keys
    /\ a.kind = "project" /\ a.project = o.project => o.kind = "drop"
    /\ o.kind = "project" => a.project # o.project

LineInv ==
    /\ line \in Seq(Op) /\ Len(line) <= MaxOps
    /\ \A i \in DOMAIN line : Shape(line[i])
    /\ \A i, j \in DOMAIN line : i < j => Ordered(line[i], line[j])

\* n may stand where line[i] does.
Fits(i, n) ==
    \A j \in DOMAIN line : j # i =>
        (j < i => Ordered(line[j], n)) /\ (i < j => Ordered(n, line[j]))

InLine(o) == \E i \in DOMAIN line : line[i] = o
Besides(i, o) == \E j \in DOMAIN line : j # i /\ line[j] = o

-------------------------------------------------------------------------------
\* What an operation may rely on.

\* Its new branch has no row, and its new project no branch.
NewHolds(op) ==
    /\ IsNew(op) => op.branch \notin Rows
    /\ op.kind = "project" => BranchesOf(op.project) = {}

\* The name and the ref it claimed are free, and the ref's stack is nobody's or its own.
ClaimHolds(op) ==
    op.pc \in Provisioning =>
        /\ op.project \in projects
        /\ NamesApart => Named(op.project, op.name) = {}
        /\ \A b \in Rows : row[b].ref # RefOf(op)
        /\ op.pc = "network" => built[RefOf(op)] \notin Branch
        /\ op.pc = "stack" => built[RefOf(op)] = op.branch

\* The rows it works on stay.
RowHolds(op) ==
    /\ op.kind = "create" /\ op.pc \in Late =>
          op.branch \in Rows /\ row[op.branch].project = op.project
    /\ op.pc = "deploy" => op.target \in Rows /\ op.target \in op.keys
    /\ op.pc = "teardown" => op.branch \in Rows
    /\ op.pc = "demolish" =>
          /\ op.todo # {} /\ op.todo \subseteq BranchesOf(op.project)
          /\ ~op.kept => BranchesOf(op.project) \subseteq op.todo

Holds(op) == NewHolds(op) /\ ClaimHolds(op) /\ RowHolds(op)

-------------------------------------------------------------------------------
\* The state.

StoreTyped ==
    /\ projects \subseteq Project
    /\ row \in [Branch -> Row \cup {None}]
    /\ claim \in [Stack -> Branch \cup {None}]
    /\ secret \subseteq [project : Project, branch : Name, of : Branch]
    /\ built \in [Stack -> Branch \cup {None, Debris}]

\* No two branches have one ref, or one name in one project.
RowsApart ==
    \A b, c \in Rows : b # c =>
        /\ row[b].ref # row[c].ref
        /\ NamesApart /\ row[b].project = row[c].project => row[b].name # row[c].name

\* An operation in flight provisions branch b under ref r.
Provisions(b, r) ==
    \E o \in Op : InLine(o) /\ o.pc \in Provisioning /\ o.branch = b /\ RefOf(o) = r

ClaimsHeld == \A r \in Stack : claim[r] # None => Provisions(claim[r], r)

StacksNamed ==
    \A r \in Stack : built[r] \in Branch =>
        (\E b \in Rows : row[b].ref = r) \/ (\E b \in Branch : Provisions(b, r))

RowsInv ==
    StoreTyped /\ RowsApart /\ StackIsOwn /\ NoOrphans /\ (NamesApart => NoStraySecrets)

BranchesInv ==
    /\ LineInv /\ RowsInv /\ ClaimsHeld /\ StacksNamed
    /\ \A o \in Op : InLine(o) => Holds(o)

-------------------------------------------------------------------------------
\* The line.

LEMMA RefIsStack == ASSUME NEW op \in Op PROVE RefOf(op) \in Stack
BY BranchesAssumption DEF RefOf, Op

\* A new operation at the end.
LEMMA EnterKeepsLine ==
    ASSUME LineInv, NEW n \in Op, Enter(n), Shape(n),
           \A i \in DOMAIN line : Ordered(line[i], n)
    PROVE  LineInv' /\ \A o : InLine(o)' <=> o = n \/ InLine(o)
<1>1. /\ line' = Append(line, n) /\ line \in Seq(Op) /\ Len(line) < MaxOps /\ MaxOps \in Nat
  BY BranchesAssumption DEF Enter, LineInv
<1>2. /\ line' \in Seq(Op) /\ Len(line') = Len(line) + 1 /\ Len(line) \in Nat
      /\ DOMAIN line = 1 .. Len(line) /\ DOMAIN line' = 1 .. Len(line) + 1
      /\ line'[Len(line) + 1] = n /\ \A i \in 1 .. Len(line) : line'[i] = line[i]
  BY <1>1
<1>3. Len(line') <= MaxOps
  BY <1>1, <1>2
<1>4. \A i \in DOMAIN line' : Shape(line'[i])
  BY <1>2 DEF LineInv
<1>5. \A i, j \in DOMAIN line' : i < j => Ordered(line'[i], line'[j])
  <2> TAKE i, j \in DOMAIN line'
  <2>1. CASE i < j /\ j \in DOMAIN line
    BY <1>2, <2>1 DEF LineInv
  <2>2. CASE i < j /\ j = Len(line) + 1
    BY <1>2, <2>2
  <2> QED BY <1>2, <2>1, <2>2
<1>6. \A o : InLine(o)' <=> o = n \/ InLine(o)
  BY <1>2 DEF InLine
<1> QED BY <1>2, <1>3, <1>4, <1>5, <1>6 DEF LineInv

\* One that is over.
LEMMA RemovalKeepsLine ==
    ASSUME LineInv, NEW i \in DOMAIN line, NEW q, q = RemoveAt(line, i)
    PROVE  /\ q \in Seq(Op) /\ Len(q) = Len(line) - 1
           /\ \A k \in DOMAIN q : Shape(q[k])
           /\ \A k, m \in DOMAIN q : k < m => Ordered(q[k], q[m])
           /\ \A o : (\E k \in DOMAIN q : q[k] = o) <=> Besides(i, o)
<1>1. line \in Seq(Op) /\ DOMAIN line = 1 .. Len(line) /\ Len(line) \in Nat /\ i \in 1 .. Len(line)
  BY DEF LineInv
<1>2. /\ q \in Seq(Op) /\ Len(q) = Len(line) - 1 /\ DOMAIN q = 1 .. Len(line) - 1
      /\ \A k \in 1 .. Len(line) - 1 : q[k] = IF k < i THEN line[k] ELSE line[k + 1]
  <2>1. PICK x : x = SubSeq(line, 1, i - 1)
    OBVIOUS
  <2>2. PICK y : y = SubSeq(line, i + 1, Len(line))
    OBVIOUS
  <2>3. x \in Seq(Op) /\ Len(x) = i - 1 /\ \A k \in 1 .. i - 1 : x[k] = line[k]
    BY <1>1, <2>1
  <2>4. /\ y \in Seq(Op) /\ Len(y) = Len(line) - i
        /\ \A k \in 1 .. Len(line) - i : y[k] = line[i + k]
    BY <1>1, <2>2
  <2>5. q = x \o y
    BY <2>1, <2>2 DEF RemoveAt
  <2>6. /\ q \in Seq(Op) /\ Len(q) = Len(x) + Len(y)
        /\ \A k \in 1 .. Len(x) + Len(y) : q[k] = IF k <= Len(x) THEN x[k] ELSE y[k - Len(x)]
    <3>1. /\ x \o y \in Seq(Op) /\ Len(x \o y) = Len(x) + Len(y)
          /\ \A k \in 1 .. Len(x) + Len(y) :
                (x \o y)[k] = IF k <= Len(x) THEN x[k] ELSE y[k - Len(x)]
      BY <2>3, <2>4, ConcatProperties, Zenon
    <3> QED BY <2>5, <3>1, Zenon
  <2>7. Len(q) = Len(line) - 1 /\ DOMAIN q = 1 .. Len(line) - 1
    BY <1>1, <2>3, <2>4, <2>6
  <2>8. ASSUME NEW k \in 1 .. Len(line) - 1
        PROVE  q[k] = IF k < i THEN line[k] ELSE line[k + 1]
    <3>1. /\ k \in Nat /\ Len(x) = i - 1 /\ k \in 1 .. Len(x) + Len(y)
          /\ i \in Nat /\ k <= Len(x) <=> k < i
      BY <1>1, <2>3, <2>4, <2>8
    <3>2. CASE k < i
      BY <2>3, <2>6, <3>1, <3>2
    <3>3. CASE ~(k < i)
      <4>1. k - Len(x) \in 1 .. Len(line) - i /\ i + (k - Len(x)) = k + 1
        BY <1>1, <2>8, <3>1, <3>3
      <4>2. q[k] = y[k - Len(x)]
        BY <2>6, <3>1, <3>3
      <4> QED BY <2>4, <3>3, <4>1, <4>2
    <3> QED BY <3>2, <3>3
  <2> QED BY <2>6, <2>7, <2>8
<1>3. \A k \in DOMAIN q : Shape(q[k])
  <2> TAKE k \in DOMAIN q
  <2>1. \E m \in DOMAIN line : q[k] = line[m]
    <3>1. CASE k < i
      BY <1>1, <1>2, <3>1
    <3>2. CASE ~(k < i)
      BY <1>1, <1>2, <3>2
    <3> QED BY <3>1, <3>2
  <2> QED BY <2>1 DEF LineInv
<1>4. \A k, m \in DOMAIN q : k < m => Ordered(q[k], q[m])
  <2> SUFFICES ASSUME NEW k \in DOMAIN q, NEW m \in DOMAIN q, k < m PROVE Ordered(q[k], q[m])
    OBVIOUS
  <2>1. \E x, y \in DOMAIN line : x < y /\ q[k] = line[x] /\ q[m] = line[y]
    <3>1. CASE m < i
      BY <1>1, <1>2, <3>1
    <3>2. CASE k < i /\ ~(m < i)
      BY <1>1, <1>2, <3>2
    <3>3. CASE ~(k < i)
      BY <1>1, <1>2, <3>3
    <3> QED BY <3>1, <3>2, <3>3
  <2> QED BY <2>1 DEF LineInv
<1>5. ASSUME NEW o PROVE (\E k \in DOMAIN q : q[k] = o) <=> Besides(i, o)
  <2>1. ASSUME NEW k \in DOMAIN q, q[k] = o PROVE Besides(i, o)
    BY <1>1, <1>2, <2>1 DEF Besides
  <2>2. ASSUME NEW j \in DOMAIN line, j # i, line[j] = o PROVE \E k \in DOMAIN q : q[k] = o
    <3>1. CASE j < i
      BY <1>1, <1>2, <2>2, <3>1
    <3>2. CASE j > i
      <4>1. j - 1 \in DOMAIN q /\ q[j - 1] = o
        BY <1>1, <1>2, <2>2, <3>2
      <4> QED BY <4>1
    <3> QED BY <1>1, <2>2, <3>1, <3>2
  <2> QED BY <2>1, <2>2 DEF Besides
<1> QED BY <1>2, <1>3, <1>4, <1>5

LEMMA LeaveKeepsLine ==
    ASSUME LineInv, NEW i \in DOMAIN line, Leave(i)
    PROVE  LineInv' /\ \A o : InLine(o)' <=> Besides(i, o)
<1>1. PICK q : q = RemoveAt(line, i)
  OBVIOUS
<1>2. line' = q
  BY <1>1 DEF Leave
<1>3. Len(line) \in Nat /\ Len(line) <= MaxOps /\ MaxOps \in Nat
  BY BranchesAssumption DEF LineInv
<1> QED BY <1>1, <1>2, <1>3, RemovalKeepsLine DEF LineInv, InLine

\* One that goes back to the end.
LEMMA RequeueKeepsLine ==
    ASSUME LineInv, NEW i \in DOMAIN line, NEW n \in Op, Shape(n),
           line' = Append(RemoveAt(line, i), n),
           \A j \in DOMAIN line : j # i => Ordered(line[j], n)
    PROVE  LineInv' /\ \A o : InLine(o)' <=> o = n \/ Besides(i, o)
<1>1. PICK q : q = RemoveAt(line, i)
  OBVIOUS
<1>2. /\ q \in Seq(Op) /\ Len(q) = Len(line) - 1
      /\ \A k \in DOMAIN q : Shape(q[k])
      /\ \A k, m \in DOMAIN q : k < m => Ordered(q[k], q[m])
      /\ \A o : (\E k \in DOMAIN q : q[k] = o) <=> Besides(i, o)
  BY <1>1, RemovalKeepsLine
<1>3. /\ line' = Append(q, n) /\ Len(line) \in Nat /\ Len(line) <= MaxOps /\ MaxOps \in Nat
  BY <1>1, BranchesAssumption DEF LineInv
<1>4. /\ line' \in Seq(Op) /\ Len(line') = Len(q) + 1 /\ Len(q) \in Nat
      /\ DOMAIN q = 1 .. Len(q) /\ DOMAIN line' = 1 .. Len(q) + 1
      /\ line'[Len(q) + 1] = n /\ \A k \in 1 .. Len(q) : line'[k] = q[k]
  BY <1>2, <1>3
<1>5. \A k \in DOMAIN q : Ordered(q[k], n)
  <2> TAKE k \in DOMAIN q
  <2>1. Besides(i, q[k])
    BY <1>2
  <2> QED BY <2>1 DEF Besides
<1>6. \A k \in DOMAIN line' : Shape(line'[k])
  BY <1>2, <1>4
<1>7. \A k, m \in DOMAIN line' : k < m => Ordered(line'[k], line'[m])
  <2> TAKE k, m \in DOMAIN line'
  <2>1. CASE k < m /\ m \in DOMAIN q
    BY <1>2, <1>4, <2>1
  <2>2. CASE k < m /\ m = Len(q) + 1
    BY <1>4, <1>5, <2>2
  <2> QED BY <1>4, <2>1, <2>2
<1>8. Len(line') <= MaxOps
  BY <1>2, <1>3, <1>4
<1>9. \A o : InLine(o)' <=> o = n \/ Besides(i, o)
  <2> TAKE o
  <2>1. InLine(o)' <=> o = n \/ \E k \in DOMAIN q : q[k] = o
    BY <1>4 DEF InLine
  <2> QED BY <2>1, <1>2
<1> QED BY <1>4, <1>6, <1>7, <1>8, <1>9 DEF LineInv

\* One that moves on.
LEMMA MoveKeepsLine ==
    ASSUME LineInv, NEW i \in DOMAIN line, NEW n \in Op, Shape(n), line' = [line EXCEPT ![i] = n],
           Fits(i, n)
    PROVE  LineInv' /\ \A o : InLine(o)' <=> o = n \/ Besides(i, o)
<1>1. /\ line \in Seq(Op) /\ DOMAIN line = 1 .. Len(line) /\ Len(line) \in Nat
      /\ line' \in Seq(Op) /\ DOMAIN line' = DOMAIN line /\ Len(line') = Len(line)
      /\ line'[i] = n /\ \A j \in DOMAIN line : j # i => line'[j] = line[j]
  BY DEF LineInv
<1>2. \A j \in DOMAIN line' : Shape(line'[j])
  BY <1>1 DEF LineInv
<1>3. \A j, k \in DOMAIN line' : j < k => Ordered(line'[j], line'[k])
  <2> TAKE j, k \in DOMAIN line'
  <2>1. CASE j < k /\ j = i
    BY <1>1, <2>1 DEF Fits
  <2>2. CASE j < k /\ k = i
    BY <1>1, <2>2 DEF Fits
  <2>3. CASE j < k /\ j # i /\ k # i
    BY <1>1, <2>3 DEF LineInv
  <2> QED BY <2>1, <2>2, <2>3
<1>4. \A o : InLine(o)' <=> o = n \/ Besides(i, o)
  BY <1>1 DEF InLine, Besides
<1> QED BY <1>1, <1>2, <1>3, <1>4 DEF LineInv

\* What an operation under its keys may take of the others.
LEMMA OtherFacts ==
    ASSUME LineInv, NEW i \in DOMAIN line, NEW o, Besides(i, o)
    PROVE  /\ o \in Op /\ Shape(o) /\ line[i] \in Op /\ Shape(line[i])
           /\ (line[i].pc # "queued" \/ Granted(i)) /\ o.pc # "queued" => line[i].keys \cap o.keys = {}
           /\ ~(line[i].pc \in Provisioning /\ o.pc \in Provisioning)
           /\ IsNew(line[i]) => o.branch # line[i].branch /\ line[i].branch \notin o.keys
           /\ IsNew(o) => line[i].branch # o.branch /\ o.branch \notin line[i].keys
           /\ line[i].kind = "project" /\ line[i].project = o.project => o.kind = "drop"
           /\ o.kind = "project" /\ line[i].project = o.project => line[i].kind = "drop"
<1>1. PICK j \in DOMAIN line : j # i /\ line[j] = o
  BY DEF Besides
<1>2. line \in Seq(Op) /\ DOMAIN line = 1 .. Len(line) /\ Len(line) \in Nat
  BY DEF LineInv
<1>3. o \in Op /\ line[i] \in Op
  BY <1>1, <1>2
<1>4. Shape(o) /\ Shape(line[i])
  BY <1>1 DEF LineInv
<1>5. CASE j < i
  <2>1. Ordered(o, line[i])
    BY <1>1, <1>5 DEF LineInv
  <2>2. Granted(i) => line[i].keys \cap o.keys = {}
    BY <1>1, <1>2, <1>5 DEF Granted
  <2> QED BY <1>3, <1>4, <2>1, <2>2 DEF Ordered
<1>6. CASE i < j
  <2>1. Ordered(line[i], o)
    BY <1>1, <1>6 DEF LineInv
  <2> QED BY <1>3, <1>4, <2>1 DEF Ordered
<1> QED BY <1>1, <1>2, <1>5, <1>6

\* The step of an operation that has its keys, which may take another that nobody has.
LEMMA StepKeepsLine ==
    ASSUME LineInv, NEW i \in DOMAIN line, line[i].pc # "queued" \/ Granted(i),
           NEW n \in Op, Shape(n), line' = [line EXCEPT ![i] = n],
           n.kind = line[i].kind, n.branch = line[i].branch, n.project = line[i].project,
           n.pc # "queued", IsNew(n) => IsNew(line[i]),
           n.pc \in Provisioning => \/ line[i].pc \in Provisioning
                                    \/ \A j \in DOMAIN line : line[j].pc \notin Provisioning,
           \A o : Besides(i, o) => n.keys \cap o.keys \subseteq line[i].keys,
           \A o : Besides(i, o) /\ IsNew(o) => o.branch \notin n.keys
    PROVE  LineInv' /\ \A o : InLine(o)' <=> o = n \/ Besides(i, o)
<1>1. ASSUME NEW j \in DOMAIN line, j # i
      PROVE  /\ j < i => Ordered(line[j], n)
             /\ i < j => Ordered(n, line[j])
  <2> DEFINE a == line[i]
             o == line[j]
  <2>1. Besides(i, o)
    BY <1>1 DEF Besides
  <2>2. line[j] \in Op /\ line[i] \in Op
    BY DEF LineInv
  <2>3. (a.pc # "queued" \/ Granted(i)) /\ o.pc # "queued" => a.keys \cap o.keys = {}
    BY <2>1, OtherFacts, Zenon
  <2>4. /\ ~(a.pc \in Provisioning /\ o.pc \in Provisioning)
        /\ IsNew(a) => o.branch # a.branch /\ a.branch \notin o.keys
        /\ IsNew(o) => a.branch # o.branch /\ o.branch \notin a.keys
        /\ a.kind = "project" /\ a.project = o.project => o.kind = "drop"
        /\ o.kind = "project" /\ a.project = o.project => a.kind = "drop"
    BY <2>1, OtherFacts, Zenon
  <2>5. ~(n.pc \in Provisioning /\ o.pc \in Provisioning)
    BY <2>4
  <2>6. /\ IsNew(n) => o.branch # n.branch /\ n.branch \notin o.keys
        /\ IsNew(o) => n.branch # o.branch /\ o.branch \notin n.keys
        /\ n.kind = "project" /\ n.project = o.project => o.kind = "drop"
        /\ o.kind = "project" /\ n.project = o.project => n.kind = "drop"
    BY <2>1, <2>4
  <2>7. n.keys \cap o.keys \subseteq a.keys
    BY <2>1
  <2>8. ASSUME j < i PROVE Ordered(o, n)
    <3>1. a.keys \cap o.keys = {}
      <4>1. CASE a.pc = "queued"
        BY <2>8, <4>1 DEF Granted, LineInv
      <4>2. CASE a.pc # "queued"
        BY <1>1, <2>8, <4>2 DEF LineInv, Ordered
      <4> QED BY <4>1, <4>2
    <3>2. o.kind = "project" /\ o.project = n.project => n.kind = "drop"
      BY <2>6
    <3>3. n.kind = "project" => o.project # n.project
      <4>1. Ordered(o, a)
        BY <1>1, <2>8 DEF LineInv
      <4> QED BY <4>1 DEF Ordered
    <3> QED BY <2>5, <2>6, <2>7, <3>1, <3>2, <3>3 DEF Ordered
  <2>9. ASSUME i < j PROVE Ordered(n, o)
    <3>1. Ordered(a, o)
      BY <1>1, <2>9 DEF LineInv
    <3> QED BY <2>5, <2>6, <2>7, <3>1 DEF Ordered
  <2> QED BY <2>8, <2>9
<1>2. Fits(i, n)
  BY <1>1 DEF Fits
<1> QED BY <1>2, MoveKeepsLine

\* One that goes on with the same keys.
LEMMA GotoKeepsLine ==
    ASSUME LineInv, NEW i \in DOMAIN line, line[i].pc # "queued" \/ Granted(i),
           NEW pc \in Pcs, Goto(i, pc), pc # "queued", Place(line[i].kind, pc),
           pc \in Early => line[i].pc \in Early,
           pc \in Provisioning => \/ line[i].pc \in Provisioning
                                  \/ \A j \in DOMAIN line : line[j].pc \notin Provisioning
    PROVE  \E n \in Op :
              /\ n = [line[i] EXCEPT !.pc = pc]
              /\ n.pc = pc /\ n.kind = line[i].kind /\ n.project = line[i].project
              /\ n.branch = line[i].branch /\ n.name = line[i].name
              /\ n.source = line[i].source /\ n.target = line[i].target
              /\ n.keys = line[i].keys /\ n.todo = line[i].todo /\ n.kept = line[i].kept
              /\ LineInv' /\ \A o : InLine(o)' <=> o = n \/ Besides(i, o)
<1>1. line[i] \in Op /\ Shape(line[i])
  BY DEF LineInv
<1>2. PICK n \in Op : n = [line[i] EXCEPT !.pc = pc]
  BY <1>1 DEF Op
<1>3. /\ n.pc = pc /\ n.kind = line[i].kind /\ n.project = line[i].project
      /\ n.branch = line[i].branch /\ n.name = line[i].name
      /\ n.source = line[i].source /\ n.target = line[i].target
      /\ n.keys = line[i].keys /\ n.todo = line[i].todo /\ n.kept = line[i].kept
  BY <1>1, <1>2 DEF Op
<1>4. Shape(n)
  BY <1>1, <1>3 DEF Shape
<1>5. line' = [line EXCEPT ![i] = n]
  BY <1>2 DEF Goto
<1>6. IsNew(n) => IsNew(line[i])
  BY <1>3 DEF IsNew
<1>7. \A o : Besides(i, o) => n.keys \cap o.keys \subseteq line[i].keys
  BY <1>3
<1>8. \A o : Besides(i, o) /\ IsNew(o) => o.branch \notin n.keys
  BY <1>3, OtherFacts, Zenon
<1>9. LineInv' /\ \A o : InLine(o)' <=> o = n \/ Besides(i, o)
  BY <1>3, <1>4, <1>5, <1>6, <1>7, <1>8, StepKeepsLine
<1> QED BY <1>2, <1>3, <1>9

-------------------------------------------------------------------------------
\* What a step leaves to the others.

\* It adds no row and renames none; what it takes away is under its keys, and what it
\* builds or takes down is its own.
Clean(i) ==
    /\ \A b \in Branch : row'[b] # None =>
          /\ row[b] # None
          /\ row'[b].project = row[b].project /\ row'[b].name = row[b].name
          /\ row'[b].ref = row[b].ref /\ (row'[b].status = "ready" => row[b].status = "ready")
          /\ row[b].project \in projects' /\ built'[row[b].ref] = built[row[b].ref]
    /\ \A b \in Rows : row'[b] = None => b \in line[i].keys
    /\ \A p \in projects : p \notin projects' => p \in line[i].keys
    /\ \A r \in Stack : built'[r] # built[r] =>
          line[i].pc \in Provisioning \/ \E b \in Rows : row[b].ref = r

LEMMA NewOnesHold ==
    ASSUME NEW i, NEW o, NewHolds(o), Clean(i), o \in Op, Shape(o)
    PROVE  NewHolds(o)'
BY DEF NewHolds, Clean, Rows, BranchesOf, IsNew, Shape

LEMMA ClaimsHoldOn ==
    ASSUME BranchesInv, NEW i \in DOMAIN line, line[i].pc # "queued" \/ Granted(i), Clean(i),
           NEW o \in Op, Besides(i, o), ClaimHolds(o)
    PROVE  ClaimHolds(o)'
<1> SUFFICES ASSUME o.pc \in Provisioning
             PROVE  /\ o.project \in projects'
                    /\ NamesApart => Named(o.project, o.name)' = {}
                    /\ \A b \in Rows' : row'[b].ref # RefOf(o)
                    /\ o.pc = "network" => built'[RefOf(o)] \notin Branch
                    /\ o.pc = "stack" => built'[RefOf(o)] = o.branch
  BY DEF ClaimHolds, RefOf
<1>1. LineInv /\ RefOf(o) \in Stack
  BY RefIsStack DEF BranchesInv
<1>2. /\ o.project \in projects
      /\ NamesApart => Named(o.project, o.name) = {}
      /\ \A b \in Rows : row[b].ref # RefOf(o)
      /\ o.pc = "network" => built[RefOf(o)] \notin Branch
      /\ o.pc = "stack" => built[RefOf(o)] = o.branch
  BY DEF ClaimHolds
<1>3. o.pc # "queued" /\ Shape(o) /\ line[i].pc \notin Provisioning /\ line[i].keys \cap o.keys = {}
  BY <1>1, OtherFacts DEF Provisioning
<1>4. o.project \in o.keys
  BY <1>3 DEF Shape, Place, Op, Provisioning
<1>5. o.project \in projects'
  BY <1>2, <1>3, <1>4 DEF Clean
<1>6. built'[RefOf(o)] = built[RefOf(o)]
  BY <1>1, <1>2, <1>3 DEF Clean
<1>7. NamesApart => Named(o.project, o.name)' = {}
  BY <1>2 DEF Clean, Named, BranchesOf, Rows
<1>8. \A b \in Rows' : row'[b].ref # RefOf(o)
  BY <1>2 DEF Clean, Rows
<1> QED BY <1>2, <1>5, <1>6, <1>7, <1>8

LEMMA RowsHoldOn ==
    ASSUME BranchesInv, NEW i \in DOMAIN line, line[i].pc # "queued" \/ Granted(i), Clean(i),
           NEW o \in Op, Besides(i, o), RowHolds(o)
    PROVE  RowHolds(o)'
<1>1. /\ Shape(o)
      /\ o.pc # "queued" => line[i].keys \cap o.keys = {}
  BY OtherFacts DEF BranchesInv
<1>2. \A b \in Branch : b \in Rows /\ b \in o.keys /\ o.pc # "queued" =>
         b \in Rows' /\ row'[b].project = row[b].project
  BY <1>1 DEF Clean, Rows
<1>3. \A b \in Branch : b \in Rows' => b \in Rows /\ row'[b].project = row[b].project
  BY DEF Clean, Rows
<1>4. o.kind = "create" /\ o.pc \in Late => (o.branch \in Rows /\ row[o.branch].project = o.project)'
  BY <1>1, <1>2 DEF RowHolds, Shape, Late, Op
<1>5. o.pc = "deploy" => (o.target \in Rows)' /\ o.target \in o.keys
  BY <1>1, <1>2 DEF RowHolds, Shape, Op, Rows
<1>6. o.pc = "teardown" => (o.branch \in Rows)'
  <2> SUFFICES ASSUME o.pc = "teardown" PROVE (o.branch \in Rows)'
    OBVIOUS
  <2>1. o.kind = "delete"
    BY <1>1 DEF Shape, Place, Op, Early, Late, Provisioning
  <2> QED BY <1>1, <1>2, <2>1 DEF RowHolds, Shape, Rows
<1>7. o.pc = "demolish" =>
         /\ o.todo # {} /\ o.todo \subseteq BranchesOf(o.project)'
         /\ ~o.kept => BranchesOf(o.project)' \subseteq o.todo
  BY <1>1, <1>2, <1>3 DEF RowHolds, Shape, BranchesOf, Rows, Op
<1> QED BY <1>4, <1>5, <1>6, <1>7 DEF RowHolds

LEMMA OthersHold ==
    ASSUME BranchesInv, NEW i \in DOMAIN line, line[i].pc # "queued" \/ Granted(i), Clean(i),
           NEW o, Besides(i, o)
    PROVE  o \in Op /\ Holds(o)'
<1>1. o \in Op /\ Shape(o) /\ InLine(o)
  BY OtherFacts DEF BranchesInv, Besides, InLine
<1>2. NewHolds(o) /\ ClaimHolds(o) /\ RowHolds(o)
  BY <1>1 DEF BranchesInv, Holds
<1> QED BY <1>1, <1>2, NewOnesHold, ClaimsHoldOn, RowsHoldOn DEF Holds

\* The rows that are left are as they were, each with its own ref, name, project and stack.
LEMMA RowsStay ==
    ASSUME BranchesInv, NEW i, Clean(i)
    PROVE  RowsApart' /\ StackIsOwn' /\ NoOrphans'
<1>1. RowsApart /\ StackIsOwn /\ NoOrphans
  BY DEF BranchesInv, RowsInv
<1>2. \A b \in Rows' :
         /\ b \in Rows /\ row'[b].project = row[b].project /\ row'[b].name = row[b].name
         /\ row'[b].ref = row[b].ref /\ (row'[b].status = "ready" => row[b].status = "ready")
         /\ row[b].project \in projects' /\ built'[row[b].ref] = built[row[b].ref]
  BY DEF Clean, Rows
<1>3. RowsApart'
  <2> SUFFICES ASSUME NEW b \in Rows', NEW c \in Rows', b # c
               PROVE  /\ row'[b].ref # row'[c].ref
                      /\ NamesApart /\ row'[b].project = row'[c].project => row'[b].name # row'[c].name
    BY DEF RowsApart, NamesApart
  <2> QED BY <1>1, <1>2 DEF RowsApart
<1>4. StackIsOwn'
  BY <1>1, <1>2 DEF StackIsOwn
<1>5. NoOrphans'
  BY <1>2 DEF NoOrphans
<1> QED BY <1>3, <1>4, <1>5

\* What is being provisioned still is: the step is not of the operation that does it, or
\* leaves it at it.
LEMMA ProvisionsStay ==
    ASSUME NEW i \in DOMAIN line, NEW N, \A o : InLine(o)' <=> o \in N \/ Besides(i, o),
           line[i].pc \in Provisioning =>
               \E n \in N : /\ n \in Op /\ n.pc \in Provisioning /\ n.branch = line[i].branch
                            /\ RefOf(n) = RefOf(line[i]),
           NEW b, NEW r, Provisions(b, r)
    PROVE  Provisions(b, r)'
<1>1. PICK o \in Op : InLine(o) /\ o.pc \in Provisioning /\ o.branch = b /\ RefOf(o) = r
  BY DEF Provisions
<1>2. CASE o = line[i]
  <2>1. PICK n \in N : /\ n \in Op /\ n.pc \in Provisioning /\ n.branch = line[i].branch
                       /\ RefOf(n) = RefOf(line[i])
    BY <1>1, <1>2
  <2>2. InLine(n)'
    BY <2>1
  <2>3. RefOf(n)' = r
    BY <1>1, <1>2, <2>1 DEF RefOf
  <2> QED BY <1>1, <1>2, <2>1, <2>2, <2>3 DEF Provisions
<1>3. CASE o # line[i]
  <2>1. Besides(i, o)
    BY <1>1, <1>3 DEF InLine, Besides
  <2>2. InLine(o)' /\ RefOf(o)' = r
    BY <1>1, <2>1 DEF RefOf
  <2> QED BY <1>1, <2>2 DEF Provisions
<1> QED BY <1>2, <1>3

\* What a clean step has to show.
LEMMA PhaseKeepsInv ==
    ASSUME BranchesInv, NEW i \in DOMAIN line, line[i].pc # "queued" \/ Granted(i), Clean(i),
           NEW N, LineInv', \A o : InLine(o)' <=> o \in N \/ Besides(i, o),
           \A n \in N : n \in Op => Holds(n)',
           StoreTyped', NamesApart => NoStraySecrets', ClaimsHeld', StacksNamed'
    PROVE  BranchesInv'
<1>1. \A o \in Op : InLine(o)' => Holds(o)'
  BY OthersHold
<1>2. RowsInv'
  BY RowsStay DEF RowsInv, NamesApart
<1> QED BY <1>1, <1>2 DEF BranchesInv

\* A step of an operation that is not provisioning, or goes on doing it.
LEMMA StepKeepsInv ==
    ASSUME BranchesInv, NEW i \in DOMAIN line, line[i].pc # "queued" \/ Granted(i), Clean(i),
           NEW N, LineInv', \A o : InLine(o)' <=> o \in N \/ Besides(i, o),
           \A n \in N : n \in Op => Holds(n)',
           line[i].pc \in Provisioning =>
               \E n \in N : /\ n \in Op /\ n.pc \in Provisioning /\ n.branch = line[i].branch
                            /\ RefOf(n) = RefOf(line[i]),
           StoreTyped', NamesApart => NoStraySecrets', claim' = claim,
           \A b \in Rows : row'[b] = None => built'[row[b].ref] = None,
           \A r \in Stack : built'[r] \in Branch => built'[r] = built[r]
    PROVE  BranchesInv'
<1>1. ClaimsHeld'
  <2> SUFFICES ASSUME NEW r \in Stack, claim[r] # None PROVE Provisions(claim[r], r)'
    BY DEF ClaimsHeld, Provisions, InLine, RefOf
  <2>1. Provisions(claim[r], r)
    BY DEF BranchesInv, ClaimsHeld
  <2> QED BY <2>1, ProvisionsStay
<1>2. StacksNamed'
  <2> SUFFICES ASSUME NEW r \in Stack, built'[r] \in Branch
               PROVE  (\E b \in Rows' : row'[b].ref = r) \/ (\E b \in Branch : Provisions(b, r)')
    BY DEF StacksNamed
  <2>1. built'[r] = built[r]
    OBVIOUS
  <2>2. (\E b \in Rows : row[b].ref = r) \/ (\E b \in Branch : Provisions(b, r))
    BY <2>1 DEF BranchesInv, StacksNamed
  <2>3. CASE \E b \in Rows : row[b].ref = r
    <3>1. PICK b \in Rows : row[b].ref = r
      BY <2>3
    <3>2. row'[b] # None
      BY <3>1, BranchesAssumption
    <3> QED BY <3>1, <3>2 DEF Clean, Rows
  <2>4. CASE \E b \in Branch : Provisions(b, r)
    BY <2>4, ProvisionsStay
  <2> QED BY <2>2, <2>3, <2>4
<1> QED BY <1>1, <1>2, PhaseKeepsInv

\* A step that leaves the store and the stacks as they are.
LEMMA AsideKeepsInv ==
    ASSUME BranchesInv, NEW i \in DOMAIN line, line[i].pc # "queued" \/ Granted(i),
           UNCHANGED <<store, built>>,
           NEW N, LineInv', \A o : InLine(o)' <=> o \in N \/ Besides(i, o),
           \A n \in N : n \in Op => Holds(n),
           line[i].pc \in Provisioning =>
               \E n \in N : /\ n \in Op /\ n.pc \in Provisioning /\ n.branch = line[i].branch
                            /\ RefOf(n) = RefOf(line[i])
    PROVE  BranchesInv'
<1>1. /\ projects' = projects /\ row' = row /\ claim' = claim /\ secret' = secret
      /\ built' = built
  BY DEF store
<1>2. RowsInv
  BY DEF BranchesInv
<1>3. Clean(i)
  BY <1>1, <1>2 DEF Clean, RowsInv, NoOrphans, Rows
<1>4. StoreTyped' /\ (NamesApart => NoStraySecrets')
  BY <1>1, <1>2 DEF RowsInv, StoreTyped, NoStraySecrets, Rows
<1>5. \A n \in N : n \in Op => Holds(n)'
  BY <1>1 DEF Holds, NewHolds, ClaimHolds, RowHolds, Rows, BranchesOf, Named, RefOf, IsNew
<1> QED BY <1>1, <1>3, <1>4, <1>5, StepKeepsInv DEF Rows

-------------------------------------------------------------------------------
\* The calls.

LEMMA EnterKeepsInv ==
    ASSUME BranchesInv, NEW n \in Op, Enter(n), UNCHANGED <<store, built>>, n.pc = "queued",
           Shape(n), NewHolds(n), \A i \in DOMAIN line : Ordered(line[i], n)
    PROVE  BranchesInv'
<1>1. /\ projects' = projects /\ row' = row /\ claim' = claim /\ secret' = secret
      /\ built' = built
  BY DEF store
<1>2. LineInv' /\ \A o : InLine(o)' <=> o = n \/ InLine(o)
  BY EnterKeepsLine DEF BranchesInv
<1>3. RowsInv'
  BY <1>1 DEF BranchesInv, RowsInv, StoreTyped, RowsApart, StackIsOwn, NoOrphans, NoStraySecrets,
              Rows, NamesApart
<1>4. \A b, r : Provisions(b, r) => Provisions(b, r)'
  BY <1>2 DEF Provisions, RefOf
<1>5. ClaimsHeld' /\ StacksNamed'
  BY <1>1, <1>4 DEF BranchesInv, ClaimsHeld, StacksNamed, Rows
<1>6. ClaimHolds(n) /\ RowHolds(n)
  BY DEF ClaimHolds, RowHolds, Provisioning, Late
<1>7. \A o \in Op : InLine(o)' => Holds(o)
  BY <1>2, <1>6 DEF BranchesInv, Holds
<1>8. \A o \in Op : Holds(o) => Holds(o)'
  BY <1>1 DEF Holds, NewHolds, ClaimHolds, RowHolds, Rows, BranchesOf, Named, RefOf, IsNew
<1> QED BY <1>2, <1>3, <1>5, <1>7, <1>8 DEF BranchesInv

\* A branch that has a row is nobody's new one, nor of a project that is being made.
LEMMA RowsAreOld ==
    ASSUME BranchesInv, NEW i \in DOMAIN line, NEW b \in Rows
    PROVE  /\ line[i] \in Op /\ Shape(line[i])
           /\ IsNew(line[i]) => line[i].branch \in Branch /\ line[i].branch # b
           /\ line[i].kind = "project" => row[b].project # line[i].project
<1>1. line[i] \in Op /\ Shape(line[i])
  BY DEF BranchesInv, LineInv
<1>2. NewHolds(line[i])
  BY <1>1 DEF BranchesInv, InLine, Holds
<1> QED BY <1>1, <1>2 DEF NewHolds, IsNew, Shape, BranchesOf

\* What a call starts from; the project is still to be given.
NewOps == [kind : {"project", "create", "delete", "deploy", "drop"}, pc : Pcs,
           project : Project \cup {None}, branch : Branch \cup {None}, name : Name,
           source : Branch \cup {None}, target : Branch \cup {None},
           keys : SUBSET (Project \cup Branch), cloned : BOOLEAN,
           todo : SUBSET Branch, kept : BOOLEAN, round : 1 .. Rounds]

LEMMA NewOpTyped ==
    \E x \in NewOps : /\ x = NewOp /\ x.kind = "create" /\ x.pc = "queued" /\ x.branch = None
                      /\ x.todo = {}
<1>1. 1 \in 1 .. Rounds /\ Main \in Name
  BY BranchesAssumption
<1>2. "queued" \in Pcs
  BY DEF Pcs, Early
<1>3. NewOp \in NewOps
  BY <1>1, <1>2 DEF NewOp, NewOps
<1>4. NewOp.kind = "create" /\ NewOp.pc = "queued" /\ NewOp.branch = None /\ NewOp.todo = {}
  BY DEF NewOp
<1> QED BY <1>3, <1>4

LEMMA AskProjectKeeps ==
    ASSUME BranchesInv, NEW p \in Project, NEW b \in Branch, AskProject(p, b) PROVE BranchesInv'
<1> DEFINE n == [NewOp EXCEPT !.kind = "project", !.project = p, !.branch = b, !.keys = {p}]
<1>1. /\ n \in Op /\ n.kind = "project" /\ n.pc = "queued" /\ n.project = p /\ n.branch = b
      /\ n.keys = {p} /\ n.todo = {}
  <2>1. PICK x \in NewOps : /\ x = NewOp /\ x.kind = "create" /\ x.pc = "queued"
                            /\ x.branch = None /\ x.todo = {}
    BY NewOpTyped
  <2> QED BY <2>1 DEF NewOps, Op
<1>2. /\ p \notin projects /\ \A i \in DOMAIN line : line[i].project # p
      /\ b \notin Rows /\ \A i \in DOMAIN line : b \notin line[i].keys /\ line[i].branch # b
      /\ Enter(n) /\ UNCHANGED <<store, built>>
  BY DEF AskProject, Fresh
<1> HIDE DEF n
<1>3. Shape(n)
  BY <1>1 DEF Shape, Place, Early
<1>4. NewHolds(n)
  BY <1>1, <1>2 DEF NewHolds, BranchesInv, RowsInv, NoOrphans, BranchesOf
<1>5. ASSUME NEW i \in DOMAIN line PROVE Ordered(line[i], n)
  <2>1. line[i] \in Op /\ Shape(line[i])
    BY DEF BranchesInv, LineInv
  <2>2. IsNew(line[i]) => line[i].branch \notin n.keys
    BY <1>1, <2>1, BranchesAssumption DEF IsNew, Shape
  <2> QED BY <1>1, <1>2, <2>2 DEF Ordered, Provisioning
<1> QED BY <1>1, <1>2, <1>3, <1>4, <1>5, EnterKeepsInv

LEMMA AskCreateKeeps ==
    ASSUME BranchesInv, NEW p \in Project, NEW b \in Branch, NEW source \in Branch,
           NEW name \in Name, AskCreate(p, name, source, b)
    PROVE  BranchesInv'
<1> DEFINE n == [NewOp EXCEPT !.project = p, !.branch = b, !.name = name, !.source = source,
                              !.keys = {p, source, b}]
<1>1. /\ n \in Op /\ n.kind = "create" /\ n.pc = "queued" /\ n.project = p /\ n.branch = b
      /\ n.keys = {p, source, b} /\ n.name = name /\ n.todo = {}
  <2>1. PICK x \in NewOps : /\ x = NewOp /\ x.kind = "create" /\ x.pc = "queued"
                            /\ x.branch = None /\ x.todo = {}
    BY NewOpTyped
  <2> QED BY <2>1 DEF NewOps, Op
<1>2. /\ <<p, name>> \in CreateAs /\ source \in BranchesOf(p)
      /\ b \notin Rows /\ \A i \in DOMAIN line : b \notin line[i].keys /\ line[i].branch # b
      /\ Enter(n) /\ UNCHANGED <<store, built>>
  BY DEF AskCreate, Fresh
<1> HIDE DEF n
<1>3. Shape(n)
  BY <1>1, <1>2 DEF Shape, Place, Early
<1>4. NewHolds(n)
  BY <1>1, <1>2 DEF NewHolds
<1>5. ASSUME NEW i \in DOMAIN line PROVE Ordered(line[i], n)
  <2>1. source \in Rows /\ row[source].project = p
    BY <1>2 DEF BranchesOf
  <2>2. /\ IsNew(line[i]) => line[i].branch \in Branch /\ line[i].branch # source
        /\ line[i].kind = "project" => line[i].project # p
    BY <2>1, RowsAreOld
  <2>3. IsNew(line[i]) => line[i].branch \notin n.keys
    BY <1>1, <1>2, <2>2, BranchesAssumption
  <2> QED BY <1>1, <1>2, <2>2, <2>3 DEF Ordered, Provisioning
<1> QED BY <1>1, <1>2, <1>3, <1>4, <1>5, EnterKeepsInv

LEMMA AskBranchKeeps ==
    ASSUME BranchesInv, NEW b \in Branch, AskDelete(b) \/ AskDeploy(b) PROVE BranchesInv'
<1>1. b \in Rows /\ row[b] \in Row /\ UNCHANGED <<store, built>>
  BY DEF AskDelete, AskDeploy, BranchesInv, RowsInv, StoreTyped, Rows
<1>2. PICK n \in Op : /\ n.kind \in {"delete", "deploy"} /\ n.pc = "queued"
                      /\ n.project = row[b].project /\ n.branch = b /\ n.keys = {b} /\ n.todo = {}
                      /\ n.kind = "deploy" => n.target = b
                      /\ Enter(n)
  <2>1. row[b].project \in Project
    BY <1>1 DEF Row
  <2>2. CASE AskDelete(b)
    <3> DEFINE n == [NewOp EXCEPT !.kind = "delete", !.project = row[b].project, !.branch = b,
                                  !.keys = {b}]
    <3>1. Enter(n)
      BY <2>2 DEF AskDelete
    <3>2. /\ n \in Op /\ n.kind = "delete" /\ n.pc = "queued" /\ n.project = row[b].project
          /\ n.branch = b /\ n.keys = {b} /\ n.todo = {}
      <4>1. PICK x \in NewOps : /\ x = NewOp /\ x.kind = "create" /\ x.pc = "queued"
                                /\ x.branch = None /\ x.todo = {}
        BY NewOpTyped
      <4> QED BY <2>1, <4>1 DEF NewOps, Op
    <3> HIDE DEF n
    <3> QED BY <3>1, <3>2
  <2>3. CASE AskDeploy(b)
    <3> DEFINE n == [NewOp EXCEPT !.kind = "deploy", !.project = row[b].project, !.branch = b,
                                  !.target = b, !.keys = {b}]
    <3>1. Enter(n)
      BY <2>3 DEF AskDeploy
    <3>2. /\ n \in Op /\ n.kind = "deploy" /\ n.pc = "queued" /\ n.project = row[b].project
          /\ n.branch = b /\ n.keys = {b} /\ n.todo = {} /\ n.target = b
      <4>1. PICK x \in NewOps : /\ x = NewOp /\ x.kind = "create" /\ x.pc = "queued"
                                /\ x.branch = None /\ x.todo = {}
        BY NewOpTyped
      <4> QED BY <2>1, <4>1 DEF NewOps, Op
    <3> HIDE DEF n
    <3> QED BY <3>1, <3>2
  <2> QED BY <2>2, <2>3
<1>3. Shape(n) /\ NewHolds(n)
  BY <1>2 DEF Shape, Place, NewHolds, IsNew
<1>4. ASSUME NEW i \in DOMAIN line PROVE Ordered(line[i], n)
  <2>1. /\ IsNew(line[i]) => line[i].branch \in Branch /\ line[i].branch # b
        /\ line[i].kind = "project" => line[i].project # row[b].project
    BY <1>1, RowsAreOld
  <2> QED BY <1>2, <2>1 DEF Ordered, Provisioning, IsNew
<1> QED BY <1>1, <1>2, <1>3, <1>4, EnterKeepsInv

LEMMA AskDropKeeps ==
    ASSUME BranchesInv, NEW p \in Project, AskDrop(p) PROVE BranchesInv'
<1> DEFINE n == [NewOp EXCEPT !.kind = "drop", !.project = p, !.keys = {p} \cup BranchesOf(p)]
<1>1. /\ n \in Op /\ n.kind = "drop" /\ n.pc = "queued" /\ n.project = p /\ n.branch = None
      /\ n.keys = {p} \cup BranchesOf(p) /\ n.todo = {}
  <2>1. PICK x \in NewOps : /\ x = NewOp /\ x.kind = "create" /\ x.pc = "queued"
                            /\ x.branch = None /\ x.todo = {}
    BY NewOpTyped
  <2> QED BY <2>1 DEF NewOps, Op, BranchesOf, Rows
<1>2. Enter(n) /\ UNCHANGED <<store, built>>
  BY DEF AskDrop
<1> HIDE DEF n
<1>3. Shape(n) /\ NewHolds(n)
  BY <1>1 DEF Shape, Place, NewHolds, IsNew
<1>4. ASSUME NEW i \in DOMAIN line PROVE Ordered(line[i], n)
  <2>1. line[i] \in Op /\ Shape(line[i])
    BY DEF BranchesInv, LineInv
  <2>2. \A b \in BranchesOf(p) : IsNew(line[i]) => line[i].branch # b
    BY RowsAreOld DEF BranchesOf
  <2>3. IsNew(line[i]) => line[i].branch \in Branch
    BY <2>1 DEF IsNew, Shape
  <2>4. IsNew(line[i]) => line[i].branch \notin n.keys /\ n.branch # line[i].branch
    BY <1>1, <2>2, <2>3, BranchesAssumption
  <2> QED BY <1>1, <2>4 DEF Ordered, Provisioning, IsNew
<1> QED BY <1>1, <1>2, <1>3, <1>4, EnterKeepsInv

-------------------------------------------------------------------------------
\* The steps that only move an operation.

LEMMA Worker ==
    ASSUME BranchesInv, NEW i \in DOMAIN line
    PROVE  /\ LineInv /\ line[i] \in Op /\ Shape(line[i])
           /\ NewHolds(line[i]) /\ ClaimHolds(line[i]) /\ RowHolds(line[i])
           /\ line[i].pc \in Late \ {"deploy"} => line[i].kind = "create"
           /\ line[i].pc \in {"provision"} \cup Provisioning => line[i].kind \in {"project", "create"}
           /\ line[i].pc = "teardown" => line[i].kind = "delete"
           /\ line[i].pc = "demolish" => line[i].kind = "drop"
           /\ line[i].pc = "deploy" => line[i].kind \in {"create", "deploy"}
<1>1. LineInv /\ line[i] \in Op /\ Shape(line[i])
  BY DEF BranchesInv, LineInv
<1>2. NewHolds(line[i]) /\ ClaimHolds(line[i]) /\ RowHolds(line[i])
  BY <1>1 DEF BranchesInv, InLine, Holds
<1> QED BY <1>1, <1>2 DEF Shape, Place, Op, Early, Late, Provisioning

LEMMA LeaveKeepsInv ==
    ASSUME BranchesInv, NEW i \in DOMAIN line, line[i].pc # "queued" \/ Granted(i),
           line[i].pc \notin Provisioning, Leave(i), UNCHANGED <<store, built>>
    PROVE  BranchesInv'
<1>1. PICK N : N = {}
  OBVIOUS
<1>2. LineInv' /\ \A o : InLine(o)' <=> o \in N \/ Besides(i, o)
  BY <1>1, LeaveKeepsLine DEF BranchesInv
<1>3. \A n \in N : n \in Op => Holds(n)
  BY <1>1
<1> QED BY <1>2, <1>3, AsideKeepsInv

LEMMA StartCreateKeeps ==
    ASSUME BranchesInv, NEW i \in DOMAIN line, StartCreate(i) \/ StartProject(i)
    PROVE  BranchesInv'
<1>1. /\ line[i].pc = "queued" /\ Granted(i) /\ line[i].kind \in {"create", "project"}
      /\ Goto(i, "provision") \/ Leave(i)
      /\ UNCHANGED <<store, built>>
  BY DEF StartCreate, StartProject, Starts
<1>2. CASE Leave(i)
  BY <1>1, <1>2, LeaveKeepsInv DEF Provisioning
<1>3. CASE Goto(i, "provision")
  <2>1. "provision" \in Pcs /\ "provision" \in Early /\ "provision" \notin Provisioning
        /\ Place(line[i].kind, "provision")
    BY <1>1 DEF Pcs, Early, Provisioning, Place
  <2>2. PICK n \in Op : /\ n.pc = "provision" /\ n.kind = line[i].kind /\ n.branch = line[i].branch
                        /\ n.project = line[i].project
                        /\ LineInv' /\ \A o : InLine(o)' <=> o = n \/ Besides(i, o)
    BY <1>1, <1>3, <2>1, Worker, GotoKeepsLine DEF Early
  <2>3. Holds(n)
    BY <1>1, <2>2, Worker DEF Holds, NewHolds, ClaimHolds, RowHolds, IsNew, Early, Late, Provisioning
  <2>4. \A o : InLine(o)' <=> o \in {n} \/ Besides(i, o)
    BY <2>2
  <2> QED BY <1>1, <2>2, <2>3, <2>4, AsideKeepsInv DEF Provisioning
<1> QED BY <1>1, <1>2, <1>3

\* Between two steps of what a create builds on its row.
LEMMA LateKeeps ==
    ASSUME BranchesInv, NEW i \in DOMAIN line, line[i].kind = "create", line[i].pc \in Late,
           NEW pc \in Late \ {"deploy"}, Goto(i, pc), UNCHANGED <<store, built>>
    PROVE  BranchesInv'
<1>1. /\ pc \in Pcs /\ pc # "queued" /\ line[i].pc # "queued" /\ Place(line[i].kind, pc)
      /\ pc \notin Early /\ pc \notin Provisioning /\ line[i].pc \notin Provisioning
  BY DEF Pcs, Early, Late, Provisioning, Place
<1>2. PICK n \in Op : /\ n.pc = pc /\ n.kind = line[i].kind /\ n.branch = line[i].branch
                      /\ n.project = line[i].project
                      /\ LineInv' /\ \A o : InLine(o)' <=> o = n \/ Besides(i, o)
  BY <1>1, Worker, GotoKeepsLine
<1>3. NewHolds(n)
  BY <1>1, <1>2 DEF NewHolds, IsNew
<1>4. ClaimHolds(n)
  BY <1>1, <1>2 DEF ClaimHolds
<1>5. RowHolds(n)
  BY <1>2, Worker DEF RowHolds, Late
<1>6. \A o : InLine(o)' <=> o \in {n} \/ Besides(i, o)
  BY <1>2
<1>7. \A m \in {n} : m \in Op => Holds(m)
  BY <1>3, <1>4, <1>5 DEF Holds
<1> QED BY <1>1, <1>2, <1>6, <1>7, AsideKeepsInv

LEMMA VolumesKeeps ==
    ASSUME BranchesInv, NEW i \in DOMAIN line, Volumes(i) PROVE BranchesInv'
<1>1. /\ line[i].pc = "volumes" /\ UNCHANGED <<store, built>>
      /\ Goto(i, "secrets") \/ Goto(i, "redeploy") \/ Goto(i, "unwind")
  BY DEF Volumes, At, Or
<1>2. line[i].kind = "create" /\ line[i].pc \in Late
  BY <1>1, Worker DEF Late
<1>3. {"secrets", "redeploy", "unwind"} \subseteq Late \ {"deploy"}
  BY DEF Late
<1> QED BY <1>1, <1>2, <1>3, LateKeeps

LEMMA SettleKeeps ==
    ASSUME BranchesInv, NEW i \in DOMAIN line, Settle(i) PROVE BranchesInv'
<1>1. /\ line[i].pc = "settle" /\ UNCHANGED <<store, built>> /\ (Leave(i) \/ Goto(i, "unwind"))
  BY DEF Settle, At
<1>2. line[i].kind = "create" /\ line[i].pc \in Late /\ line[i].pc \notin Provisioning
  BY <1>1, Worker DEF Late, Provisioning
<1>3. "unwind" \in Late \ {"deploy"}
  BY DEF Late
<1> QED BY <1>1, <1>2, <1>3, LateKeeps, LeaveKeepsInv

LEMMA RedeployKeeps ==
    ASSUME BranchesInv, NEW i \in DOMAIN line, Redeploy(i) PROVE BranchesInv'
<1> DEFINE op == line[i]
<1>1. /\ op.pc = "redeploy" /\ UNCHANGED <<store, built>>
      /\ \/ Goto(i, "unwind")
         \/ \E t \in Named(op.project, op.name) :
               /\ t \in op.keys \/ \A j \in DOMAIN line : t \notin line[j].keys
               /\ Usable(t)
               /\ line' = [line EXCEPT ![i].pc = "deploy", ![i].target = t,
                                        ![i].keys = @ \cup {t}]
  BY DEF Redeploy, At
<1>2. op \in Op /\ Shape(op) /\ op.kind = "create" /\ op.pc \in Late /\ RowHolds(op) /\ LineInv
  BY <1>1, Worker DEF Late
<1>3. "unwind" \in Late \ {"deploy"}
  BY DEF Late
<1>4. CASE Goto(i, "unwind")
  BY <1>1, <1>2, <1>3, <1>4, LateKeeps
<1>5. ASSUME NEW t \in Named(op.project, op.name),
             t \in op.keys \/ \A j \in DOMAIN line : t \notin line[j].keys, Usable(t),
             line' = [line EXCEPT ![i].pc = "deploy", ![i].target = t, ![i].keys = @ \cup {t}]
      PROVE  BranchesInv'
  <2>1. t \in Rows /\ t \in Branch
    BY <1>5 DEF Named, BranchesOf, Rows
  <2>2. "deploy" \in Pcs /\ "deploy" \notin Early /\ "deploy" \notin Provisioning /\ "deploy" \in Late
    BY DEF Pcs, Early, Late, Provisioning
  <2>3. PICK n \in Op : n = [line[i] EXCEPT !.pc = "deploy", !.target = t,
                                        !.keys = line[i].keys \cup {t}]
    BY <1>2, <2>1, <2>2 DEF Op
  <2>4. /\ n.pc = "deploy" /\ n.kind = op.kind /\ n.project = op.project /\ n.branch = op.branch
        /\ n.name = op.name /\ n.target = t /\ n.keys = op.keys \cup {t} /\ n.todo = op.todo
    BY <1>2, <2>3 DEF Op
  <2>5. Shape(n)
    BY <1>2, <2>2, <2>4 DEF Shape, Place
  <2>6. \A o : Besides(i, o) => n.keys \cap o.keys \subseteq op.keys
    BY <1>5, <2>4 DEF Besides
  <2>7. \A o : Besides(i, o) /\ IsNew(o) => o.branch \notin n.keys
    <3> SUFFICES ASSUME NEW o, Besides(i, o), IsNew(o) PROVE o.branch \notin n.keys
      OBVIOUS
    <3>1. o.branch \notin op.keys
      BY <1>2, OtherFacts, Zenon
    <3>2. o.branch # t
      BY <2>1, RowsAreOld DEF Besides
    <3> QED BY <2>4, <3>1, <3>2
  <2>8. line' = [line EXCEPT ![i] = n]
    BY <1>5, <2>3
  <2>9. ~IsNew(n) /\ n.pc # "queued" /\ n.pc \notin Provisioning /\ op.pc # "queued"
    BY <1>1, <2>2, <2>4 DEF IsNew
  <2>10. LineInv' /\ \A o : InLine(o)' <=> o = n \/ Besides(i, o)
    BY <1>2, <2>4, <2>5, <2>6, <2>7, <2>8, <2>9, StepKeepsLine
  <2>11. Holds(n)
    BY <1>2, <2>1, <2>2, <2>4, <2>9 DEF Holds, NewHolds, ClaimHolds, RowHolds
  <2>12. \A o : InLine(o)' <=> o \in {n} \/ Besides(i, o)
    BY <2>10
  <2>13. line[i].pc \notin Provisioning /\ line[i].pc # "queued"
    BY <1>1 DEF Provisioning
  <2>14. \A m \in {n} : m \in Op => Holds(m)
    BY <2>11
  <2> QED BY <1>1, <2>10, <2>12, <2>13, <2>14, AsideKeepsInv
<1> QED BY <1>1, <1>4, <1>5

LEMMA StartDeployKeeps ==
    ASSUME BranchesInv, NEW i \in DOMAIN line, StartDeploy(i) \/ StartDelete(i) PROVE BranchesInv'
<1> DEFINE op == line[i]
<1>1. PICK pc \in {"deploy", "teardown"} :
         /\ pc = "deploy" => op.kind = "deploy"
         /\ pc = "teardown" => op.kind = "delete"
         /\ op.pc = "queued" /\ Granted(i) /\ UNCHANGED <<store, built>>
         /\ Leave(i) \/ (Goto(i, pc) /\ op.branch \in Rows)
  <2>1. CASE StartDeploy(i)
    <3> WITNESS "deploy" \in {"deploy", "teardown"}
    <3> QED BY <2>1 DEF StartDeploy, Starts, Usable
  <2>2. CASE StartDelete(i)
    <3> WITNESS "teardown" \in {"deploy", "teardown"}
    <3> QED BY <2>2 DEF StartDelete, Starts
  <2> QED BY <2>1, <2>2
<1>2. CASE Leave(i)
  BY <1>1, <1>2, LeaveKeepsInv DEF Provisioning
<1>3. CASE Goto(i, pc) /\ op.branch \in Rows
  <2>1. /\ pc \in Pcs /\ pc # "queued" /\ pc \notin Early /\ pc \notin Provisioning
        /\ Place(op.kind, pc) /\ op.pc \notin Provisioning
    BY <1>1 DEF Pcs, Early, Late, Provisioning, Place
  <2>2. PICK n \in Op : /\ n.pc = pc /\ n.kind = op.kind /\ n.branch = op.branch
                        /\ n.target = op.target /\ n.keys = op.keys
                        /\ LineInv' /\ \A o : InLine(o)' <=> o = n \/ Besides(i, o)
    BY <1>1, <1>3, <2>1, Worker, GotoKeepsLine
  <2>3. Holds(n)
    <3>1. pc = "deploy" => op.target = op.branch /\ op.branch \in op.keys
      BY <1>1, Worker DEF Shape
    <3> QED BY <1>1, <1>3, <2>1, <2>2, <3>1 DEF Holds, NewHolds, ClaimHolds, RowHolds, IsNew
  <2>4. \A o : InLine(o)' <=> o \in {n} \/ Besides(i, o)
    BY <2>2
  <2> QED BY <1>1, <2>1, <2>2, <2>3, <2>4, AsideKeepsInv
<1> QED BY <1>1, <1>2, <1>3

\* A delete of a project starts: with branches it has the keys of, at the end of the line
\* again, or not at all.
LEMMA StartDropKeeps ==
    ASSUME BranchesInv, NEW i \in DOMAIN line, StartDrop(i) PROVE BranchesInv'
<1> DEFINE op == line[i]
           live == BranchesOf(line[i].project)
<1>1. /\ op.kind = "drop" /\ op.pc = "queued" /\ Granted(i)
      /\ row' = row /\ claim' = claim /\ secret' = secret /\ built' = built
      /\ \/ live \subseteq op.keys /\ Drop(i, live)
         \/ /\ ~(live \subseteq op.keys) /\ op.round < Rounds
            /\ line' = Append(RemoveAt(line, i),
                              [op EXCEPT !.keys = @ \cup live, !.round = @ + 1])
            /\ projects' = projects
         \/ Leave(i) /\ projects' = projects
  BY DEF StartDrop, Starts
<1>2. /\ op \in Op /\ Shape(op) /\ LineInv /\ live \subseteq Branch /\ live \subseteq Rows
      /\ op.pc \notin Provisioning
  BY <1>1, Worker DEF BranchesOf, Rows, Provisioning
<1>3. CASE Leave(i) /\ projects' = projects
  BY <1>1, <1>2, <1>3, LeaveKeepsInv DEF store
<1>4. CASE /\ op.round < Rounds
           /\ line' = Append(RemoveAt(line, i),
                             [op EXCEPT !.keys = @ \cup live, !.round = @ + 1])
           /\ projects' = projects
  <2>1. op.round + 1 \in 1 .. Rounds
    BY <1>2, <1>4, BranchesAssumption DEF Op
  <2>2. PICK n \in Op : n = [op EXCEPT !.keys = @ \cup live, !.round = @ + 1]
    BY <1>2, <2>1 DEF Op
  <2>3. /\ n.kind = "drop" /\ n.pc = "queued" /\ n.project = op.project /\ n.branch = op.branch
        /\ n.keys = op.keys \cup live /\ n.todo = op.todo
    BY <1>1, <1>2, <2>2 DEF Op
  <2>4. Shape(n)
    BY <1>1, <1>2, <2>3 DEF Shape, Place
  <2>5. ASSUME NEW j \in DOMAIN line, j # i PROVE Ordered(line[j], n)
    <3>1. PICK o \in Op : o = line[j]
      BY <1>2 DEF LineInv
    <3>2. Besides(i, o)
      BY <2>5, <3>1 DEF Besides
    <3>3. IsNew(o) => op.branch # o.branch /\ o.branch \notin op.keys
      BY <1>2, <3>2, OtherFacts, Zenon
    <3>4. IsNew(o) => o.branch \notin live
      BY <1>2, <3>1, RowsAreOld
    <3>5. ~IsNew(n)
      BY <2>3 DEF IsNew
    <3> QED BY <2>3, <3>1, <3>3, <3>4, <3>5 DEF Ordered, Provisioning
  <2>6. line' = Append(RemoveAt(line, i), n)
    BY <1>4, <2>2
  <2>7. LineInv' /\ \A o : InLine(o)' <=> o = n \/ Besides(i, o)
    BY <1>2, <2>4, <2>5, <2>6, RequeueKeepsLine
  <2>8. Holds(n)
    BY <2>3 DEF Holds, NewHolds, ClaimHolds, RowHolds, IsNew, Provisioning, Late
  <2>9. \A o : InLine(o)' <=> o \in {n} \/ Besides(i, o)
    BY <2>7
  <2>10. \A m \in {n} : m \in Op => Holds(m)
    BY <2>8
  <2>11. UNCHANGED <<store, built>>
    BY <1>1, <1>4 DEF store
  <2> QED BY <1>1, <1>2, <2>7, <2>9, <2>10, <2>11, AsideKeepsInv
<1>5. CASE live \subseteq op.keys /\ live # {} /\ Drop(i, live)
  <2>1. /\ line' = [line EXCEPT ![i].pc = "demolish", ![i].todo = live]
        /\ projects' = projects
    BY <1>5 DEF Drop
  <2>2. "demolish" \in Pcs /\ "demolish" \notin Provisioning
    BY DEF Pcs, Provisioning
  <2>3. PICK n \in Op : n = [op EXCEPT !.pc = "demolish", !.todo = live]
    BY <1>2, <2>2 DEF Op
  <2>4. /\ n.kind = "drop" /\ n.pc = "demolish" /\ n.project = op.project /\ n.branch = op.branch
        /\ n.keys = op.keys /\ n.todo = live
    BY <1>1, <1>2, <2>3 DEF Op
  <2>5. Shape(n)
    BY <1>1, <1>2, <1>5, <2>4 DEF Shape, Place
  <2>6. line' = [line EXCEPT ![i] = n]
    BY <2>1, <2>3
  <2>7. ~IsNew(n) /\ n.pc # "queued" /\ n.pc \notin Provisioning
    BY <2>2, <2>4 DEF IsNew
  <2>8. \A o : Besides(i, o) => n.keys \cap o.keys \subseteq op.keys
    BY <2>4
  <2>9. \A o : Besides(i, o) /\ IsNew(o) => o.branch \notin n.keys
    BY <1>2, <2>4, OtherFacts, Zenon
  <2>10. LineInv' /\ \A o : InLine(o)' <=> o = n \/ Besides(i, o)
    BY <1>1, <1>2, <2>4, <2>5, <2>6, <2>7, <2>8, <2>9, StepKeepsLine
  <2>11. Holds(n)
    BY <1>5, <2>4, <2>7 DEF Holds, NewHolds, ClaimHolds, RowHolds
  <2>12. \A o : InLine(o)' <=> o \in {n} \/ Besides(i, o)
    BY <2>10
  <2>13. \A m \in {n} : m \in Op => Holds(m)
    BY <2>11
  <2>14. UNCHANGED <<store, built>>
    BY <1>1, <2>1 DEF store
  <2> QED BY <1>1, <1>2, <2>10, <2>12, <2>13, <2>14, AsideKeepsInv
<1>6. CASE live = {} /\ Drop(i, live)
  <2>1. Leave(i) /\ projects' = projects \ {op.project}
    BY <1>6 DEF Drop
  <2>2. PICK N : N = {}
    OBVIOUS
  <2>3. LineInv' /\ \A o : InLine(o)' <=> o \in N \/ Besides(i, o)
    BY <1>2, <2>1, <2>2, LeaveKeepsLine
  <2>4. RowsInv
    BY DEF BranchesInv
  <2>5. Clean(i)
    BY <1>1, <1>2, <1>6, <2>1, <2>4 DEF Clean, RowsInv, NoOrphans, BranchesOf, Rows, Shape
  <2>6. StoreTyped' /\ (NamesApart => NoStraySecrets')
    BY <1>1, <2>1, <2>4 DEF RowsInv, StoreTyped, NoStraySecrets, Rows
  <2>7. \A n \in N : n \in Op => Holds(n)'
    BY <2>2
  <2> QED BY <1>1, <1>2, <2>3, <2>5, <2>6, <2>7, StepKeepsInv DEF Rows
<1> QED BY <1>1, <1>3, <1>4, <1>5, <1>6

-------------------------------------------------------------------------------
\* Deploying and copying.

LEMMA CopySecretsKeeps ==
    ASSUME BranchesInv, NEW i \in DOMAIN line, CopySecrets(i) PROVE BranchesInv'
<1> DEFINE op == line[i]
<1>1. /\ op.pc = "secrets" /\ secret' = secret \cup Inherited(op)
      /\ line' = [line EXCEPT ![i].pc = "settle", ![i].cloned = TRUE]
      /\ projects' = projects /\ row' = row /\ claim' = claim /\ built' = built
  BY DEF CopySecrets, At
<1>2. /\ op \in Op /\ Shape(op) /\ LineInv /\ op.kind = "create" /\ RowHolds(op)
      /\ op.pc \in Late /\ op.pc \notin Provisioning
  BY <1>1, Worker DEF Late, Provisioning
<1>3. op.branch \in Branch /\ op.branch \in Rows /\ row[op.branch].project = op.project
  BY <1>2 DEF RowHolds, Rows
<1>4. "settle" \in Pcs /\ "settle" \in Late /\ "settle" \notin Provisioning /\ "settle" \notin Early
  BY DEF Pcs, Late, Provisioning, Early
<1>5. PICK n \in Op : n = [op EXCEPT !.pc = "settle", !.cloned = TRUE]
  BY <1>2, <1>4 DEF Op
<1>6. /\ n.kind = "create" /\ n.pc = "settle" /\ n.project = op.project /\ n.branch = op.branch
      /\ n.keys = op.keys /\ n.todo = op.todo /\ n.name = op.name
  BY <1>2, <1>5 DEF Op
<1>7. Shape(n)
  BY <1>2, <1>4, <1>6 DEF Shape, Place
<1>8. line' = [line EXCEPT ![i] = n]
  BY <1>1, <1>5
<1>9. ~IsNew(n) /\ n.pc # "queued" /\ n.pc \notin Provisioning
  BY <1>4, <1>6 DEF IsNew
<1>10. \A o : Besides(i, o) => n.keys \cap o.keys \subseteq op.keys
  BY <1>6
<1>11. \A o : Besides(i, o) /\ IsNew(o) => o.branch \notin n.keys
  BY <1>2, <1>6, OtherFacts, Zenon
<1>12. LineInv' /\ \A o : InLine(o)' <=> o = n \/ Besides(i, o)
  BY <1>1, <1>2, <1>6, <1>7, <1>8, <1>9, <1>10, <1>11, StepKeepsLine
<1>13. RowsInv
  BY DEF BranchesInv
<1>14. Clean(i)
  BY <1>1, <1>13 DEF Clean, RowsInv, NoOrphans, Rows
<1>15. \A s \in secret' : s \in secret \/
          (s.project = op.project /\ s.of = op.branch /\ s.branch = row[op.branch].name
             /\ s \in [project : Project, branch : Name, of : Branch])
  <2> SUFFICES ASSUME NEW s \in Inherited(op)
               PROVE  s.project = op.project /\ s.of = op.branch /\ s.branch = row[op.branch].name
                        /\ s \in [project : Project, branch : Name, of : Branch]
    BY <1>1
  <2>1. PICK t \in SecretsNamed(op.project, {row[op.source].name}) :
            s = [t EXCEPT !.branch = row[op.branch].name, !.of = op.branch]
    BY DEF Inherited
  <2>2. t \in [project : Project, branch : Name, of : Branch] /\ t.project = op.project
    BY <1>13 DEF RowsInv, StoreTyped, SecretsNamed
  <2>3. row[op.branch] \in Row
    BY <1>3, <1>13 DEF RowsInv, StoreTyped, Rows
  <2>4. row[op.branch].name \in Name
    BY <2>3 DEF Row
  <2> QED BY <1>3, <2>1, <2>2, <2>4
<1>16. StoreTyped'
  BY <1>1, <1>13, <1>15 DEF RowsInv, StoreTyped
<1>17. NamesApart => NoStraySecrets'
  BY <1>1, <1>3, <1>13, <1>15 DEF RowsInv, NoStraySecrets, Rows
<1>18. Holds(n)'
  BY <1>1, <1>3, <1>4, <1>6, <1>9 DEF Holds, NewHolds, ClaimHolds, RowHolds, Rows, IsNew
<1>19. \A o : InLine(o)' <=> o \in {n} \/ Besides(i, o)
  BY <1>12
<1>20. \A m \in {n} : m \in Op => Holds(m)'
  BY <1>18
<1> QED BY <1>1, <1>2, <1>12, <1>14, <1>16, <1>17, <1>19, <1>20, StepKeepsInv DEF Rows

LEMMA DeployKeeps ==
    ASSUME BranchesInv, NEW i \in DOMAIN line, Deploy(i) PROVE BranchesInv'
<1> DEFINE op == line[i]
<1>1. /\ op.pc = "deploy" /\ op.pc # "queued" /\ op.pc \notin Provisioning
      /\ projects' = projects /\ claim' = claim /\ secret' = secret /\ built' = built
      /\ row' \in {row, [row EXCEPT ![op.target].app = op.branch]}
      /\ IF op.kind = "create" THEN Goto(i, "secrets") \/ Goto(i, "unwind") ELSE Leave(i)
  BY DEF Deploy, At, Provisioning
<1>2. /\ op \in Op /\ Shape(op) /\ LineInv /\ RowHolds(op) /\ op.kind \in {"create", "deploy"}
      /\ op.pc \in Late /\ RowsInv
  BY <1>1, Worker DEF Late, BranchesInv
<1>3. op.target \in Rows /\ op.target \in Branch /\ op.branch \in Branch
  BY <1>1, <1>2 DEF RowHolds, Rows, Shape
<1>4. row[op.target] \in Row /\ row \in [Branch -> Row \cup {None}]
  BY <1>2, <1>3 DEF RowsInv, StoreTyped, Rows
<1>5. PICK r \in Row : /\ r = [row[op.target] EXCEPT !.app = op.branch]
                       /\ r.project = row[op.target].project /\ r.name = row[op.target].name
                       /\ r.ref = row[op.target].ref /\ r.status = row[op.target].status
  <2>1. PICK x \in Row : x = row[op.target]
    BY <1>4
  <2>2. [x EXCEPT !.app = op.branch] \in Row
    BY <1>3, <2>1 DEF Row
  <2>3. PICK r \in Row : r = [x EXCEPT !.app = op.branch]
    BY <2>2
  <2>4. r.project = x.project /\ r.name = x.name /\ r.ref = x.ref /\ r.status = x.status
    BY <2>1, <2>3 DEF Row
  <2> QED BY <2>1, <2>3, <2>4
<1>6. row' \in {row, [row EXCEPT ![op.target] = r]}
  BY <1>1, <1>5
<1>7. \A b \in Branch :
         /\ row'[b] # None <=> row[b] # None
         /\ row[b] # None =>
               /\ row'[b].project = row[b].project /\ row'[b].name = row[b].name
               /\ row'[b].ref = row[b].ref /\ row'[b].status = row[b].status
  BY <1>3, <1>4, <1>5, <1>6, NoneIsNoRow DEF Rows
<1>8. Clean(i)
  BY <1>1, <1>2, <1>7 DEF Clean, RowsInv, NoOrphans, Rows
<1>9. row' \in [Branch -> Row \cup {None}]
  BY <1>3, <1>4, <1>5, <1>6
<1>10. StoreTyped' /\ (NamesApart => NoStraySecrets')
  BY <1>1, <1>2, <1>7, <1>9 DEF RowsInv, StoreTyped, NoStraySecrets, Rows
<1>11. CASE op.kind = "create"
  <2>1. PICK pc \in {"secrets", "unwind"} : Goto(i, pc)
    BY <1>1, <1>11
  <2>2. /\ pc \in Pcs /\ pc # "queued" /\ Place(op.kind, pc) /\ pc \in Late
        /\ pc \notin Early /\ pc \notin Provisioning /\ pc # "deploy"
    BY <1>11 DEF Pcs, Early, Late, Provisioning, Place
  <2>3. PICK n \in Op : /\ n.pc = pc /\ n.kind = op.kind /\ n.branch = op.branch
                        /\ n.project = op.project
                        /\ LineInv' /\ \A o : InLine(o)' <=> o = n \/ Besides(i, o)
    BY <1>1, <1>2, <2>1, <2>2, GotoKeepsLine
  <2>4. n.branch \in Rows /\ row[n.branch].project = n.project
    BY <1>2, <1>11, <2>3 DEF RowHolds
  <2>6. n.branch \in Rows' /\ row'[n.branch].project = n.project
    BY <1>7, <2>4 DEF Rows
  <2>7. Holds(n)'
    <3>1. NewHolds(n)' /\ ClaimHolds(n)'
      BY <1>11, <2>2, <2>3 DEF NewHolds, ClaimHolds, IsNew
    <3>2. n.pc # "teardown" /\ n.pc # "demolish" /\ n.pc # "deploy"
      BY <2>1, <2>3
    <3>3. RowHolds(n)'
      BY <2>6, <3>2 DEF RowHolds
    <3> QED BY <3>1, <3>3 DEF Holds
  <2>8. \A o : InLine(o)' <=> o \in {n} \/ Besides(i, o)
    BY <2>3
  <2>9. \A m \in {n} : m \in Op => Holds(m)'
    BY <2>7
  <2> QED BY <1>1, <1>7, <1>8, <1>10, <2>3, <2>8, <2>9, StepKeepsInv DEF Rows
<1>12. CASE op.kind # "create"
  <2>1. PICK N : N = {}
    OBVIOUS
  <2>2. LineInv' /\ \A o : InLine(o)' <=> o \in N \/ Besides(i, o)
    BY <1>1, <1>2, <1>12, <2>1, LeaveKeepsLine
  <2>3. \A n \in N : n \in Op => Holds(n)'
    BY <2>1
  <2> QED BY <1>1, <1>7, <1>8, <1>10, <2>2, <2>3, StepKeepsInv DEF Rows
<1> QED BY <1>11, <1>12

-------------------------------------------------------------------------------
\* Taking a branch away.

LEMMA GoneRow ==
    ASSUME BranchesInv, NEW i \in DOMAIN line, NEW b \in Rows, b \in line[i].keys,
           line[i].pc \notin Provisioning,
           \/ row' = [row EXCEPT ![b] = None] /\ built' = [built EXCEPT ![row[b].ref] = None]
           \/ Keep(b) /\ built' = built,
           row'[b] = None => secret' \subseteq secret \ SecretsNamed(row[b].project, {row[b].name}),
           secret' \subseteq secret, claim' = claim, projects' \subseteq projects,
           \A p \in projects : p \notin projects' =>
               p \in line[i].keys /\ \A c \in Branch : row'[c] # None => row[c].project # p
    PROVE  /\ Clean(i) /\ StoreTyped' /\ (NamesApart => NoStraySecrets')
           /\ \A c \in Rows : row'[c] = None => built'[row[c].ref] = None
           /\ \A r \in Stack : built'[r] \in Branch => built'[r] = built[r]
           /\ \A c \in Branch : c # b => row'[c] = row[c]
           /\ row'[b] # None => row'[b].project = row[b].project
<1>1. RowsInv /\ b \in Branch /\ row \in [Branch -> Row \cup {None}] /\ row[b] \in Row
  BY DEF BranchesInv, RowsInv, StoreTyped, Rows
<1>2. row[b].ref \in Stack /\ built \in [Stack -> Branch \cup {None, Debris}] /\ None \notin Branch
  BY <1>1, BranchesAssumption DEF RowsInv, StoreTyped, Row
<1>3. \A c \in Branch : c # b => row'[c] = row[c]
  BY <1>1 DEF Keep
<1>4. row'[b] = None \/
         /\ row'[b] \in Row /\ row'[b].project = row[b].project /\ row'[b].name = row[b].name
         /\ row'[b].ref = row[b].ref /\ row'[b].status = "cleanup-failed" /\ built' = built
  <2>1. CASE row' = [row EXCEPT ![b] = None]
    BY <1>1, <2>1
  <2>2. CASE Keep(b) /\ built' = built
    <3>1. PICK x \in Row : x = row[b]
      BY <1>1
    <3>2. PICK y \in Row : y = [x EXCEPT !.status = "cleanup-failed"]
      BY <3>1 DEF Row
    <3>3. /\ y.project = x.project /\ y.name = x.name /\ y.ref = x.ref
          /\ y.status = "cleanup-failed"
      BY <3>2 DEF Row
    <3>4. row'[b] = y
      BY <1>1, <2>2, <3>1, <3>2 DEF Keep
    <3> QED BY <2>2, <3>1, <3>2, <3>3, <3>4
  <2> QED BY <2>1, <2>2
<1>5. row' \in [Branch -> Row \cup {None}]
  BY <1>1, <1>3, <1>4 DEF Keep
<1>6. row'[b] = None => built' = [built EXCEPT ![row[b].ref] = None]
  <2>1. CASE row' = [row EXCEPT ![b] = None] /\ built' = [built EXCEPT ![row[b].ref] = None]
    BY <2>1
  <2>2. CASE Keep(b)
    <3>1. PICK x \in Row : x = row[b]
      BY <1>1
    <3>2. PICK y \in Row : y = [x EXCEPT !.status = "cleanup-failed"]
      BY <3>1 DEF Row
    <3>3. row'[b] = y
      BY <1>1, <2>2, <3>1, <3>2 DEF Keep
    <3> QED BY <3>2, <3>3, NoneIsNoRow
  <2> QED BY <2>1, <2>2
<1>7. RowsApart /\ NoOrphans
  BY <1>1 DEF RowsInv
<1>8. \A r \in Stack : built'[r] # built[r] => r = row[b].ref /\ built'[r] = None
  BY <1>2
<1>9. built' \in [Stack -> Branch \cup {None, Debris}]
  BY <1>2
<1>10. \A c \in Rows : c # b => built'[row[c].ref] = built[row[c].ref]
  <2> SUFFICES ASSUME NEW c \in Rows, c # b PROVE built'[row[c].ref] = built[row[c].ref]
    OBVIOUS
  <2>1. row[c] \in Row /\ row[c].ref # row[b].ref
    BY <1>1, <1>7 DEF RowsApart, Rows
  <2>2. row[c].ref \in Stack
    BY <2>1 DEF Row
  <2> QED BY <1>8, <2>1, <2>2
<1>11. Clean(i)
  BY <1>3, <1>4, <1>7, <1>8, <1>10 DEF Clean, NoOrphans, Rows
<1>12. StoreTyped'
  BY <1>1, <1>5, <1>9 DEF RowsInv, StoreTyped
<1>13. ASSUME NamesApart PROVE NoStraySecrets'
  <2> SUFFICES ASSUME NEW s \in secret'
               PROVE  s.of \in Rows' /\ row'[s.of].project = s.project /\ row'[s.of].name = s.branch
    BY DEF NoStraySecrets
  <2>1. s \in secret /\ s.of \in Rows /\ row[s.of].project = s.project /\ row[s.of].name = s.branch
    BY <1>1, <1>13 DEF RowsInv, NoStraySecrets
  <2>2. row'[b] = None => s.of # b
    BY <2>1 DEF SecretsNamed
  <2> QED BY <1>3, <1>4, <2>1, <2>2 DEF Rows
<1>14. \A c \in Rows : row'[c] = None => built'[row[c].ref] = None
  BY <1>2, <1>3, <1>6 DEF Rows
<1> QED BY <1>2, <1>3, <1>4, <1>8, <1>11, <1>12, <1>13, <1>14

LEMMA UnwindKeeps ==
    ASSUME BranchesInv, NEW i \in DOMAIN line, Unwind(i) \/ Delete(i) PROVE BranchesInv'
<1> DEFINE b == line[i].branch
<1>1. /\ line[i].pc \in {"unwind", "teardown"} /\ line[i].pc # "queued"
      /\ line[i].pc \notin Provisioning
      /\ projects' = projects /\ claim' = claim /\ Leave(i)
      /\ \/ row' = [row EXCEPT ![b] = None] /\ built' = [built EXCEPT ![row[b].ref] = None]
         \/ Keep(b) /\ built' = built
  BY DEF Unwind, Delete, Teardown, At, Provisioning
<1>2. /\ b \in Rows /\ b \in line[i].keys
  BY <1>1, Worker DEF RowHolds, Shape, Late
<1>3. secret' \subseteq secret
  BY DEF Unwind, Delete, Teardown
<1>4. row[b] \in Row /\ row \in [Branch -> Row \cup {None}] /\ b \in Branch
  BY <1>2 DEF BranchesInv, RowsInv, StoreTyped, Rows
<1>5. Keep(b) => row'[b] # None
  <2> SUFFICES ASSUME Keep(b) PROVE row'[b] # None
    OBVIOUS
  <2>1. PICK x \in Row : x = row[b]
    BY <1>4
  <2>2. PICK y \in Row : y = [x EXCEPT !.status = "cleanup-failed"]
    BY <2>1 DEF Row
  <2>3. row'[b] = y
    BY <1>4, <2>1, <2>2 DEF Keep
  <2> QED BY <2>2, <2>3, NoneIsNoRow
<1>6. row'[b] = None => secret' \subseteq secret \ SecretsNamed(row[b].project, {row[b].name})
  <2>1. CASE Delete(i)
    BY <1>5, <2>1 DEF Delete, Teardown
  <2>2. CASE Unwind(i)
    <3>1. row[b].project = line[i].project
      BY <2>2, Worker DEF Unwind, At, RowHolds, Late
    <3> QED BY <1>5, <2>2, <3>1 DEF Unwind
  <2> QED BY <2>1, <2>2
<1>7. /\ Clean(i) /\ StoreTyped' /\ (NamesApart => NoStraySecrets')
      /\ \A c \in Rows : row'[c] = None => built'[row[c].ref] = None
      /\ \A r \in Stack : built'[r] \in Branch => built'[r] = built[r]
  BY <1>1, <1>2, <1>3, <1>6, GoneRow
<1>8. PICK N : N = {}
  OBVIOUS
<1>9. LineInv' /\ \A o : InLine(o)' <=> o \in N \/ Besides(i, o)
  BY <1>1, <1>8, Worker, LeaveKeepsLine
<1>10. \A n \in N : n \in Op => Holds(n)'
  BY <1>8
<1> QED BY <1>1, <1>7, <1>9, <1>10, StepKeepsInv

LEMMA DemolishKeeps ==
    ASSUME BranchesInv, NEW i \in DOMAIN line, Demolish(i) PROVE BranchesInv'
<1> DEFINE op == line[i]
<1>1. /\ op.pc = "demolish" /\ op.pc # "queued" /\ op.pc \notin Provisioning /\ claim' = claim
  BY DEF Demolish, At, Provisioning
<1>2. PICK b \in op.todo :
         \E ok \in BOOLEAN :
            /\ IF ok THEN Teardown(b) ELSE Keep(b) /\ UNCHANGED <<secret, built>>
            /\ IF op.todo = {b}
               THEN /\ Leave(i)
                    /\ projects' = IF ok /\ ~op.kept THEN projects \ {op.project} ELSE projects
               ELSE /\ line' = [line EXCEPT ![i].todo = @ \ {b}, ![i].kept = @ \/ ~ok]
                    /\ UNCHANGED projects
  BY Zenon DEF Demolish
<1>3. PICK ok \in BOOLEAN :
            /\ IF ok THEN Teardown(b) ELSE Keep(b) /\ UNCHANGED <<secret, built>>
            /\ IF op.todo = {b}
               THEN /\ Leave(i)
                    /\ projects' = IF ok /\ ~op.kept THEN projects \ {op.project} ELSE projects
               ELSE /\ line' = [line EXCEPT ![i].todo = @ \ {b}, ![i].kept = @ \/ ~ok]
                    /\ UNCHANGED projects
  BY <1>2, Zenon
<1>4. /\ op \in Op /\ Shape(op) /\ LineInv /\ op.kind = "drop" /\ op.project \in op.keys
      /\ op.todo \subseteq BranchesOf(op.project) /\ (~op.kept => BranchesOf(op.project) \subseteq op.todo)
  BY <1>1, Worker DEF RowHolds, Shape
<1>5. b \in Rows /\ b \in op.keys /\ row[b].project = op.project /\ b \in Branch
  BY <1>4 DEF Shape, BranchesOf, Rows
<1>6. /\ \/ row' = [row EXCEPT ![b] = None] /\ built' = [built EXCEPT ![row[b].ref] = None]
         \/ Keep(b) /\ built' = built
      /\ secret' \subseteq secret
  BY <1>3 DEF Teardown
<1>7. row[b] \in Row /\ row \in [Branch -> Row \cup {None}]
  BY <1>5 DEF BranchesInv, RowsInv, StoreTyped, Rows
<1>8. ok => row'[b] = None
  BY <1>3, <1>5, <1>7 DEF Teardown
<1>9. ~ok => row'[b] # None
  <2> SUFFICES ASSUME ~ok PROVE row'[b] # None
    OBVIOUS
  <2>1. PICK x \in Row : x = row[b]
    BY <1>7
  <2>2. PICK y \in Row : y = [x EXCEPT !.status = "cleanup-failed"]
    BY <2>1 DEF Row
  <2>3. row'[b] = y
    BY <1>3, <1>5, <1>7, <2>1, <2>2 DEF Keep
  <2> QED BY <2>2, <2>3, NoneIsNoRow
<1>10. row'[b] = None => secret' \subseteq secret \ SecretsNamed(row[b].project, {row[b].name})
  BY <1>3, <1>9 DEF Teardown
<1>11. \A c \in Branch : c # b => row'[c] = row[c]
  BY <1>6, <1>7 DEF Keep
<1>12. /\ projects' \subseteq projects
       /\ \A p \in projects : p \notin projects' =>
            p \in op.keys /\ \A c \in Branch : row'[c] # None => row[c].project # p
  <2> SUFFICES ASSUME op.todo = {b}, ok, ~op.kept, projects' = projects \ {op.project}
               PROVE  \A c \in Branch : row'[c] # None => row[c].project # op.project
    BY <1>3, <1>4
  <2>1. BranchesOf(op.project) \subseteq {b}
    BY <1>4
  <2> QED BY <1>8, <1>11, <2>1 DEF BranchesOf, Rows
<1>13. /\ Clean(i) /\ StoreTyped' /\ (NamesApart => NoStraySecrets')
       /\ \A c \in Rows : row'[c] = None => built'[row[c].ref] = None
       /\ \A r \in Stack : built'[r] \in Branch => built'[r] = built[r]
       /\ row'[b] # None => row'[b].project = row[b].project
  BY <1>1, <1>5, <1>6, <1>10, <1>12, GoneRow
<1>14. CASE op.todo = {b}
  <2>1. PICK N : N = {}
    OBVIOUS
  <2>2. LineInv' /\ \A o : InLine(o)' <=> o \in N \/ Besides(i, o)
    BY <1>3, <1>4, <1>14, <2>1, LeaveKeepsLine
  <2>3. \A n \in N : n \in Op => Holds(n)'
    BY <2>1
  <2> QED BY <1>1, <1>13, <2>2, <2>3, StepKeepsInv
<1>15. CASE op.todo # {b}
  <2>1. line' = [line EXCEPT ![i].todo = @ \ {b}, ![i].kept = @ \/ ~ok]
    BY <1>3, <1>15
  <2>2. PICK n \in Op : n = [op EXCEPT !.todo = @ \ {b}, !.kept = @ \/ ~ok]
    BY <1>4 DEF Op
  <2>3. /\ n.kind = "drop" /\ n.pc = "demolish" /\ n.project = op.project /\ n.branch = op.branch
        /\ n.keys = op.keys /\ n.todo = op.todo \ {b}
    BY <1>1, <1>4, <2>2 DEF Op
  <2>4. ~n.kept => ok /\ ~op.kept
    BY <1>4, <2>2 DEF Op
  <2>5. Shape(n)
    BY <1>4, <2>3 DEF Shape, Place
  <2>6. line' = [line EXCEPT ![i] = n]
    BY <2>1, <2>2
  <2>7. ~IsNew(n) /\ n.pc # "queued" /\ n.pc \notin Provisioning
    BY <1>1, <2>3 DEF IsNew
  <2>8. \A o : Besides(i, o) => n.keys \cap o.keys \subseteq op.keys
    BY <2>3
  <2>9. \A o : Besides(i, o) /\ IsNew(o) => o.branch \notin n.keys
    BY <1>4, <2>3, OtherFacts, Zenon
  <2>10. LineInv' /\ \A o : InLine(o)' <=> o = n \/ Besides(i, o)
    BY <1>1, <1>4, <2>3, <2>5, <2>6, <2>7, <2>8, <2>9, StepKeepsLine
  <2>11. n.todo # {}
    BY <1>15, <2>3
  <2>12. n.todo \subseteq BranchesOf(n.project)'
    BY <1>4, <1>11, <2>3 DEF BranchesOf, Rows
  <2>13. ~n.kept => BranchesOf(n.project)' \subseteq n.todo
    BY <1>4, <1>8, <1>11, <2>3, <2>4 DEF BranchesOf, Rows
  <2>14. Holds(n)'
    BY <2>3, <2>7, <2>11, <2>12, <2>13 DEF Holds, NewHolds, ClaimHolds, RowHolds, IsNew
  <2>15. \A o : InLine(o)' <=> o \in {n} \/ Besides(i, o)
    BY <2>10
  <2>16. \A m \in {n} : m \in Op => Holds(m)'
    BY <2>14
  <2> QED BY <1>1, <1>13, <2>10, <2>15, <2>16, StepKeepsInv
<1> QED BY <1>14, <1>15

-------------------------------------------------------------------------------
\* Provisioning.

LEMMA OneProvisions ==
    ASSUME BranchesInv, NEW i \in DOMAIN line, line[i].pc \in Provisioning
    PROVE  \A r \in Stack :
              /\ claim[r] # None => r = RefOf(line[i]) /\ claim[r] = line[i].branch
              /\ built[r] \in Branch => r = RefOf(line[i]) \/ \E b \in Rows : row[b].ref = r
<1>1. \A b, r : Provisions(b, r) => b = line[i].branch /\ r = RefOf(line[i])
  <2> SUFFICES ASSUME NEW o, InLine(o), o.pc \in Provisioning PROVE o = line[i]
    BY DEF Provisions
  <2>1. ~Besides(i, o)
    BY Worker, OtherFacts
  <2> QED BY <2>1 DEF InLine, Besides
<1> QED BY <1>1 DEF BranchesInv, ClaimsHeld, StacksNamed

LEMMA NoneProvisions ==
    ASSUME BranchesInv, \A j \in DOMAIN line : line[j].pc \notin Provisioning
    PROVE  \A r \in Stack : claim[r] = None /\ (built[r] \in Branch => \E b \in Rows : row[b].ref = r)
<1>1. \A b, r : ~Provisions(b, r)
  BY DEF Provisions, InLine
<1> QED BY <1>1 DEF BranchesInv, ClaimsHeld, StacksNamed

\* A create that has failed before its commit, and the project with it.
LEMMA RefusedKeeps ==
    ASSUME BranchesInv, NEW i \in DOMAIN line, line[i].pc \in {"provision", "network", "rollback"},
           Refused(i), UNCHANGED <<row, secret>>,
           IF line[i].pc = "provision"
           THEN built' = built /\ claim' = claim
           ELSE /\ Release(line[i])
                /\ \/ built' = [built EXCEPT ![RefOf(line[i])] = None]
                   \/ built' = [built EXCEPT ![RefOf(line[i])] = Debris]
                   \/ line[i].pc = "network" /\ built' = built
    PROVE  BranchesInv'
<1> DEFINE op == line[i]
           r == RefOf(line[i])
<1>1. /\ op.pc # "queued" /\ row' = row /\ secret' = secret /\ Leave(i)
      /\ projects' = projects \ (IF op.kind = "project" THEN {op.project} ELSE {})
  BY DEF Refused
<1>2. /\ op \in Op /\ Shape(op) /\ LineInv /\ NewHolds(op) /\ ClaimHolds(op)
      /\ op.kind \in {"project", "create"} /\ RowsInv
  BY Worker DEF Provisioning, BranchesInv
<1>3. r \in Stack /\ built \in [Stack -> Branch \cup {None, Debris}]
      /\ claim \in [Stack -> Branch \cup {None}] /\ None \notin Branch /\ Debris \notin Branch
  BY <1>2, RefIsStack, BranchesAssumption DEF RowsInv, StoreTyped
<1>4. op.pc # "provision" => op.pc \in Provisioning /\ \A b \in Rows : row[b].ref # r
  BY <1>2 DEF ClaimHolds, Provisioning
<1>5. \A q \in Stack : q # r => built'[q] = built[q]
  BY <1>3
<1>6. op.pc # "provision" => built'[r] \notin Branch
  <2>1. op.pc = "network" => built[r] \notin Branch
    BY <1>2 DEF ClaimHolds, Provisioning
  <2> QED BY <1>3, <2>1
<1>7. built' \in [Stack -> Branch \cup {None, Debris}]
  BY <1>3
<1>8. claim' \in [Stack -> Branch \cup {None}]
  BY <1>3 DEF Release
<1>9. op.pc # "provision" => \A q \in Stack : claim'[q] = None
  <2> SUFFICES ASSUME op.pc # "provision", NEW q \in Stack PROVE claim'[q] = None
    OBVIOUS
  <2>1. claim[q] # None => q = r /\ claim[q] = op.branch
    BY <1>4, OneProvisions
  <2> QED BY <1>3, <2>1 DEF Release
<1>10. StoreTyped' /\ (NamesApart => NoStraySecrets')
  BY <1>1, <1>2, <1>7, <1>8 DEF RowsInv, StoreTyped, NoStraySecrets, Rows
<1>11. \A p \in projects : p \notin projects' =>
          p \in op.keys /\ \A b \in Branch : row[b] # None => row[b].project # p
  BY <1>1, <1>2 DEF Shape, NewHolds, BranchesOf, Rows
<1>12. \A b \in Branch : row[b] # None =>
          row[b].project \in projects' /\ built'[row[b].ref] = built[row[b].ref]
  <2> SUFFICES ASSUME NEW b \in Rows
               PROVE  row[b].project \in projects' /\ built'[row[b].ref] = built[row[b].ref]
    BY DEF Rows
  <2>1. row[b].project \in projects /\ row[b] \in Row /\ b \in Branch /\ row[b] # None
    BY <1>2 DEF RowsInv, NoOrphans, StoreTyped, Rows
  <2>2. row[b].ref \in Stack
    BY <2>1 DEF Row
  <2>3. op.pc # "provision" => row[b].ref # r
    BY <1>4
  <2> QED BY <1>5, <1>11, <2>1, <2>2, <2>3
<1>13. Clean(i)
  BY <1>1, <1>4, <1>5, <1>11, <1>12 DEF Clean, Rows
<1>14. PICK N : N = {}
  OBVIOUS
<1>15. LineInv' /\ \A o : InLine(o)' <=> o \in N \/ Besides(i, o)
  BY <1>1, <1>2, <1>14, LeaveKeepsLine
<1>16. \A n \in N : n \in Op => Holds(n)'
  BY <1>14
<1>17. CASE op.pc = "provision"
  <2>1. op.pc \notin Provisioning
    BY <1>17 DEF Provisioning
  <2> QED BY <1>1, <1>10, <1>13, <1>15, <1>16, <1>17, <2>1, StepKeepsInv DEF Rows
<1>18. CASE op.pc # "provision"
  <2>1. ClaimsHeld'
    BY <1>9, <1>18 DEF ClaimsHeld
  <2>2. StacksNamed'
    <3> SUFFICES ASSUME NEW q \in Stack, built'[q] \in Branch PROVE \E b \in Rows' : row'[b].ref = q
      BY DEF StacksNamed
    <3>1. q # r /\ built[q] \in Branch
      BY <1>5, <1>6, <1>18
    <3>2. \E b \in Rows : row[b].ref = q
      BY <1>4, <1>18, <3>1, OneProvisions
    <3> QED BY <1>1, <3>2 DEF Rows
  <2> QED BY <1>1, <1>10, <1>13, <1>15, <1>16, <2>1, <2>2, PhaseKeepsInv
<1> QED BY <1>17, <1>18

\* The claim, when the name and the ref are free.
LEMMA ProvisionKeeps ==
    ASSUME BranchesInv, NEW i \in DOMAIN line, Provision(i) PROVE BranchesInv'
<1> DEFINE op == line[i]
           r == RefOf(line[i])
<1>1. /\ op.pc = "provision" /\ op.pc # "queued" /\ op.pc \notin Provisioning
      /\ \A j \in DOMAIN line : line[j].pc \notin Provisioning
      /\ row' = row /\ secret' = secret /\ built' = built
      /\ \/ /\ Claimable(op)
            /\ claim' = [claim EXCEPT ![r] = op.branch]
            /\ projects' = projects \cup {op.project}
            /\ Goto(i, "network")
         \/ Refused(i) /\ claim' = claim
  BY DEF Provision, At, Provisioning
<1>2. CASE Refused(i) /\ claim' = claim
  BY <1>1, <1>2, RefusedKeeps
<1>3. CASE /\ Claimable(op)
           /\ claim' = [claim EXCEPT ![r] = op.branch]
           /\ projects' = projects \cup {op.project}
           /\ Goto(i, "network")
  <2>1. /\ op \in Op /\ Shape(op) /\ LineInv /\ NewHolds(op) /\ op.kind \in {"project", "create"}
        /\ RowsInv
    BY <1>1, Worker DEF BranchesInv
  <2>2. r \in Stack /\ claim \in [Stack -> Branch \cup {None}] /\ op.branch \in Branch
        /\ op.project \in Project
    BY <2>1, RefIsStack DEF RowsInv, StoreTyped, Shape, Op
  <2>3. /\ "network" \in Pcs /\ "network" \in Early /\ "network" \in Provisioning
        /\ Place(op.kind, "network") /\ op.pc \in Early
    BY <1>1, <2>1 DEF Pcs, Early, Provisioning, Place
  <2>4. PICK n \in Op : /\ n.pc = "network" /\ n.kind = op.kind /\ n.branch = op.branch
                        /\ n.project = op.project /\ n.name = op.name
                        /\ LineInv' /\ \A o : InLine(o)' <=> o = n \/ Besides(i, o)
    BY <1>1, <1>3, <2>1, <2>3, GotoKeepsLine
  <2>5. RefOf(n) = r /\ InLine(n)'
    BY <2>4 DEF RefOf
  <2>6. Clean(i)
    BY <1>1, <1>3, <2>1 DEF Clean, RowsInv, NoOrphans, Rows
  <2>7. StoreTyped' /\ (NamesApart => NoStraySecrets')
    BY <1>1, <1>3, <2>1, <2>2 DEF RowsInv, StoreTyped, NoStraySecrets, Rows
  <2>8. NewHolds(n)'
    BY <1>1, <2>1, <2>3, <2>4 DEF NewHolds, IsNew, BranchesOf, Rows
  <2>9. Named(n.project, n.name) = {} /\ \A b \in Rows : row[b].ref # RefOf(n)
    BY <1>3, <2>4, <2>5 DEF Claimable
  <2>10. built[RefOf(n)] \notin Branch
    BY <1>1, <2>2, <2>5, <2>9, NoneProvisions
  <2>11. ClaimHolds(n)'
    BY <1>1, <1>3, <2>4, <2>9, <2>10 DEF ClaimHolds, Named, BranchesOf, Rows, RefOf
  <2>12. RowHolds(n)'
    BY <2>4 DEF RowHolds, Late
  <2>14. ClaimsHeld'
    <3> SUFFICES ASSUME NEW q \in Stack, claim'[q] # None PROVE Provisions(claim[q], q)'
      BY DEF ClaimsHeld
    <3>1. claim[q] = None
      BY <1>1, NoneProvisions
    <3>2. q = r /\ claim'[q] = op.branch
      BY <1>3, <2>2, <3>1
    <3>3. PICK c : c = claim'[q]
      OBVIOUS
    <3>4. Provisions(c, q)'
      BY <2>3, <2>4, <2>5, <3>2, <3>3 DEF Provisions, RefOf
    <3> QED BY <3>3, <3>4 DEF Provisions
  <2>15. StacksNamed'
    BY <1>1, NoneProvisions DEF StacksNamed, Rows
  <2>16. \A o : InLine(o)' <=> o \in {n} \/ Besides(i, o)
    BY <2>4
  <2>17. \A m \in {n} : m \in Op => Holds(m)'
    BY <2>8, <2>11, <2>12 DEF Holds
  <2> QED BY <1>1, <2>4, <2>6, <2>7, <2>14, <2>15, <2>16, <2>17, PhaseKeepsInv
<1> QED BY <1>1, <1>2, <1>3

LEMMA RollbackKeeps ==
    ASSUME BranchesInv, NEW i \in DOMAIN line, Rollback(i) PROVE BranchesInv'
BY RefusedKeeps DEF Rollback, At

\* The stack of a claim is begun, and is nobody else's.
LEMMA NetworkKeeps ==
    ASSUME BranchesInv, NEW i \in DOMAIN line, Network(i) PROVE BranchesInv'
<1> DEFINE op == line[i]
           r == RefOf(line[i])
<1>1. /\ op.pc = "network" /\ op.pc # "queued" /\ op.pc \in Provisioning
      /\ row' = row /\ secret' = secret
      /\ \/ /\ built' = [built EXCEPT ![r] = op.branch] /\ Goto(i, "stack")
            /\ projects' = projects /\ claim' = claim
         \/ /\ built' = [built EXCEPT ![r] = Debris] \/ built' = built
            /\ Release(op) /\ Refused(i)
  BY DEF Network, At, Provisioning
<1>2. CASE /\ built' = [built EXCEPT ![r] = Debris] \/ built' = built
           /\ Release(op) /\ Refused(i)
  BY <1>1, <1>2, RefusedKeeps
<1>3. CASE /\ built' = [built EXCEPT ![r] = op.branch] /\ Goto(i, "stack")
           /\ projects' = projects /\ claim' = claim
  <2>1. /\ op \in Op /\ Shape(op) /\ LineInv /\ NewHolds(op) /\ ClaimHolds(op) /\ RowsInv
        /\ op.kind \in {"project", "create"}
    BY <1>1, Worker DEF BranchesInv
  <2>2. r \in Stack /\ built \in [Stack -> Branch \cup {None, Debris}] /\ op.branch \in Branch
    BY <2>1, RefIsStack DEF RowsInv, StoreTyped, Shape
  <2>3. /\ "stack" \in Pcs /\ "stack" \in Early /\ "stack" \in Provisioning
        /\ Place(op.kind, "stack") /\ op.pc \in Early
    BY <1>1, <2>1 DEF Pcs, Early, Provisioning, Place
  <2>4. PICK n \in Op : /\ n.pc = "stack" /\ n.kind = op.kind /\ n.branch = op.branch
                        /\ n.project = op.project /\ n.name = op.name
                        /\ LineInv' /\ \A o : InLine(o)' <=> o = n \/ Besides(i, o)
    BY <1>1, <1>3, <2>1, <2>3, GotoKeepsLine
  <2>5. RefOf(n) = r /\ InLine(n)'
    BY <2>4 DEF RefOf
  <2>6. /\ op.project \in projects
        /\ NamesApart => Named(op.project, op.name) = {}
        /\ \A b \in Rows : row[b].ref # r
    BY <1>1, <2>1 DEF ClaimHolds
  <2>7. \A b \in Rows : row[b].ref \in Stack /\ row[b].project \in projects
    <3> SUFFICES ASSUME NEW b \in Rows PROVE row[b].ref \in Stack /\ row[b].project \in projects
      OBVIOUS
    <3>1. row[b] \in Row
      BY <2>1 DEF RowsInv, StoreTyped, Rows
    <3> QED BY <2>1, <3>1 DEF RowsInv, NoOrphans, Row
  <2>8. Clean(i)
    BY <1>1, <1>3, <2>2, <2>6, <2>7 DEF Clean, Rows
  <2>9. StoreTyped' /\ (NamesApart => NoStraySecrets')
    BY <1>1, <1>3, <2>1, <2>2 DEF RowsInv, StoreTyped, NoStraySecrets, Rows
  <2>10. NewHolds(n)'
    BY <1>1, <2>1, <2>3, <2>4 DEF NewHolds, IsNew, BranchesOf, Rows
  <2>11. built'[RefOf(n)] = n.branch
    BY <1>3, <2>2, <2>4, <2>5
  <2>12. ClaimHolds(n)'
    BY <1>1, <1>3, <2>4, <2>5, <2>6, <2>11 DEF ClaimHolds, Named, BranchesOf, Rows, RefOf
  <2>13. RowHolds(n)'
    BY <2>4 DEF RowHolds, Late
  <2>14. \A o : InLine(o)' <=> o \in {n} \/ Besides(i, o)
    BY <2>4
  <2>15. \E m \in {n} : /\ m \in Op /\ m.pc \in Provisioning /\ m.branch = line[i].branch
                        /\ RefOf(m) = RefOf(line[i])
    BY <2>3, <2>4, <2>5
  <2>16. ClaimsHeld'
    <3> SUFFICES ASSUME NEW q \in Stack, claim[q] # None PROVE Provisions(claim[q], q)'
      BY <1>3 DEF ClaimsHeld, Provisions, InLine, RefOf
    <3>1. Provisions(claim[q], q)
      BY DEF BranchesInv, ClaimsHeld
    <3>2. PICK c : c = claim[q]
      OBVIOUS
    <3>3. Provisions(c, q)'
      BY <2>14, <2>15, <3>1, <3>2, ProvisionsStay
    <3> QED BY <1>3, <3>2, <3>3 DEF Provisions
  <2>17. StacksNamed'
    <3> SUFFICES ASSUME NEW q \in Stack, built'[q] \in Branch
                 PROVE  (\E b \in Rows' : row'[b].ref = q) \/ (\E b \in Branch : Provisions(b, q)')
      BY DEF StacksNamed
    <3>1. CASE q = r
      <4>1. Provisions(n.branch, q)'
        BY <2>3, <2>4, <2>5, <3>1 DEF Provisions, RefOf
      <4> QED BY <2>2, <2>4, <4>1
    <3>2. CASE q # r
      <4>1. built[q] \in Branch
        BY <1>3, <2>2, <3>2
      <4>2. \E b \in Rows : row[b].ref = q
        BY <1>1, <3>2, <4>1, OneProvisions
      <4> QED BY <1>1, <4>2 DEF Rows
    <3> QED BY <3>1, <3>2
  <2>18. \A m \in {n} : m \in Op => Holds(m)'
    BY <2>10, <2>12, <2>13 DEF Holds
  <2> QED BY <1>1, <2>4, <2>8, <2>9, <2>14, <2>16, <2>17, <2>18, PhaseKeepsInv
<1> QED BY <1>1, <1>2, <1>3

\* What another operation may still rely on when a branch is committed.
LEMMA OthersHoldAtCommit ==
    ASSUME BranchesInv, NEW i \in DOMAIN line, line[i].pc = "stack",
           row'[line[i].branch].project = line[i].project,
           \A b \in Branch : b # line[i].branch => row'[b] = row[b],
           row'[line[i].branch] # None, projects' = projects, built' = built,
           NEW o, Besides(i, o)
    PROVE  o \in Op /\ Holds(o)'
<1>1. /\ o \in Op /\ Shape(o) /\ InLine(o) /\ LineInv
      /\ NewHolds(o) /\ ClaimHolds(o) /\ RowHolds(o)
  BY OtherFacts DEF BranchesInv, Besides, InLine, Holds
<1>2. /\ line[i].kind \in {"project", "create"} /\ line[i].pc \in Provisioning
      /\ line[i].pc # "queued" /\ IsNew(line[i]) /\ line[i].project \in line[i].keys
      /\ line[i].branch \in Branch /\ line[i].branch \notin Rows
  <2>1. line[i].kind \in {"project", "create"} /\ line[i].pc \in Provisioning
    BY Worker DEF Provisioning
  <2>2. IsNew(line[i])
    BY <2>1 DEF IsNew, Early
  <2> QED BY <2>1, <2>2, Worker DEF Shape, NewHolds
<1>3. /\ o.pc # "queued" => line[i].keys \cap o.keys = {}
      /\ o.pc \notin Provisioning /\ o.branch # line[i].branch
      /\ o.kind = "project" => line[i].project # o.project
  BY <1>1, <1>2, OtherFacts
<1>4. \A b \in Branch : b \in Rows =>
         b \in Rows' /\ row'[b].project = row[b].project
  BY <1>2 DEF Rows
<1>5. \A b \in Branch : b \in Rows' => b = line[i].branch \/ (b \in Rows /\ row'[b] = row[b])
  BY DEF Rows
<1>6. NewHolds(o)'
  <2>1. IsNew(o) => o.branch \notin Rows'
    BY <1>1, <1>3, <1>5 DEF NewHolds, Rows
  <2>2. o.kind = "project" => BranchesOf(o.project)' = {}
    BY <1>1, <1>3, <1>5 DEF NewHolds, BranchesOf, Rows
  <2> QED BY <2>1, <2>2 DEF NewHolds, IsNew
<1>7. ClaimHolds(o)'
  BY <1>3 DEF ClaimHolds
<1>8. RowHolds(o)'
  <2>1. o.kind = "create" /\ o.pc \in Late =>
           o.branch \in Rows' /\ row'[o.branch].project = o.project
    BY <1>1, <1>4 DEF RowHolds, Rows
  <2>2. o.pc = "deploy" => o.target \in Rows' /\ o.target \in o.keys
    BY <1>1, <1>4 DEF RowHolds, Rows
  <2>3. o.pc = "teardown" => o.branch \in Rows'
    BY <1>1, <1>4 DEF RowHolds, Rows
  <2>4. o.pc = "demolish" =>
           /\ o.todo # {} /\ o.todo \subseteq BranchesOf(o.project)'
           /\ ~o.kept => BranchesOf(o.project)' \subseteq o.todo
    <3> SUFFICES ASSUME o.pc = "demolish"
                 PROVE  /\ o.todo # {} /\ o.todo \subseteq BranchesOf(o.project)'
                        /\ ~o.kept => BranchesOf(o.project)' \subseteq o.todo
      OBVIOUS
    <3>1. o.project \in o.keys
      BY <1>1 DEF Shape, Place, Op, Early, Late, Provisioning
    <3>2. line[i].project # o.project
      BY <1>2, <1>3, <3>1
    <3>3. BranchesOf(o.project) \subseteq BranchesOf(o.project)'
      BY <1>4 DEF BranchesOf, Rows
    <3>4. BranchesOf(o.project)' \subseteq BranchesOf(o.project)
      BY <1>5, <3>2 DEF BranchesOf, Rows
    <3> QED BY <1>1, <3>3, <3>4 DEF RowHolds
  <2> QED BY <2>1, <2>2, <2>3, <2>4 DEF RowHolds
<1> QED BY <1>1, <1>6, <1>7, <1>8 DEF Holds

LEMMA CommitKeeps ==
    ASSUME BranchesInv, NEW i \in DOMAIN line, Commit(i) PROVE BranchesInv'
<1> DEFINE op == line[i]
           r == RefOf(line[i])
           new == [project |-> line[i].project, name |-> line[i].name, ref |-> RefOf(line[i]),
                   default |-> line[i].kind = "project", status |-> "ready", app |-> None]
<1>1. /\ op.pc = "stack" /\ op.pc # "queued" /\ op.pc \in Provisioning
      /\ projects' = projects /\ secret' = secret /\ built' = built
      /\ \/ /\ row' = [row EXCEPT ![op.branch] = new]
            /\ Release(op)
            /\ IF op.kind = "project" THEN Leave(i) ELSE Goto(i, "volumes")
         \/ Goto(i, "rollback") /\ row' = row /\ claim' = claim
  BY DEF Commit, At, Provisioning
<1>2. /\ op \in Op /\ Shape(op) /\ LineInv /\ NewHolds(op) /\ ClaimHolds(op) /\ RowsInv
      /\ op.kind \in {"project", "create"}
  BY <1>1, Worker DEF BranchesInv
<1>3. /\ r \in Stack /\ op.branch \in Branch /\ op.project \in Project /\ op.name \in Name
      /\ row \in [Branch -> Row \cup {None}] /\ claim \in [Stack -> Branch \cup {None}]
  BY <1>2, RefIsStack DEF RowsInv, StoreTyped, Shape, Op
<1>4. /\ op.project \in projects
      /\ NamesApart => Named(op.project, op.name) = {}
      /\ \A b \in Rows : row[b].ref # r
      /\ built[r] = op.branch
  BY <1>1, <1>2 DEF ClaimHolds
<1>5. CASE Goto(i, "rollback") /\ row' = row /\ claim' = claim
  <2>1. /\ "rollback" \in Pcs /\ "rollback" \in Early /\ "rollback" \in Provisioning
        /\ Place(op.kind, "rollback") /\ op.pc \in Early
    BY <1>1, <1>2 DEF Pcs, Early, Provisioning, Place
  <2>2. PICK n \in Op : /\ n.pc = "rollback" /\ n.kind = op.kind /\ n.branch = op.branch
                        /\ n.project = op.project /\ n.name = op.name
                        /\ LineInv' /\ \A o : InLine(o)' <=> o = n \/ Besides(i, o)
    BY <1>1, <1>2, <1>5, <2>1, GotoKeepsLine
  <2>3. RefOf(n) = r
    BY <2>2 DEF RefOf
  <2>4. NewHolds(n)
    BY <1>2, <2>1, <2>2 DEF NewHolds, IsNew
  <2>5. ClaimHolds(n)
    BY <1>4, <2>2, <2>3 DEF ClaimHolds
  <2>6. RowHolds(n)
    BY <2>2 DEF RowHolds, Late
  <2>7. \A o : InLine(o)' <=> o \in {n} \/ Besides(i, o)
    BY <2>2
  <2>8. \A m \in {n} : m \in Op => Holds(m)
    BY <2>4, <2>5, <2>6 DEF Holds
  <2>9. \E m \in {n} : /\ m \in Op /\ m.pc \in Provisioning /\ m.branch = line[i].branch
                       /\ RefOf(m) = RefOf(line[i])
    BY <2>1, <2>2, <2>3
  <2>10. UNCHANGED <<store, built>>
    BY <1>1, <1>5 DEF store
  <2> QED BY <1>1, <2>2, <2>7, <2>8, <2>9, <2>10, AsideKeepsInv
<1>6. CASE /\ row' = [row EXCEPT ![op.branch] = new]
           /\ Release(op)
           /\ IF op.kind = "project" THEN Leave(i) ELSE Goto(i, "volumes")
  <2>1. PICK x \in Row : x = new
    <3>1. PICK d \in BOOLEAN : d = (line[i].kind = "project")
      OBVIOUS
    <3>2. new = [project |-> line[i].project, name |-> line[i].name, ref |-> RefOf(line[i]),
                 default |-> d, status |-> "ready", app |-> None]
      BY <3>1
    <3> HIDE DEF new
    <3> QED BY <1>3, <3>2 DEF Row
  <2>2. x.project = op.project /\ x.name = op.name /\ x.ref = r /\ x.status = "ready"
    BY <2>1
  <2>3. /\ row' \in [Branch -> Row \cup {None}] /\ row'[op.branch] = x /\ x # None
        /\ \A b \in Branch : b # op.branch => row'[b] = row[b]
    BY <1>3, <1>6, <2>1, NoneIsNoRow
  <2>4. \A q \in Stack : claim'[q] = None
    <3> SUFFICES ASSUME NEW q \in Stack PROVE claim'[q] = None
      OBVIOUS
    <3>1. claim[q] # None => q = r /\ claim[q] = op.branch
      BY <1>1, OneProvisions
    <3> QED BY <1>3, <1>6, <3>1 DEF Release
  <2>5. op.branch \notin Rows
    BY <1>1, <1>2 DEF NewHolds, IsNew, Early
  <2>6. PICK c : c = op.branch /\ c \in Branch /\ c \notin Rows /\ c \in Rows' /\ row'[c] = x
    BY <1>3, <2>3, <2>5 DEF Rows
  <2>7. \A b \in Rows' : b = c \/ (b \in Rows /\ b # c /\ row'[b] = row[b])
    BY <2>3, <2>6 DEF Rows
  <2>8. \A b \in Rows : b \in Rows' /\ row'[b] = row[b]
    BY <2>3, <2>5 DEF Rows
  <2>9. RowsApart'
    <3> SUFFICES ASSUME NEW b \in Rows', NEW d \in Rows', b # d
                 PROVE  /\ row'[b].ref # row'[d].ref
                        /\ NamesApart /\ row'[b].project = row'[d].project =>
                              row'[b].name # row'[d].name
      BY DEF RowsApart, NamesApart
    <3>1. RowsApart
      BY <1>2 DEF RowsInv
    <3>2. \A e \in Rows : /\ row[e].ref # x.ref
                          /\ NamesApart /\ row[e].project = x.project => row[e].name # x.name
      BY <1>4, <2>2 DEF Named, BranchesOf
    <3>3. CASE b = c
      BY <2>6, <2>7, <3>2, <3>3
    <3>4. CASE d = c
      BY <2>6, <2>7, <3>2, <3>4
    <3>5. CASE b # c /\ d # c
      BY <2>7, <3>1, <3>5 DEF RowsApart
    <3> QED BY <3>3, <3>4, <3>5
  <2>10. StackIsOwn'
    BY <1>1, <1>2, <1>4, <2>2, <2>6, <2>7 DEF RowsInv, StackIsOwn
  <2>11. NoOrphans'
    BY <1>1, <1>2, <1>4, <2>2, <2>6, <2>7 DEF RowsInv, NoOrphans
  <2>12. NamesApart => NoStraySecrets'
    BY <1>1, <1>2, <2>8 DEF RowsInv, NoStraySecrets
  <2>13. StoreTyped'
    BY <1>1, <1>2, <1>3, <1>6, <2>3 DEF RowsInv, StoreTyped, Release
  <2>14. RowsInv'
    BY <2>9, <2>10, <2>11, <2>12, <2>13 DEF RowsInv, NamesApart
  <2>15. ClaimsHeld'
    BY <2>4 DEF ClaimsHeld
  <2>16. StacksNamed'
    <3> SUFFICES ASSUME NEW q \in Stack, built[q] \in Branch PROVE \E b \in Rows' : row'[b].ref = q
      BY <1>1 DEF StacksNamed
    <3>1. q = r \/ \E b \in Rows : row[b].ref = q
      BY <1>1, OneProvisions
    <3> QED BY <2>2, <2>6, <2>8, <3>1
  <2>17. \A o : Besides(i, o) => o \in Op /\ Holds(o)'
    BY <1>1, <2>2, <2>3, OthersHoldAtCommit
  <2>18. CASE op.kind = "project"
    <3>1. LineInv' /\ \A o : InLine(o)' <=> Besides(i, o)
      BY <1>2, <1>6, <2>18, LeaveKeepsLine
    <3> QED BY <2>14, <2>15, <2>16, <2>17, <3>1 DEF BranchesInv
  <2>19. CASE op.kind # "project"
    <3>1. op.kind = "create" /\ Goto(i, "volumes")
      BY <1>2, <1>6, <2>19
    <3>2. /\ "volumes" \in Pcs /\ "volumes" # "queued" /\ "volumes" \notin Early
          /\ "volumes" \notin Provisioning /\ Place(op.kind, "volumes")
      BY <3>1 DEF Pcs, Early, Late, Provisioning, Place
    <3>3. PICK n \in Op : /\ n.pc = "volumes" /\ n.kind = op.kind /\ n.branch = op.branch
                          /\ n.project = op.project
                          /\ LineInv' /\ \A o : InLine(o)' <=> o = n \/ Besides(i, o)
      BY <1>1, <1>2, <3>1, <3>2, GotoKeepsLine
    <3>4. n.branch \in Rows' /\ row'[n.branch].project = n.project
      BY <2>2, <2>6, <3>3
    <3>5. NewHolds(n)' /\ ClaimHolds(n)'
      BY <3>1, <3>2, <3>3 DEF NewHolds, ClaimHolds, IsNew
    <3>6. RowHolds(n)'
      BY <3>3, <3>4 DEF RowHolds
    <3> QED BY <2>14, <2>15, <2>16, <2>17, <3>3, <3>5, <3>6 DEF BranchesInv, Holds
  <2> QED BY <2>18, <2>19
<1> QED BY <1>1, <1>5, <1>6

-------------------------------------------------------------------------------
\* The steps that take no lock, and the crash.

\* Nothing moves in the line, no branch comes or goes and no ref is built on.
LEMMA LineStaysInv ==
    ASSUME BranchesInv, UNCHANGED <<projects, claim, built, line>>,
           \A b \in Branch : /\ row'[b] # None <=> row[b] # None
                             /\ row[b] # None =>
                                   /\ row'[b].project = row[b].project /\ row'[b].ref = row[b].ref
                                   /\ row'[b].status = row[b].status
                                   /\ row'[b].name # row[b].name =>
                                         row'[b].name \in RenameTo /\ Named(row[b].project, row'[b].name) = {}
                                         /\ \A c \in Branch : c # b => row'[c] = row[c],
           StoreTyped', NamesApart => NoStraySecrets'
    PROVE  BranchesInv'
<1>1. LineInv' /\ \A o : InLine(o)' <=> InLine(o)
  BY DEF BranchesInv, LineInv, InLine
<1>2. Rows' = Rows /\ projects' = projects /\ claim' = claim /\ built' = built
  BY DEF Rows
<1>3. \A b \in Rows : /\ row'[b].project = row[b].project /\ row'[b].ref = row[b].ref
                      /\ row'[b].status = row[b].status
  BY DEF Rows
<1>4. \A b, r : Provisions(b, r) <=> Provisions(b, r)'
  BY <1>1 DEF Provisions, RefOf
<1>5. ClaimsHeld' /\ StacksNamed'
  BY <1>2, <1>3, <1>4 DEF BranchesInv, ClaimsHeld, StacksNamed
<1>6. RowsApart'
  <2> SUFFICES ASSUME NEW b \in Rows, NEW c \in Rows, b # c
               PROVE  /\ row'[b].ref # row'[c].ref
                      /\ NamesApart /\ row'[b].project = row'[c].project => row'[b].name # row'[c].name
    BY <1>2 DEF RowsApart, NamesApart
  <2>1. /\ row[b].ref # row[c].ref
        /\ NamesApart /\ row[b].project = row[c].project => row[b].name # row[c].name
    BY DEF BranchesInv, RowsInv, RowsApart
  <2>2. b \in Branch /\ c \in Branch /\ row[b] # None /\ row[c] # None
    BY DEF Rows
  <2>3. CASE row'[b].name # row[b].name
    <3>1. Named(row[b].project, row'[b].name) = {} /\ row'[c] = row[c]
      BY <2>2, <2>3
    <3> QED BY <1>3, <2>1, <3>1 DEF Named, BranchesOf
  <2>4. CASE row'[c].name # row[c].name
    <3>1. Named(row[c].project, row'[c].name) = {} /\ row'[b] = row[b]
      BY <2>2, <2>4
    <3> QED BY <1>3, <2>1, <3>1 DEF Named, BranchesOf
  <2>5. CASE row'[b].name = row[b].name /\ row'[c].name = row[c].name
    BY <1>3, <2>1, <2>5
  <2> QED BY <2>3, <2>4, <2>5
<1>7. RowsInv'
  BY <1>2, <1>3, <1>6 DEF BranchesInv, RowsInv, StackIsOwn, NoOrphans, NamesApart
<1>8. ASSUME NEW o \in Op, InLine(o) PROVE Holds(o)'
  <2>1. NewHolds(o) /\ ClaimHolds(o) /\ RowHolds(o) /\ Shape(o)
    BY <1>8 DEF BranchesInv, Holds, InLine, LineInv
  <2>2. \A p : BranchesOf(p)' = BranchesOf(p)
    BY <1>2, <1>3 DEF BranchesOf
  <2>3. NewHolds(o)'
    BY <1>2, <2>1, <2>2 DEF NewHolds, IsNew
  <2>4. RowHolds(o)'
    BY <1>2, <1>3, <2>1, <2>2 DEF RowHolds
  <2>5. ASSUME NamesApart, o.pc \in Provisioning PROVE Named(o.project, o.name)' = {}
    <3>1. Named(o.project, o.name) = {}
      BY <2>1, <2>5 DEF ClaimHolds
    <3>2. CASE o.kind = "project"
      BY <2>1, <2>2, <3>2 DEF NewHolds, Named
    <3>3. CASE o.kind = "create"
      <4>1. o.name \notin RenameTo
        <5>1. <<o.project, o.name>> \in CreateAs
          BY <2>1, <3>3 DEF Shape
        <5>2. <<o.project, o.name>>[2] \notin RenameTo
          BY <2>5, <5>1 DEF NamesApart
        <5> QED BY <5>2
      <4>2. ASSUME NEW b \in Rows, row[b].project = o.project PROVE row'[b].name # o.name
        <5>1. row[b].name # o.name
          BY <3>1, <4>2 DEF Named, BranchesOf
        <5>2. row'[b].name # row[b].name => row'[b].name \in RenameTo
          BY DEF Rows
        <5> QED BY <4>1, <5>1, <5>2
      <4> QED BY <1>2, <1>3, <4>2 DEF Named, BranchesOf
    <3>4. o.kind \in {"project", "create"}
      BY <2>1, <2>5 DEF Shape, Place, Op, Provisioning, Early, Late
    <3> QED BY <3>2, <3>3, <3>4
  <2>6. ClaimHolds(o)'
    BY <1>2, <1>3, <2>1, <2>5 DEF ClaimHolds, RefOf, NamesApart
  <2> QED BY <2>3, <2>4, <2>6 DEF Holds
<1> QED BY <1>1, <1>5, <1>7, <1>8 DEF BranchesInv

LEMMA RenameKeeps ==
    ASSUME BranchesInv, NEW b \in Branch, NEW n \in RenameTo, Rename(b, n) PROVE BranchesInv'
<1>1. /\ b \in Rows /\ Named(row[b].project, n) = {}
      /\ row' = [row EXCEPT ![b].name = n]
      /\ secret' = {IF s.project = row[b].project /\ s.branch = row[b].name
                    THEN [s EXCEPT !.branch = n] ELSE s : s \in secret}
      /\ UNCHANGED <<projects, claim, built, line>>
  BY DEF Rename
<1>2. RowsInv /\ row \in [Branch -> Row \cup {None}] /\ n \in Name /\ row[b] # None
  BY <1>1, BranchesAssumption DEF BranchesInv, RowsInv, StoreTyped, Rows
<1>3. PICK x \in Row : x = row[b]
  BY <1>2
<1>4. PICK y \in Row : y = [x EXCEPT !.name = n]
  BY <1>2, <1>3 DEF Row
<1>5. /\ y.project = x.project /\ y.name = n /\ y.ref = x.ref /\ y.status = x.status
  BY <1>4 DEF Row
<1>6. row' = [row EXCEPT ![b] = y]
  BY <1>1, <1>3, <1>4
<1>7. row' \in [Branch -> Row \cup {None}] /\ row'[b] = y /\ y # None
      /\ \A c \in Branch : c # b => row'[c] = row[c]
  BY <1>2, <1>6, NoneIsNoRow
<1>8. \A s \in secret' : \E t \in secret :
         IF t.project = row[b].project /\ t.branch = row[b].name
         THEN s.project = t.project /\ s.of = t.of /\ s.branch = n
              /\ s \in [project : Project, branch : Name, of : Branch]
         ELSE s = t
  <2> SUFFICES ASSUME NEW t \in secret, t.project = row[b].project, t.branch = row[b].name
               PROVE  /\ [t EXCEPT !.branch = n].project = t.project
                      /\ [t EXCEPT !.branch = n].of = t.of
                      /\ [t EXCEPT !.branch = n].branch = n
                      /\ [t EXCEPT !.branch = n] \in [project : Project, branch : Name, of : Branch]
    BY <1>1
  <2>1. t \in [project : Project, branch : Name, of : Branch]
    BY <1>2 DEF RowsInv, StoreTyped
  <2> QED BY <1>2, <2>1
<1>9. StoreTyped'
  BY <1>1, <1>2, <1>7, <1>8 DEF RowsInv, StoreTyped
<1>10. ASSUME NamesApart PROVE NoStraySecrets'
  <2> SUFFICES ASSUME NEW s \in secret'
               PROVE  s.of \in Rows' /\ row'[s.of].project = s.project /\ row'[s.of].name = s.branch
    BY DEF NoStraySecrets
  <2>1. PICK t \in secret :
         IF t.project = row[b].project /\ t.branch = row[b].name
         THEN s.project = t.project /\ s.of = t.of /\ s.branch = n
         ELSE s = t
    BY <1>8
  <2>2. t.of \in Rows /\ row[t.of].project = t.project /\ row[t.of].name = t.branch
    BY <1>2, <1>10 DEF RowsInv, NoStraySecrets
  <2>3. t.project = row[b].project /\ t.branch = row[b].name <=> t.of = b
    BY <1>1, <1>2, <1>10, <2>2 DEF RowsInv, RowsApart
  <2>4. t.of \in Branch /\ row[t.of] # None
    BY <2>2 DEF Rows
  <2>5. CASE t.of = b
    BY <1>3, <1>5, <1>7, <2>1, <2>2, <2>3, <2>5 DEF Rows
  <2>6. CASE t.of # b
    BY <1>7, <2>1, <2>2, <2>3, <2>4, <2>6 DEF Rows
  <2> QED BY <2>5, <2>6
<1>11. \A c \in Branch : /\ row'[c] # None <=> row[c] # None
                         /\ row[c] # None =>
                               /\ row'[c].project = row[c].project /\ row'[c].ref = row[c].ref
                               /\ row'[c].status = row[c].status
                               /\ row'[c].name # row[c].name =>
                                     row'[c].name \in RenameTo /\ Named(row[c].project, row'[c].name) = {}
                                     /\ \A d \in Branch : d # c => row'[d] = row[d]
  BY <1>1, <1>2, <1>3, <1>5, <1>7
<1> QED BY <1>1, <1>9, <1>10, <1>11, LineStaysInv

LEMMA SetSecretKeeps ==
    ASSUME BranchesInv, NEW b \in Branch, SetSecret(b) PROVE BranchesInv'
<1> DEFINE given == [project |-> row[b].project, branch |-> row[b].name, of |-> b]
<1>1. /\ b \in Rows /\ secret' = secret \cup {given} /\ row' = row
      /\ UNCHANGED <<projects, claim, built, line>>
  BY DEF SetSecret
<1>2. RowsInv /\ row[b] \in Row
  BY <1>1 DEF BranchesInv, RowsInv, StoreTyped, Rows
<1>3. given \in [project : Project, branch : Name, of : Branch]
  BY <1>2 DEF Row
<1>4. given.of = b /\ given.project = row[b].project /\ given.branch = row[b].name
  OBVIOUS
<1> HIDE DEF given
<1>5. StoreTyped' /\ (NamesApart => NoStraySecrets')
  BY <1>1, <1>2, <1>3, <1>4 DEF RowsInv, StoreTyped, NoStraySecrets, Rows
<1> QED BY <1>1, <1>5, LineStaysInv

LEMMA CrashKeeps == ASSUME BranchesInv, Crash PROVE BranchesInv'
<1>1. /\ line' = <<>> /\ claim' = Reclaimed
      /\ built' = [r \in Stack |->
                      IF built[r] = None \/ \E b \in Rows : row[b].ref = r THEN built[r] ELSE Debris]
      /\ projects' = projects /\ row' = row /\ secret' = secret
  BY DEF Crash
<1>2. RowsInv /\ None \notin Branch /\ Debris \notin Branch /\ MaxOps \in Nat
  BY BranchesAssumption DEF BranchesInv
<1>3. LineInv' /\ \A o : ~InLine(o)'
  BY <1>1, <1>2 DEF LineInv, InLine
<1>4. \A r \in Stack : claim'[r] = None
  <2> SUFFICES ASSUME NEW r \in Stack, claim[r] # None PROVE claim[r] \notin Rows
    BY <1>1 DEF Reclaimed
  <2>1. PICK o \in Op : InLine(o) /\ o.pc \in Provisioning /\ o.branch = claim[r]
    BY DEF BranchesInv, ClaimsHeld, Provisions
  <2>2. PICK i \in DOMAIN line : line[i] = o
    BY <2>1 DEF InLine
  <2>3. NewHolds(o) /\ o.kind \in {"project", "create"}
    BY <2>1, <2>2, Worker
  <2> QED BY <2>1, <2>3 DEF NewHolds, IsNew, Early
<1>5. StoreTyped'
  BY <1>1, <1>2, <1>4 DEF RowsInv, StoreTyped, Reclaimed
<1>6. StackIsOwn'
  <2> SUFFICES ASSUME NEW b \in Rows, row[b].status = "ready" PROVE built'[row[b].ref] = b
    BY <1>1 DEF StackIsOwn, Rows
  <2>1. row[b] \in Row /\ built[row[b].ref] = b
    BY <1>2 DEF RowsInv, StoreTyped, StackIsOwn, Rows
  <2>2. row[b].ref \in Stack
    BY <2>1 DEF Row
  <2> QED BY <1>1, <2>1, <2>2
<1>7. RowsApart' /\ NoOrphans' /\ (NamesApart => NoStraySecrets')
  BY <1>1, <1>2 DEF RowsInv, RowsApart, NoOrphans, NoStraySecrets, Rows, NamesApart
<1>8. ClaimsHeld'
  BY <1>4 DEF ClaimsHeld
<1>9. StacksNamed'
  BY <1>1, <1>2 DEF StacksNamed, Rows
<1> QED BY <1>3, <1>5, <1>6, <1>7, <1>8, <1>9 DEF BranchesInv, RowsInv, NamesApart

-------------------------------------------------------------------------------
\* The invariant.

LEMMA BranchesInit == Init => BranchesInv
<1> SUFFICES ASSUME Init PROVE BranchesInv
  OBVIOUS
<1>1. /\ projects = {} /\ Rows = {} /\ secret = {} /\ line = <<>>
      /\ row = [b \in Branch |-> None] /\ claim = [r \in Stack |-> None]
      /\ built = [r \in Stack |-> None]
  BY DEF Init, Rows
<1>2. None \notin Branch /\ MaxOps \in Nat
  BY BranchesAssumption
<1>3. LineInv /\ \A o : ~InLine(o)
  BY <1>1, <1>2 DEF LineInv, InLine
<1>4. RowsInv
  BY <1>1 DEF RowsInv, StoreTyped, RowsApart, StackIsOwn, NoOrphans, NoStraySecrets
<1>5. ClaimsHeld /\ StacksNamed
  BY <1>1, <1>2 DEF ClaimsHeld, StacksNamed
<1> QED BY <1>3, <1>4, <1>5 DEF BranchesInv

LEMMA WorkKeeps == ASSUME BranchesInv, NEW i \in DOMAIN line, Work(i) PROVE BranchesInv'
<1>1. CASE StartCreate(i) \/ StartProject(i)
  BY <1>1, StartCreateKeeps
<1>2. CASE Provision(i)
  BY <1>2, ProvisionKeeps
<1>3. CASE Network(i)
  BY <1>3, NetworkKeeps
<1>4. CASE Commit(i)
  BY <1>4, CommitKeeps
<1>5. CASE Rollback(i)
  BY <1>5, RollbackKeeps
<1>6. CASE Volumes(i)
  BY <1>6, VolumesKeeps
<1>7. CASE Redeploy(i)
  BY <1>7, RedeployKeeps
<1>8. CASE CopySecrets(i)
  BY <1>8, CopySecretsKeeps
<1>9. CASE Settle(i)
  BY <1>9, SettleKeeps
<1>10. CASE Unwind(i) \/ Delete(i)
  BY <1>10, UnwindKeeps
<1>11. CASE StartDeploy(i) \/ StartDelete(i)
  BY <1>11, StartDeployKeeps
<1>12. CASE Deploy(i)
  BY <1>12, DeployKeeps
<1>13. CASE StartDrop(i)
  BY <1>13, StartDropKeeps
<1>14. CASE Demolish(i)
  BY <1>14, DemolishKeeps
<1> QED BY <1>1, <1>2, <1>3, <1>4, <1>5, <1>6, <1>7, <1>8, <1>9, <1>10, <1>11, <1>12, <1>13,
           <1>14 DEF Work

LEMMA BranchesStep == BranchesInv /\ [Next]_vars => BranchesInv'
<1> SUFFICES ASSUME BranchesInv, [Next]_vars PROVE BranchesInv'
  OBVIOUS
<1>1. CASE Call
  BY <1>1, AskDropKeeps, AskProjectKeeps, AskCreateKeeps, AskBranchKeeps, SetSecretKeeps,
     RenameKeeps DEF Call
<1>2. CASE \E i \in DOMAIN line : Work(i)
  BY <1>2, WorkKeeps
<1>3. CASE Crash
  BY <1>3, CrashKeeps
<1>4. CASE UNCHANGED vars
  <2>1. UNCHANGED <<projects, claim, built, line>> /\ row' = row /\ secret' = secret
    BY <1>4 DEF vars, store
  <2>2. StoreTyped' /\ (NamesApart => NoStraySecrets')
    BY <2>1 DEF BranchesInv, RowsInv, StoreTyped, NoStraySecrets, Rows
  <2> QED BY <2>1, <2>2, LineStaysInv
<1> QED BY <1>1, <1>2, <1>3, <1>4 DEF Next

LEMMA BranchesAlways == Spec => []BranchesInv
BY BranchesInit, BranchesStep, PTL DEF Spec

\* The state and the operations in flight are of their types.
THEOREM BranchesTyped == Spec => []TypeOK
<1>1. ASSUME BranchesInv PROVE TypeOK
  <2>1. StoreTyped /\ Len(line) <= MaxOps /\ \A i \in DOMAIN line : line[i] \in Op
    BY <1>1 DEF BranchesInv, RowsInv, LineInv
  <2> QED BY <2>1 DEF TypeOK, StoreTyped, Op
<1> QED BY <1>1, BranchesAlways, PTL

\* However refs collide and whatever branches are renamed to, every branch that is ready has
\* its own stack (reserveBranchRef), and no stack, claim or row outlives what it can be
\* deleted by.
THEOREM StacksTheorem == Spec => [](StackIsOwn /\ StacksAreNamed /\ ClaimsAreLive /\ NoOrphans)
<1>1. ASSUME BranchesInv PROVE StackIsOwn /\ StacksAreNamed /\ ClaimsAreLive /\ NoOrphans
  <2>1. StackIsOwn /\ NoOrphans /\ ClaimsHeld /\ StacksNamed
    BY <1>1 DEF BranchesInv, RowsInv
  <2>2. ASSUME NEW b, NEW r, Provisions(b, r)
        PROVE  \E i \in DOMAIN line :
                  line[i].pc \in Provisioning /\ line[i].branch = b /\ RefOf(line[i]) = r
    BY <2>2 DEF Provisions, InLine
  <2>3. ClaimsAreLive
    BY <2>1, <2>2 DEF ClaimsHeld, ClaimsAreLive
  <2>4. StacksAreNamed
    BY <2>1, <2>2 DEF StacksNamed, StacksAreNamed
  <2> QED BY <2>1, <2>3, <2>4
<1> QED BY <1>1, BranchesAlways, PTL

\* Where no branch is renamed to a name that branches are created under, no secret is left
\* under the name of another branch either (renameBranch, copySecrets, unwindBranch).
THEOREM HoldTheorem == ASSUME NamesApart PROVE Spec => []StacksHold
<1>1. ASSUME BranchesInv PROVE NoStraySecrets
  BY <1>1 DEF BranchesInv, RowsInv
<1>2. StackIsOwn /\ StacksAreNamed /\ ClaimsAreLive /\ NoOrphans /\ NoStraySecrets => StacksHold
  BY DEF StacksHold, NothingAbandoned
<1> QED BY <1>1, <1>2, BranchesAlways, StacksTheorem, PTL

\* A branch goes in a step of the one operation that is at work on it, whatever is created,
\* renamed and deleted meanwhile (withLock, deleteProject).
THEOREM DemolishTheorem == Spec => DemolishesAlone
<1>1. ASSUME BranchesInv, NEW b \in Rows PROVE Cardinality(AtWorkOn(b)) <= 1
  <2>1. LineInv /\ line \in Seq(Op) /\ DOMAIN line = 1 .. Len(line) /\ Len(line) \in Nat
    BY <1>1 DEF BranchesInv, LineInv
  <2>2. ASSUME NEW i \in AtWorkOn(b), NEW j \in AtWorkOn(b), i < j PROVE FALSE
    <3>1. /\ i \in DOMAIN line /\ j \in DOMAIN line /\ line[j].pc # "queued"
          /\ b \in line[i].keys \cup line[i].todo /\ b \in line[j].keys \cup line[j].todo
      BY DEF AtWorkOn
    <3>2. Shape(line[i]) /\ Shape(line[j]) /\ Ordered(line[i], line[j])
      BY <2>1, <2>2, <3>1 DEF LineInv
    <3> QED BY <3>1, <3>2 DEF Shape, Ordered
  <2>3. \A i, j \in AtWorkOn(b) : i = j
    <3> SUFFICES ASSUME NEW i \in AtWorkOn(b), NEW j \in AtWorkOn(b) PROVE i = j
      OBVIOUS
    <3>1. i \in Nat /\ j \in Nat
      BY <2>1 DEF AtWorkOn
    <3> QED BY <2>2, <3>1
  <2>4. CASE AtWorkOn(b) = {}
    BY <2>4, FS_EmptySet
  <2>5. CASE AtWorkOn(b) # {}
    <3>1. PICK i : AtWorkOn(b) = {i}
      BY <2>3, <2>5
    <3> QED BY <3>1, FS_Singleton
  <2> QED BY <2>4, <2>5
<1>2. BranchesInv => [\A b \in Rows : row'[b] = None => Cardinality(AtWorkOn(b)) <= 1]_vars
  BY <1>1
<1> QED BY <1>2, BranchesAlways, PTL DEF DemolishesAlone, Spec
===============================================================================
