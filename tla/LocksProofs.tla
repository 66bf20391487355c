----------------------------- MODULE LocksProofs -----------------------------
(***************************************************************************)
(* Proofs about the two locks, about who is let in, and about the names a  *)
(* container is given.  The operation lock (OpLock), for every finite set  *)
(* of calls, every set of keys and every nesting of the calls: type        *)
(* correctness, mutual exclusion, the accuracy of the counters, that a     *)
(* tryWithOp never queues behind anybody, that whoever goes ahead with a   *)
(* key of the functions around it may, and that OpLock implements KeyLock. *)
(* The lock of the data directory (DirLock), for any processes, any times  *)
(* and any stalls, one process booting at a time: one steady holder, and   *)
(* what a boot is refused by.  Sessions and tokens (Access), for any       *)
(* people, rows and instants: what was ended stays out, and what is in use *)
(* lasts its whole lifetime.  Sign-ins (SignIns), for any addresses and    *)
(* any limits: who is turned away.  Secrets and bindings (Secrets), for    *)
(* any names and any number of rows: what containers get is what is shown, *)
(* and nobody reads what was set for another.                              *)
(***************************************************************************)
EXTENDS OpLock, DirLock, SignIns, Secrets, FiniteSetTheorems, WellFoundedInduction,
        NaturalsInduction, TLAPS

-------------------------------------------------------------------------------
\* The operation lock: what holds of it.

\* Who has keys has a place in the order, and no two of them have the same place.
Places ==
    /\ \A c \in Call : need[c] # {} => Called(c) /\ ticket[c] < clock
    /\ \A c, d \in Call : c # d /\ need[c] # {} /\ need[d] # {} => ticket[c] # ticket[d]

\* The tail of a key's chain is the last live user of the key.
TailIsLast ==
    \A k \in Key :
        /\ tail[k] # NoCall => Live(tail[k]) /\ k \in need[tail[k]]
        /\ \A d \in Call : Live(d) /\ k \in need[d] =>
              tail[k] # NoCall /\ ticket[d] <= ticket[tail[k]]

\* The chain a queued call found covers every earlier live user of the key.
WaitsCover ==
    \A c, d \in Call : \A k \in need[c] \cap need[d] :
        status[c] = "queued" /\ Live(d) /\ ticket[d] < ticket[c] =>
            /\ waits[c][k] # NoCall
            /\ k \in need[waits[c][k]]
            /\ ticket[d] <= ticket[waits[c][k]]

\* A call that has been granted a key has nobody live before it on that key.
InOrder ==
    \A c, d \in Call :
        status[c] \in {"running", "done"} /\ Live(d) /\ ticket[d] < ticket[c]
            => need[c] \cap need[d] = {}

Counted == \A k \in Key : count[k] = Cardinality(Users(k))

IInv == TypeOK /\ Places /\ TailIsLast /\ WaitsCover /\ InOrder /\ Counted /\ TryNeverWaits

-----------------------------------------------------------------------------
\* The users of a key are finitely many.
LEMMA UsersFinite == \A k \in Key : IsFiniteSet(Users(k))
  BY CallAssumption, FS_Subset DEF Users

\* A key has users exactly when its counter is not zero.
LEMMA ZeroMeansUnused ==
    ASSUME TypeOK, Counted, NEW k \in Key
    PROVE  count[k] = 0 <=> Users(k) = {}
  BY UsersFinite, FS_EmptySet DEF Counted

\* A nested or outermost call only ever acquires known keys.
LEMMA NewKeys ==
    ASSUME TypeOK, NEW p \in Contexts, NEW K \in SUBSET Key
    PROVE  K \ Inherited(p) \in SUBSET Key /\ Inherited(p) \in SUBSET Key
           /\ p \in Call \cup {NoCall}
  BY DEF TypeOK, Contexts, Inherited

\* The two outcomes of a call, whichever of the two functions it calls, besides refusal.
LEMMA CallCases ==
    ASSUME TypeOK, NEW c \in Call, NEW p \in Call \cup {NoCall},
           NEW K \in (SUBSET Key) \ {{}}, WithOp(c, p, K) \/ TryWithOp(c, p, K)
    PROVE  /\ status[c] = "idle"
           /\ p \in Contexts
           /\ \/ Reenter(c, p)
              \/ \E new \in SUBSET Key :
                    new # {} /\ Enqueue(c, p, new) /\ (c \in Try => Free(new))
              \/ /\ status' = [status EXCEPT ![c] = "refused"]
                 /\ UNCHANGED <<parent, owned, need, waits, tail, count, ticket, clock>>
<1>1. status[c] = "idle" /\ p \in Contexts
  BY DEF WithOp, TryWithOp, MayCall
<1>2. K \ Inherited(p) \in SUBSET Key
  BY <1>1, NewKeys
<1>3. CASE WithOp(c, p, K)
  BY <1>1, <1>2, <1>3 DEF WithOp
<1>4. CASE TryWithOp(c, p, K)
  BY <1>1, <1>2, <1>4 DEF TryWithOp
<1> QED
  BY <1>3, <1>4

-----------------------------------------------------------------------------
\* Taking a place in the chains of new keys preserves the invariant.
LEMMA EnqueueStep ==
    ASSUME IInv, NEW c \in Call, NEW p \in Contexts, NEW K \in SUBSET Key,
           status[c] = "idle", K # {}, c \in Try => Free(K), Enqueue(c, p, K)
    PROVE  IInv'
<1> USE DEF IInv
<1>0. Inherited(p) \in SUBSET Key /\ p \in Call \cup {NoCall}
  BY NewKeys
<1>1. TypeOK'
  BY <1>0 DEF Enqueue, TypeOK, Status
<1>2. /\ need' = [need EXCEPT ![c] = K]
      /\ status' = [status EXCEPT ![c] = "queued"]
      /\ ticket' = [ticket EXCEPT ![c] = clock]
      /\ clock' = clock + 1
      /\ need[c] = {}
      /\ \A d \in Call : d # c => (Live(d)' <=> Live(d))
      /\ Live(c)' /\ ~Live(c)
  BY DEF Enqueue, TypeOK, Places, Called, Live
<1>3. Places'
  BY <1>2 DEF Places, TypeOK, Called
<1>4. TailIsLast'
  <2> SUFFICES ASSUME NEW k \in Key
               PROVE  (/\ tail[k] # NoCall => Live(tail[k]) /\ k \in need[tail[k]]
                       /\ \A d \in Call : Live(d) /\ k \in need[d] =>
                             tail[k] # NoCall /\ ticket[d] <= ticket[tail[k]])'
    BY DEF TailIsLast
  <2>1. tail'[k] = IF k \in K THEN c ELSE tail[k]
    BY DEF Enqueue
  <2>2. CASE k \in K
    BY <1>2, <2>1, <2>2, CallAssumption DEF Places, TypeOK, Called, Live
  <2>3. CASE k \notin K
    <3>1. tail[k] # c
      BY <1>2, CallAssumption DEF TailIsLast
    <3>2. tail[k] # NoCall => tail[k] \in Call
      BY DEF TypeOK
    <3> QED
      BY <1>2, <2>1, <2>3, <3>1, <3>2 DEF TailIsLast, TypeOK
  <2> QED
    BY <2>2, <2>3
<1>5. WaitsCover'
  <2> SUFFICES ASSUME NEW a \in Call, NEW d \in Call, NEW k \in need'[a] \cap need'[d],
                      status'[a] = "queued", Live(d)', ticket'[d] < ticket'[a]
               PROVE  /\ waits'[a][k] # NoCall
                      /\ k \in need'[waits'[a][k]]
                      /\ ticket'[d] <= ticket'[waits'[a][k]]
    BY DEF WaitsCover, Live
  <2>0. k \in Key
    BY <1>1 DEF TypeOK
  <2>1. CASE a = c
    <3>1. d # c /\ Live(d) /\ k \in need[d] /\ ticket'[d] = ticket[d]
      BY <1>1, <1>2, <2>1 DEF TypeOK
    <3>2. waits'[c][k] = tail[k] /\ tail[k] # NoCall /\ tail[k] # c
      BY <1>2, <2>0, <2>1, <3>1 DEF Enqueue, TypeOK, TailIsLast
    <3>3. k \in need[tail[k]] /\ ticket[d] <= ticket[tail[k]] /\ tail[k] \in Call
      BY <2>0, <3>1, <3>2 DEF TailIsLast, TypeOK
    <3> QED
      BY <1>2, <2>1, <3>1, <3>2, <3>3 DEF TypeOK
  <2>2. CASE a # c
    <3>1. d # c
      BY <1>2, <2>2 DEF Places, TypeOK
    <3>2. /\ waits'[a][k] = waits[a][k] /\ waits[a][k] # NoCall
          /\ k \in need[waits[a][k]] /\ ticket[d] <= ticket[waits[a][k]]
      BY <1>2, <2>2, <3>1 DEF Enqueue, TypeOK, WaitsCover
    <3>3. waits[a][k] # c /\ waits[a][k] \in Call
      BY <1>2, <2>0, <3>2 DEF TypeOK
    <3> QED
      BY <1>2, <3>1, <3>2, <3>3 DEF TypeOK
  <2> QED
    BY <2>1, <2>2
<1>6. InOrder'
  <2> SUFFICES ASSUME NEW a \in Call, NEW d \in Call, status'[a] \in {"running", "done"},
                      Live(d)', ticket'[d] < ticket'[a]
               PROVE  need'[a] \cap need'[d] = {}
    BY DEF InOrder, Live
  <2>1. a # c /\ status[a] = status'[a] /\ need'[a] = need[a] /\ ticket'[a] = ticket[a]
    BY <1>2 DEF TypeOK
  <2>2. CASE d = c
    BY <1>2, <2>1, <2>2 DEF Places, TypeOK
  <2>3. CASE d # c
    BY <1>2, <2>1, <2>3 DEF InOrder, TypeOK
  <2> QED
    BY <2>2, <2>3
<1>7. Counted'
  <2> SUFFICES ASSUME NEW k \in Key PROVE count'[k] = Cardinality(Users(k)')
    BY DEF Counted
  <2>1. CASE k \in K
    <3>1. Users(k)' = Users(k) \cup {c} /\ c \notin Users(k)
      BY <1>2, <2>1 DEF Users, TypeOK
    <3>2. Cardinality(Users(k)') = Cardinality(Users(k)) + 1
      BY <3>1, UsersFinite, FS_AddElement
    <3> QED
      BY <2>1, <3>2 DEF Enqueue, Counted
  <2>2. CASE k \notin K
    <3>1. Users(k)' = Users(k)
      BY <1>2, <2>2 DEF Users, TypeOK
    <3> QED
      BY <2>2, <3>1 DEF Enqueue, Counted
  <2> QED
    BY <2>1, <2>2
<1>8. TryNeverWaits'
  <2> SUFFICES ASSUME NEW a \in Try, NEW d \in Call,
                      status'[a] = "queued", Live(d)', ticket'[d] < ticket'[a]
               PROVE  need'[d] \cap need'[a] = {}
    BY DEF TryNeverWaits, Live
  <2>0. a \in Call
    BY CallAssumption
  <2>1. CASE a = c
    <3>1. \A k \in K : d \notin Users(k)
      BY <2>1, ZeroMeansUnused DEF Free
    <3> QED
      BY <1>2, <2>1, <3>1 DEF Users, TypeOK
  <2>2. CASE a # c
    <3>1. status[a] = "queued" /\ ticket'[a] = ticket[a] /\ need'[a] = need[a]
      BY <1>2, <2>0, <2>2 DEF TypeOK
    <3>2. CASE need[a] = {}
      BY <3>1, <3>2
    <3>3. CASE need[a] # {}
      <4>1. d # c
        BY <1>2, <2>0, <3>1, <3>3 DEF Places, TypeOK
      <4> QED
        BY <1>2, <2>0, <3>1, <4>1 DEF TryNeverWaits, TypeOK
    <3> QED
      BY <3>2, <3>3
  <2> QED
    BY <2>1, <2>2
<1> QED
  BY <1>1, <1>3, <1>4, <1>5, <1>6, <1>7, <1>8

\* A call that is answered without acquiring anything preserves the invariant.
LEMMA NoAcquisitionStep ==
    ASSUME IInv, NEW c \in Call, status[c] = "idle", TypeOK',
           NEW s \in {"running", "refused"}, status' = [status EXCEPT ![c] = s],
           UNCHANGED <<need, waits, tail, count, ticket, clock>>
    PROVE  IInv'
<1> USE DEF IInv
<1>1. need[c] = {}
  BY DEF Places, Called
<1>2. /\ \A d \in Call : d # c => status'[d] = status[d] /\ (Live(d)' <=> Live(d))
      /\ need' = need /\ ticket' = ticket
  BY DEF TypeOK, Live
<1>3. Places'
  BY <1>1, <1>2 DEF Places, Called
<1>4. TailIsLast'
  <2>1. \A k \in Key : tail[k] # c /\ tail[k] \in Call \cup {NoCall}
    BY <1>1, CallAssumption DEF TailIsLast, TypeOK
  <2>2. \A k \in Key, d \in Call : k \in need[d] => d # c
    BY <1>1
  <2> QED
    BY <1>2, <2>1, <2>2 DEF TailIsLast
<1>5. WaitsCover'
  BY <1>1, <1>2 DEF WaitsCover
<1>6. InOrder'
  BY <1>1, <1>2 DEF InOrder
<1>7. Counted'
  <2>1. \A k \in Key : Users(k)' = Users(k)
    BY <1>1, <1>2 DEF Users
  <2> QED
    BY <2>1 DEF Counted
<1>8. TryNeverWaits'
  BY <1>1, <1>2, CallAssumption DEF TryNeverWaits
<1> QED
  BY <1>3, <1>4, <1>5, <1>6, <1>7, <1>8

\* A grant preserves the invariant: whoever came earlier on a shared key is done.
LEMMA GrantStep ==
    ASSUME IInv, NEW c \in Call, Grant(c)
    PROVE  /\ IInv'
           /\ \A d \in Call : Live(d) /\ ticket[d] < ticket[c] => need[d] \cap need[c] = {}
<1> USE DEF IInv
<1>1. TypeOK'
  BY DEF Grant, TypeOK, Status
<1>2. /\ status[c] = "queued" /\ status' = [status EXCEPT ![c] = "running"]
      /\ need' = need /\ ticket' = ticket /\ waits' = waits /\ tail' = tail
      /\ count' = count /\ clock' = clock
      /\ \A d \in Call : Live(d)' <=> Live(d)
  BY DEF Grant, TypeOK, Live
<1>3. \A d \in Call : Live(d) /\ ticket[d] < ticket[c] => need[d] \cap need[c] = {}
  <2> SUFFICES ASSUME NEW d \in Call, Live(d), ticket[d] < ticket[c],
                      NEW k \in need[d] \cap need[c]
               PROVE  FALSE
    OBVIOUS
  <2> DEFINE w == waits[c][k]
  <2>1. w # NoCall /\ k \in need[w] /\ ticket[d] <= ticket[w]
    BY <1>2 DEF WaitsCover
  <2>2. w \in Call /\ status[w] = "done"
    BY <2>1 DEF Grant, Ready, TypeOK
  <2>3. d # w
    BY <2>2 DEF Live
  <2>4. ticket[d] < ticket[w]
    <3>1. ticket[d] # ticket[w]
      BY <2>1, <2>2, <2>3 DEF Places
    <3>2. ticket[d] \in Nat /\ ticket[w] \in Nat
      BY <2>2 DEF TypeOK
    <3> QED
      BY <2>1, <3>1, <3>2
  <2> QED
    BY <2>1, <2>2, <2>4 DEF InOrder
<1>4. Places'
  BY <1>2 DEF Places, Called, TypeOK
<1>5. TailIsLast'
  <2>1. \A k \in Key : tail[k] # NoCall => tail[k] \in Call
    BY DEF TypeOK
  <2> QED
    BY <1>2, <2>1 DEF TailIsLast
<1>6. WaitsCover'
  BY <1>2 DEF WaitsCover, TypeOK
<1>7. InOrder'
  BY <1>2, <1>3 DEF InOrder, TypeOK
<1>8. Counted'
  BY <1>2 DEF Counted, Users
<1>9. TryNeverWaits'
  BY <1>2, CallAssumption DEF TryNeverWaits, TypeOK
<1> QED
  BY <1>1, <1>3, <1>4, <1>5, <1>6, <1>7, <1>8, <1>9

\* The end of a call preserves the invariant: it was the first on each of its keys.
LEMMA FinishStep ==
    ASSUME IInv, NEW c \in Call, Finish(c)
    PROVE  IInv'
<1> USE DEF IInv
<1>1. /\ status[c] = "running" /\ status' = [status EXCEPT ![c] = "done"]
      /\ need' = need /\ ticket' = ticket /\ waits' = waits /\ clock' = clock
      /\ \A d \in Call : d # c => status'[d] = status[d] /\ (Live(d)' <=> Live(d))
      /\ ~Live(c)' /\ Live(c)
  BY DEF Finish, TypeOK, Live
<1>2. \A k \in Key : Users(k)' = Users(k) \ {c}
  BY <1>1 DEF Users
<1>3. \A k \in Key : count[k] \in Nat /\ (k \in need[c] => count[k] > 0)
  <2> SUFFICES ASSUME NEW k \in Key PROVE count[k] \in Nat /\ (k \in need[c] => count[k] > 0)
    OBVIOUS
  <2>1. k \in need[c] => Users(k) # {}
    BY <1>1 DEF Users
  <2> QED
    BY <2>1, ZeroMeansUnused DEF TypeOK
<1>4. \A k \in Key : /\ count'[k] = IF k \in need[c] THEN count[k] - 1 ELSE count[k]
                     /\ tail'[k] = IF k \in need[c] /\ count[k] <= 1 THEN NoCall ELSE tail[k]
  BY DEF Finish, Release
<1>5. TypeOK'
  <2>1. count' \in [Key -> Nat]
    <3>1. count' = [k \in Key |-> IF k \in need[c] THEN count[k] - 1 ELSE count[k]]
      BY DEF Finish, Release
    <3>2. \A k \in Key : (IF k \in need[c] THEN count[k] - 1 ELSE count[k]) \in Nat
      BY <1>3
    <3> QED
      BY <3>1, <3>2
  <2>2. tail' \in [Key -> Call \cup {NoCall}]
    BY DEF Finish, Release, TypeOK
  <2> QED
    BY <2>1, <2>2 DEF Finish, TypeOK, Status
<1>6. Places'
  BY <1>1 DEF Places, Called, TypeOK
<1>7. Counted'
  <2> SUFFICES ASSUME NEW k \in Key PROVE count'[k] = Cardinality(Users(k)')
    BY DEF Counted
  <2>1. CASE k \in need[c]
    <3>1. c \in Users(k)
      BY <1>1, <2>1 DEF Users
    <3>2. Cardinality(Users(k)') = Cardinality(Users(k)) - 1
      BY <1>2, <3>1, UsersFinite, FS_RemoveElement
    <3> QED
      BY <1>4, <2>1, <3>2 DEF Counted
  <2>2. CASE k \notin need[c]
    <3>1. Users(k)' = Users(k)
      BY <1>2, <2>2 DEF Users
    <3> QED
      BY <1>4, <2>2, <3>1 DEF Counted
  <2> QED
    BY <2>1, <2>2
<1>8. TailIsLast'
  <2> SUFFICES ASSUME NEW k \in Key
               PROVE  (/\ tail[k] # NoCall => Live(tail[k]) /\ k \in need[tail[k]]
                       /\ \A d \in Call : Live(d) /\ k \in need[d] =>
                             tail[k] # NoCall /\ ticket[d] <= ticket[tail[k]])'
    BY DEF TailIsLast
  <2>1. CASE k \in need[c] /\ count[k] <= 1
    <3>1. count'[k] = 0
      BY <1>3, <1>4, <2>1
    <3>2. Users(k)' = {}
      <4>1. IsFiniteSet(Users(k)')
        BY <1>2, UsersFinite, FS_Subset
      <4> QED
        BY <1>7, <3>1, <4>1, FS_EmptySet DEF Counted
    <3> QED
      BY <1>4, <2>1, <3>2 DEF Users
  <2>2. CASE k \in need[c] /\ ~(count[k] <= 1)
    <3>1. tail'[k] = tail[k] /\ tail[k] \in Call
      BY <1>1, <1>4, <2>2 DEF TailIsLast, TypeOK
    <3>2. count'[k] # 0
      BY <1>3, <1>4, <2>2
    <3>3. PICK d \in Call : d # c /\ Live(d) /\ k \in need[d]
      <4>1. Users(k)' # {}
        BY <1>7, <3>2, FS_EmptySet DEF Counted
      <4> QED
        BY <1>2, <4>1 DEF Users
    <3>4. tail[k] # c
      <4>1. ticket[d] # ticket[c] /\ ticket[d] \in Nat /\ ticket[c] \in Nat
        BY <2>2, <3>3 DEF Places, TypeOK
      <4>2. ~(ticket[d] < ticket[c])
        BY <1>1, <2>2, <3>3 DEF InOrder
      <4>3. ticket[d] <= ticket[tail[k]]
        BY <3>3 DEF TailIsLast
      <4> QED
        BY <4>1, <4>2, <4>3
    <3> QED
      BY <1>1, <3>1, <3>4 DEF TailIsLast
  <2>3. CASE k \notin need[c]
    <3>1. tail'[k] = tail[k] /\ tail[k] # c /\ (tail[k] # NoCall => tail[k] \in Call)
      BY <1>4, <2>3, CallAssumption DEF TailIsLast, TypeOK
    <3> QED
      BY <1>1, <3>1 DEF TailIsLast
  <2> QED
    BY <2>1, <2>2, <2>3
<1>9. WaitsCover'
  BY <1>1 DEF WaitsCover, TypeOK
<1>10. InOrder'
  BY <1>1 DEF InOrder, TypeOK
<1>11. TryNeverWaits'
  BY <1>1, CallAssumption DEF TryNeverWaits, TypeOK
<1> QED
  BY <1>5, <1>6, <1>7, <1>8, <1>9, <1>10, <1>11

-----------------------------------------------------------------------------
\* Every step of the lock preserves the invariant.
LEMMA Inductive == IInv /\ [Next]_vars => IInv'
<1> SUFFICES ASSUME IInv, [Next]_vars PROVE IInv'
  OBVIOUS
<1>0. TypeOK
  BY DEF IInv
<1>1. ASSUME NEW c \in Call, NEW p \in Call \cup {NoCall}, NEW K \in (SUBSET Key) \ {{}},
             WithOp(c, p, K) \/ TryWithOp(c, p, K)
      PROVE  IInv'
  <2>1. status[c] = "idle" /\ p \in Contexts
    BY <1>0, <1>1, CallCases
  <2>2. CASE Reenter(c, p)
    <3>1. TypeOK'
      BY <1>0, <2>1, <2>2, NewKeys DEF Reenter, TypeOK, Status
    <3> QED
      BY <2>1, <2>2, <3>1, NoAcquisitionStep DEF Reenter
  <2>3. ASSUME NEW new \in SUBSET Key, new # {}, Enqueue(c, p, new), c \in Try => Free(new)
        PROVE  IInv'
    BY <2>1, <2>3, EnqueueStep
  <2>4. CASE /\ status' = [status EXCEPT ![c] = "refused"]
             /\ UNCHANGED <<parent, owned, need, waits, tail, count, ticket, clock>>
    <3>1. TypeOK'
      BY <1>0, <2>4 DEF TypeOK, Status
    <3> QED
      BY <2>1, <2>4, <3>1, NoAcquisitionStep
  <2> QED
    BY <1>0, <1>1, <2>2, <2>3, <2>4, CallCases
<1>2. ASSUME NEW c \in Call, Grant(c) PROVE IInv'
  BY <1>2, GrantStep
<1>3. ASSUME NEW c \in Call, Finish(c) PROVE IInv'
  BY <1>3, FinishStep
<1>4. CASE UNCHANGED vars
  BY <1>4 DEF vars, IInv, TypeOK, Places, Called, TailIsLast, WaitsCover, InOrder, Counted,
              Users, Live, TryNeverWaits
<1> QED
  BY <1>1, <1>2, <1>3, <1>4 DEF Next, Quiescent

\* The inductive invariant holds in every reachable state.
THEOREM Invariant == Spec => []IInv
<1>1. Init => IInv
  <2> SUFFICES ASSUME Init PROVE IInv
    OBVIOUS
  <2>1. \A k \in Key : Users(k) = {}
    BY DEF Init, Users, Live
  <2>2. Counted
    BY <2>1, FS_EmptySet DEF Counted, Init
  <2> QED
    BY <2>2, CallAssumption DEF Init, IInv, TypeOK, Status, Places, Called, TailIsLast,
                                WaitsCover, InOrder, Live, TryNeverWaits
<1> QED
  BY <1>1, Inductive, PTL DEF Spec

-----------------------------------------------------------------------------
\* The types of the lock's state, in every reachable state.
THEOREM TypeCorrect == Spec => []TypeOK
  BY Invariant, PTL DEF IInv

\* withOp: two operations that acquired a common key are never inside their functions at
\* the same time, whatever the engine nests and whoever refuses.
THEOREM MutexTheorem == Spec => []MutualExclusion
<1>1. IInv => MutualExclusion
  <2> SUFFICES ASSUME IInv, NEW c \in Call, NEW d \in Call, c # d,
                      status[c] = "running", status[d] = "running",
                      NEW k \in need[c] \cap need[d]
               PROVE  FALSE
    BY DEF MutualExclusion
  <2>1. ticket[c] # ticket[d] /\ ticket[c] \in Nat /\ ticket[d] \in Nat
    BY DEF IInv, Places, TypeOK
  <2>2. ~(ticket[c] < ticket[d]) /\ ~(ticket[d] < ticket[c])
    BY DEF IInv, InOrder, Live
  <2> QED
    BY <2>1, <2>2
<1> QED
  BY <1>1, Invariant, PTL

\* enqueue and release keep every counter equal to the operations that hold or wait for
\* its key, and an entry of the map exactly as long as there are any.
THEOREM CountsTheorem == Spec => []CountsLive
<1>1. IInv => CountsLive
  <2> SUFFICES ASSUME IInv, NEW k \in Key
               PROVE  /\ count[k] = Cardinality(Users(k))
                      /\ tail[k] = NoCall <=> Users(k) = {}
    BY DEF CountsLive
  <2>1. count[k] = Cardinality(Users(k))
    BY DEF IInv, Counted
  <2>2. tail[k] = NoCall => Users(k) = {}
    BY DEF IInv, TailIsLast, Users
  <2>3. tail[k] # NoCall => tail[k] \in Users(k)
    BY DEF IInv, TypeOK, TailIsLast, Users
  <2> QED
    BY <2>1, <2>2, <2>3
<1> QED
  BY <1>1, Invariant, PTL

\* tryWithOp: a call that was not refused is behind nobody on any of its keys.
THEOREM TryTheorem == Spec => []TryNeverWaits
  BY Invariant, PTL DEF IInv

\* What the counters, the entries and the refusals say is true.
THEOREM AnswersTheorem == Spec => []AnswersAreTrue
  BY CountsTheorem, TryTheorem, PTL DEF AnswersAreTrue

\* A running function and the ones around it: each of the others is running, for one of
\* them awaits it, and together they acquired every key the innermost one owns.
Around(c, A) ==
    /\ c \in A
    /\ \A a \in A \ {c} : status[a] = "running" /\ \E d \in A : parent[d] = a
    /\ \A k \in owned[c] : \E a \in A : k \in need[a]

\* Every call that has not ended is inside such functions.
Nested == \A c \in Call : Live(c) => \E A \in SUBSET Call : Around(c, A)

\* A call made from the context of p is inside p and what p is inside of.
LEMMA NestedMore ==
    ASSUME TypeOK, Nested, NEW c \in Call, NEW p \in Contexts, status[c] = "idle",
           NEW becomes \in {"queued", "running"}, status' = [status EXCEPT ![c] = becomes],
           parent' = [parent EXCEPT ![c] = p],
           NEW K \in SUBSET Key, owned' = [owned EXCEPT ![c] = Inherited(p) \cup K],
           K \subseteq need'[c], \A d \in Call \ {c} : need'[d] = need[d]
    PROVE  Nested'
<1>1. ASSUME NEW x \in Call, x # c, Live(x)', NEW A \in SUBSET Call, Around(x, A)
      PROVE  Around(x, A)' /\ c \notin A
  <2>1. c \notin A
    BY <1>1 DEF Around, TypeOK
  <2> QED
    BY <1>1, <2>1 DEF Around, TypeOK
<1>2. ASSUME NEW x \in Call, x # c, Live(x)' PROVE \E A \in SUBSET Call : Around(x, A)'
  <2>1. Live(x)
    BY <1>2 DEF Live, TypeOK
  <2>2. PICK A \in SUBSET Call : Around(x, A)
    BY <2>1 DEF Nested
  <2> QED
    BY <1>1, <1>2, <2>2
<1>3. CASE p = NoCall
  <2>1. Around(c, {c})'
    BY <1>3, CallAssumption DEF Around, TypeOK, Inherited
  <2> QED
    BY <1>2, <2>1 DEF Nested
<1>4. CASE p # NoCall
  <2>1. p \in Call /\ status[p] = "running" /\ p # c /\ Live(p)
    BY <1>4 DEF Contexts, Live
  <2>2. PICK A \in SUBSET Call : Around(p, A)
    BY <2>1 DEF Nested
  <2>3. c \notin A /\ p \in A
    BY <2>1, <2>2 DEF Around
  <2>4. \A a \in A : status[a] = "running" /\ status'[a] = "running" /\ need'[a] = need[a]
                     /\ parent'[a] = parent[a]
    BY <2>1, <2>2, <2>3 DEF Around, TypeOK
  <2>5. \A a \in A : \E d \in A \cup {c} : parent'[d] = a
    BY <2>2, <2>3, <2>4 DEF Around, TypeOK
  <2>6. \A k \in owned'[c] : \E a \in A \cup {c} : k \in need'[a]
    <3> SUFFICES ASSUME NEW k \in owned[p] \cup K PROVE \E a \in A \cup {c} : k \in need'[a]
      BY <1>4 DEF Inherited, TypeOK
    <3>1. CASE k \in owned[p]
      BY <2>2, <2>4, <3>1 DEF Around
    <3>2. CASE k \in K
      BY <3>2 DEF TypeOK
    <3> QED
      BY <3>1, <3>2
  <2>7. Around(c, A \cup {c})'
    BY <2>4, <2>5, <2>6 DEF Around
  <2> QED
    BY <1>2, <2>7 DEF Nested
<1> QED
  BY <1>3, <1>4

\* A function that awaited what it made is around nobody when it ends.
LEMMA NestedLess == ASSUME TypeOK, Nested, NEW c \in Call, Finish(c) PROVE Nested'
<1>1. /\ status' = [status EXCEPT ![c] = "done"] /\ UNCHANGED <<parent, owned, need>>
      /\ \A d \in Call : parent[d] = c => ~Live(d)
  BY DEF Finish, Awaited
<1> SUFFICES ASSUME NEW x \in Call, Live(x)' PROVE \E A \in SUBSET Call : Around(x, A)'
  BY DEF Nested
<1>2. x # c /\ Live(x)
  BY <1>1 DEF Live, TypeOK
<1>3. PICK A \in SUBSET Call : Around(x, A)
  BY <1>2 DEF Nested
<1>4. \A d \in A : Live(d)
  BY <1>2, <1>3 DEF Around, Live
<1>5. c \notin A
  BY <1>1, <1>2, <1>3, <1>4 DEF Around
<1> QED
  BY <1>1, <1>3, <1>5 DEF Around, TypeOK

\* A running function that believes it owns a key is right: it or a function around it
\* acquired the key and is running still.  Whoever re-enters an owned key waits for nothing.
THEOREM OwnedTheorem == Spec => []OwnedIsHeld
<1>1. Init => Nested
  BY DEF Init, Nested, Live
<1>2. TypeOK /\ Nested /\ [Next]_vars => Nested'
  <2> SUFFICES ASSUME TypeOK, Nested, [Next]_vars PROVE Nested'
    OBVIOUS
  <2>1. ASSUME NEW c \in Call, NEW p \in Call \cup {NoCall}, NEW K \in (SUBSET Key) \ {{}},
               WithOp(c, p, K) \/ TryWithOp(c, p, K)
        PROVE  Nested'
    <3>1. status[c] = "idle" /\ p \in Contexts
      BY <2>1, CallCases
    <3>2. CASE Reenter(c, p)
      <4>1. owned' = [owned EXCEPT ![c] = Inherited(p) \cup {}]
        BY <3>2 DEF Reenter
      <4>2. /\ status' = [status EXCEPT ![c] = "running"] /\ parent' = [parent EXCEPT ![c] = p]
            /\ {} \in SUBSET Key /\ {} \subseteq need'[c] /\ \A d \in Call \ {c} : need'[d] = need[d]
        BY <3>2 DEF Reenter
      <4> HIDE DEF Reenter
      <4> QED
        BY <3>1, <4>1, <4>2, NestedMore
    <3>3. ASSUME NEW new \in SUBSET Key, new # {}, Enqueue(c, p, new) PROVE Nested'
      <4>1. new \subseteq need'[c] /\ \A d \in Call \ {c} : need'[d] = need[d]
        BY <3>3 DEF Enqueue, TypeOK
      <4> QED
        BY <3>1, <3>3, <4>1, NestedMore DEF Enqueue
    <3>4. CASE /\ status' = [status EXCEPT ![c] = "refused"]
               /\ UNCHANGED <<parent, owned, need, waits, tail, count, ticket, clock>>
      <4> SUFFICES ASSUME NEW x \in Call, Live(x)' PROVE \E A \in SUBSET Call : Around(x, A)'
        BY DEF Nested
      <4>1. x # c /\ Live(x)
        BY <3>4 DEF Live, TypeOK
      <4>2. PICK A \in SUBSET Call : Around(x, A)
        BY <4>1 DEF Nested
      <4>3. c \notin A
        BY <3>1, <4>1, <4>2 DEF Around
      <4> QED
        BY <3>4, <4>2, <4>3 DEF Around, TypeOK
    <3> QED
      BY <2>1, <3>2, <3>3, <3>4, CallCases
  <2>2. ASSUME NEW c \in Call, Grant(c) PROVE Nested'
    BY <2>2 DEF Grant, Nested, Around, Live, TypeOK
  <2>3. ASSUME NEW c \in Call, Finish(c) PROVE Nested'
    BY <2>3, NestedLess
  <2>4. CASE UNCHANGED vars
    BY <2>4 DEF vars, Nested, Around, Live
  <2> QED
    BY <2>1, <2>2, <2>3, <2>4 DEF Next, Quiescent
<1>3. Nested => OwnedIsHeld
  BY DEF Nested, Around, OwnedIsHeld, Live
<1> QED
  BY <1>1, <1>2, <1>3, TypeCorrect, PTL DEF Spec

\* The chains and counters implement the promise of KeyLock: exclusive, first come first
\* served on every key, and a place taken in the very step of the call.
THEOREM Refinement == Spec => ImplementsKeyLock
<1>1. Init => Abstract!Init
  BY DEF Init, Abstract!Init
<1>2. IInv /\ [Next]_vars => [Abstract!Next]_(Abstract!vars)
  <2> SUFFICES ASSUME IInv, [Next]_vars PROVE [Abstract!Next]_(Abstract!vars)
    OBVIOUS
  <2>0. TypeOK
    BY DEF IInv
  <2>1. ASSUME NEW c \in Call, NEW p \in Call \cup {NoCall}, NEW K \in (SUBSET Key) \ {{}},
               WithOp(c, p, K) \/ TryWithOp(c, p, K)
        PROVE  Abstract!Next
    <3>1. status[c] = "idle"
      BY <2>0, <2>1, CallCases
    <3>2. CASE Reenter(c, p)
      BY <3>1, <3>2 DEF Reenter, Abstract!Next, Abstract!Reenter
    <3>3. ASSUME NEW new \in SUBSET Key, new # {}, Enqueue(c, p, new) PROVE Abstract!Next
      <4>1. Abstract!Arrive(c, new)
        BY <3>1, <3>3 DEF Enqueue, Abstract!Arrive
      <4> QED
        BY <4>1 DEF Abstract!Next
    <3>4. CASE /\ status' = [status EXCEPT ![c] = "refused"]
               /\ UNCHANGED <<parent, owned, need, waits, tail, count, ticket, clock>>
      BY <3>1, <3>4 DEF Abstract!Next, Abstract!Refuse
    <3> QED
      BY <2>0, <2>1, <3>2, <3>3, <3>4, CallCases
  <2>2. ASSUME NEW c \in Call, Grant(c) PROVE Abstract!Next
    <3>1. Abstract!Grant(c)
      BY <2>2, GrantStep DEF Grant, Abstract!Grant, Abstract!Live, Live
    <3> QED
      BY <3>1 DEF Abstract!Next
  <2>3. ASSUME NEW c \in Call, Finish(c) PROVE Abstract!Next
    BY <2>3 DEF Finish, Abstract!Next, Abstract!Finish
  <2>4. CASE UNCHANGED vars
    BY <2>4 DEF vars, Abstract!vars
  <2> QED
    BY <2>1, <2>2, <2>3, <2>4 DEF Next, Quiescent
<1> QED
  BY <1>1, <1>2, Invariant, PTL DEF Spec, ImplementsKeyLock, Abstract!Spec

-------------------------------------------------------------------------------
\* The data directory lock: what holds of it.

Process == [pc : Acquiring \cup {"down", "up"}, boot : Nat, started : Nat, wake : Nat,
            seen : Nat, takeovers : Nat, beat : Nat]

\* A holder that never missed its beat.
Steady(p) == proc[p].pc = "up" /\ proc[p].boot \notin shaken

LockTyped ==
    /\ now \in Nat /\ boots \in Nat
    /\ proc \in [Proc -> Process]
    /\ file \in [boot : Nat, mtime : Nat] \cup {None}
    /\ stalled \subseteq Up /\ \A p \in stalled : proc[p].boot \in shaken
    /\ shaken \subseteq 0..boots

\* Every boot has an id of its own.
BootsDiffer ==
    /\ \A p \in Proc : proc[p].pc # "down" => proc[p].boot <= boots
    /\ \A p, q \in Proc : p # q /\ proc[p].pc # "down" /\ proc[q].pc # "down" =>
                             proc[p].boot # proc[q].boot

\* The file is of the last boot that acquired it, and no younger than the clock.
FileIsNewest == file # None => file.boot = newest /\ file.mtime <= now

\* A holder that keeps its beat has the file, and the file is as young as its beat.
HasFile(p) ==
    /\ file # None /\ file.boot = proc[p].boot
    /\ file.mtime >= proc[p].beat /\ now <= proc[p].beat + Beat

OneBoots == \A p, q \in Booting : p = q

\* What the process that boots knows.
BootKnows(p) ==
    /\ proc[p].pc \in Acquiring => proc[p].started <= now
    /\ proc[p].pc = "unlink" => \A q \in Proc : ~Steady(q)
    /\ proc[p].pc \in Acquiring /\ proc[p].takeovers > 0 => proc[p].pc = "open" /\ file = None
    /\ proc[p].pc = "wait" => now - proc[p].seen <= Stale

LockInv ==
    /\ LockTyped /\ BootsDiffer /\ FileIsNewest /\ OneBoots
    /\ \A p \in Proc : (Steady(p) => HasFile(p)) /\ BootKnows(p)

LEMMA BootKeeps == ASSUME Contenders = 1, LockInv, NEW p \in Proc, Boot(p) PROVE LockInv'
<1> DEFINE fresh == [Dead EXCEPT !.pc = "open", !.boot = boots + 1, !.started = now]
<1>1. /\ boots' = boots + 1 /\ proc' = [proc EXCEPT ![p] = fresh] /\ proc[p].pc = "down"
      /\ UNCHANGED <<now, file, stalled, newest, shaken>>
  BY DEF Boot
<1>2. /\ fresh \in Process /\ fresh.pc = "open" /\ fresh.boot = boots + 1
      /\ fresh.started = now /\ fresh.takeovers = 0
  <2>1. boots + 1 \in Nat /\ now \in Nat
    BY DEF LockInv, LockTyped
  <2>2. fresh.pc = "open" /\ fresh.boot = boots + 1 /\ fresh.started = now /\ fresh.takeovers = 0
    BY DEF Dead
  <2>3. fresh \in Process
    BY <2>1 DEF Dead, Process, Acquiring
  <2> QED BY <2>2, <2>3
<1>3. /\ proc \in [Proc -> Process] /\ proc' \in [Proc -> Process] /\ proc'[p] = fresh
      /\ \A q \in Proc \ {p} : proc'[q] = proc[q]
  BY <1>1, <1>2 DEF LockInv, LockTyped
<1>4. Booting = {}
  <2>1. IsFiniteSet(Booting)
    BY DirLockAssumption, FS_Subset DEF Booting
  <2>2. Cardinality(Booting) \in Nat /\ Cardinality(Booting) < 1
    BY <2>1, FS_CardinalityType DEF Boot
  <2> QED BY <2>1, <2>2, FS_EmptySet
<1>5. LockTyped'
  <2>1. stalled \subseteq Proc \ {p} /\ boots \in Nat
    BY <1>1 DEF LockInv, LockTyped, Up
  <2>2. stalled \subseteq {q \in Proc : proc'[q].pc = "up"}
    BY <1>1, <1>3, <2>1 DEF LockInv, LockTyped, Up
  <2>3. \A q \in stalled : proc'[q].boot \in shaken
    BY <1>1, <1>3, <2>1 DEF LockInv, LockTyped
  <2>4. shaken' \subseteq 0..boots'
    BY <1>1 DEF LockInv, LockTyped
  <2> QED BY <1>1, <1>3, <2>1, <2>2, <2>3, <2>4 DEF LockInv, LockTyped, Up
<1>6. BootsDiffer'
  BY <1>1, <1>2, <1>3 DEF LockInv, LockTyped, BootsDiffer, Process
<1>7. FileIsNewest'
  BY <1>1 DEF LockInv, FileIsNewest
<1>8. OneBoots'
  BY <1>2, <1>3, <1>4 DEF OneBoots, Booting
<1>9. ASSUME NEW q \in Proc PROVE (Steady(q)' => HasFile(q)') /\ BootKnows(q)'
  <2>1. CASE q = p
    BY <1>1, <1>2, <1>3, <2>1 DEF LockInv, LockTyped, Steady, BootKnows
  <2>2. CASE q # p
    BY <1>1, <1>2, <1>3, <2>2 DEF LockInv, Steady, HasFile, BootKnows
  <2> QED BY <2>1, <2>2
<1> QED BY <1>5, <1>6, <1>7, <1>8, <1>9 DEF LockInv

LEMMA OpenKeeps == ASSUME LockInv, NEW p \in Proc, Open(p) PROVE LockInv'
<1>1. CASE file # None
  <2>1. /\ proc' = [proc EXCEPT ![p].pc = "stat"] /\ proc[p].pc = "open"
        /\ UNCHANGED <<now, file, stalled, boots, newest, shaken>>
    BY <1>1 DEF Open, Goto
  <2> USE <1>1, <2>1 DEF LockInv, LockTyped, Process, Up, Booting, Acquiring
  <2>2. LockTyped'
    OBVIOUS
  <2>3. BootsDiffer' /\ FileIsNewest' /\ OneBoots'
    BY DEF BootsDiffer, FileIsNewest, OneBoots
  <2>4. ASSUME NEW q \in Proc PROVE (Steady(q)' => HasFile(q)') /\ BootKnows(q)'
    BY DEF Steady, HasFile, BootKnows
  <2> QED BY <2>2, <2>3, <2>4
<1>2. CASE file = None
  <2> DEFINE holder == [Dead EXCEPT !.pc = "up", !.boot = proc[p].boot, !.beat = now]
  <2>1. /\ proc' = [proc EXCEPT ![p] = holder] /\ proc[p].pc = "open"
        /\ file' = [boot |-> proc[p].boot, mtime |-> now] /\ newest' = proc[p].boot
        /\ UNCHANGED <<now, stalled, boots, shaken>>
    BY <1>2 DEF Open, NewFile
  <2>2. /\ holder \in Process /\ holder.pc = "up" /\ holder.boot = proc[p].boot
        /\ holder.beat = now /\ now \in Nat /\ proc[p].boot \in Nat
    BY DEF LockInv, LockTyped, Process, Dead
  <2>3. /\ proc \in [Proc -> Process] /\ proc' \in [Proc -> Process] /\ proc'[p] = holder
        /\ \A q \in Proc \ {p} : proc'[q] = proc[q]
    BY <2>1, <2>2 DEF LockInv, LockTyped
  <2>4. /\ file' # None /\ file'.boot = proc[p].boot /\ file'.mtime = now
        /\ file' \in [boot : Nat, mtime : Nat]
    BY <2>1, <2>2, DirLockAssumption
  <2>5. LockTyped'
    BY <2>1, <2>2, <2>3, <2>4 DEF LockInv, LockTyped, Up
  <2>6. BootsDiffer'
    BY <2>1, <2>2, <2>3 DEF LockInv, BootsDiffer
  <2>7. FileIsNewest'
    BY <2>1, <2>2, <2>4 DEF FileIsNewest
  <2>8. OneBoots'
    BY <2>2, <2>3 DEF LockInv, OneBoots, Booting, Acquiring
  <2>9. ASSUME NEW q \in Proc PROVE (Steady(q)' => HasFile(q)') /\ BootKnows(q)'
    <3>1. CASE q = p
      BY <2>1, <2>2, <2>3, <2>4, <3>1, DirLockAssumption DEF HasFile, BootKnows, Acquiring
    <3>2. CASE q # p
      <4>1. ~Steady(q)'
        BY <1>2, <2>1, <2>3, <3>2 DEF LockInv, Steady, HasFile
      <4>2. proc[q].pc \notin Acquiring
        BY <2>1, <3>2 DEF LockInv, OneBoots, Booting, Acquiring
      <4> QED BY <2>3, <3>2, <4>1, <4>2 DEF BootKnows, Acquiring
    <3> QED BY <3>1, <3>2
  <2> QED BY <2>5, <2>6, <2>7, <2>8, <2>9 DEF LockInv
<1> QED BY <1>1, <1>2

LEMMA StatKeeps == ASSUME LockInv, NEW p \in Proc, Stat(p) PROVE LockInv'
<1> USE DirLockAssumption DEF LockInv, Stat, Dead, Goto, Up, Booting, Acquiring, IsStale
<1>1. LockTyped'
  BY DEF LockTyped, Process
<1>2. BootsDiffer'
  BY DEF LockTyped, Process, BootsDiffer
<1>3. FileIsNewest'
  BY DEF LockTyped, Process, FileIsNewest
<1>4. OneBoots'
  BY DEF LockTyped, Process, OneBoots
<1>5. ASSUME NEW q \in Proc, Steady(q)' PROVE HasFile(q)'
  BY <1>5 DEF LockTyped, Process, BootsDiffer, FileIsNewest, Steady, HasFile
<1>6. ASSUME NEW q \in Proc PROVE BootKnows(q)'
  BY DEF LockTyped, Process, FileIsNewest, OneBoots, BootKnows, Steady, HasFile
<1> QED BY <1>1, <1>2, <1>3, <1>4, <1>5, <1>6

LEMMA UnlinkKeeps == ASSUME LockInv, NEW p \in Proc, Unlink(p) PROVE LockInv'
<1> USE DirLockAssumption DEF LockInv, Unlink, Dead, Goto, Up, Booting, Acquiring
<1>1. LockTyped'
  BY DEF LockTyped, Process
<1>2. BootsDiffer'
  BY DEF LockTyped, Process, BootsDiffer
<1>3. FileIsNewest'
  BY DEF LockTyped, Process, FileIsNewest
<1>4. OneBoots'
  BY DEF LockTyped, Process, OneBoots
<1>5. ASSUME NEW q \in Proc, Steady(q)' PROVE HasFile(q)'
  BY <1>5 DEF LockTyped, Process, BootsDiffer, FileIsNewest, Steady, HasFile
<1>6. ASSUME NEW q \in Proc PROVE BootKnows(q)'
  BY DEF LockTyped, Process, FileIsNewest, OneBoots, BootKnows, Steady, HasFile
<1> QED BY <1>1, <1>2, <1>3, <1>4, <1>5, <1>6

LEMMA RefuseKeeps == ASSUME LockInv, NEW p \in Proc, Refuse(p) PROVE LockInv'
<1> USE DirLockAssumption DEF LockInv, Refuse, Dead, Goto, Up, Booting, Acquiring, Deadline
<1>1. LockTyped'
  BY DEF LockTyped, Process
<1>2. BootsDiffer'
  BY DEF LockTyped, Process, BootsDiffer
<1>3. FileIsNewest'
  BY DEF LockTyped, Process, FileIsNewest
<1>4. OneBoots'
  BY DEF LockTyped, Process, OneBoots
<1>5. ASSUME NEW q \in Proc, Steady(q)' PROVE HasFile(q)'
  BY <1>5 DEF LockTyped, Process, BootsDiffer, FileIsNewest, Steady, HasFile
<1>6. ASSUME NEW q \in Proc PROVE BootKnows(q)'
  BY DEF LockTyped, Process, FileIsNewest, OneBoots, BootKnows, Steady, HasFile
<1> QED BY <1>1, <1>2, <1>3, <1>4, <1>5, <1>6

LEMMA SleepKeeps == ASSUME LockInv, NEW p \in Proc, Sleep(p) PROVE LockInv'
<1> USE DirLockAssumption DEF LockInv, Sleep, Dead, Goto, Up, Booting, Acquiring, Deadline
<1>1. LockTyped'
  BY DEF LockTyped, Process
<1>2. BootsDiffer'
  BY DEF LockTyped, Process, BootsDiffer
<1>3. FileIsNewest'
  BY DEF LockTyped, Process, FileIsNewest
<1>4. OneBoots'
  BY DEF LockTyped, Process, OneBoots
<1>5. ASSUME NEW q \in Proc, Steady(q)' PROVE HasFile(q)'
  BY <1>5 DEF LockTyped, Process, BootsDiffer, FileIsNewest, Steady, HasFile
<1>6. ASSUME NEW q \in Proc PROVE BootKnows(q)'
  BY DEF LockTyped, Process, FileIsNewest, OneBoots, BootKnows, Steady, HasFile
<1> QED BY <1>1, <1>2, <1>3, <1>4, <1>5, <1>6

LEMMA WakeUpKeeps == ASSUME LockInv, NEW p \in Proc, WakeUp(p) PROVE LockInv'
<1> USE DirLockAssumption DEF LockInv, WakeUp, Dead, Goto, Up, Booting, Acquiring
<1>1. LockTyped'
  BY DEF LockTyped, Process
<1>2. BootsDiffer'
  BY DEF LockTyped, Process, BootsDiffer
<1>3. FileIsNewest'
  BY DEF LockTyped, Process, FileIsNewest
<1>4. OneBoots'
  BY DEF LockTyped, Process, OneBoots
<1>5. ASSUME NEW q \in Proc, Steady(q)' PROVE HasFile(q)'
  BY <1>5 DEF LockTyped, Process, BootsDiffer, FileIsNewest, Steady, HasFile
<1>6. ASSUME NEW q \in Proc PROVE BootKnows(q)'
  BY DEF LockTyped, Process, FileIsNewest, OneBoots, BootKnows, Steady, HasFile
<1> QED BY <1>1, <1>2, <1>3, <1>4, <1>5, <1>6

LEMMA HeartbeatKeeps == ASSUME LockInv, NEW p \in Proc, Heartbeat(p) PROVE LockInv'
<1> USE DirLockAssumption DEF LockInv, Heartbeat, Dead, Goto, Up, Booting, Acquiring
<1>1. LockTyped'
  BY DEF LockTyped, Process
<1>2. BootsDiffer'
  BY DEF LockTyped, Process, BootsDiffer
<1>3. FileIsNewest'
  BY DEF LockTyped, Process, FileIsNewest
<1>4. OneBoots'
  BY DEF LockTyped, Process, OneBoots
<1>5. ASSUME NEW q \in Proc, Steady(q)' PROVE HasFile(q)'
  <2>1. Steady(q) /\ HasFile(q) /\ file # None
    BY <1>5 DEF LockTyped, Process, Steady, HasFile
  <2>2. file' = [file EXCEPT !.mtime = now] /\ file \in [boot : Nat, mtime : Nat]
        /\ now \in Nat
    BY <2>1 DEF LockTyped
  <2>4. file' \in [boot : Nat, mtime : Nat] /\ file'.boot = file.boot /\ file'.mtime = now
    BY <2>2
  <2>5. file' # None
    BY <2>4, DirLockAssumption
  <2>3. proc'[q].boot = proc[q].boot /\ proc'[q].beat \in {proc[q].beat, now}
    BY DEF LockTyped, Process
  <2> QED BY <2>1, <2>2, <2>3, <2>4, <2>5 DEF HasFile, LockTyped, Process, FileIsNewest
<1>6. ASSUME NEW q \in Proc PROVE BootKnows(q)'
  BY DEF LockTyped, Process, FileIsNewest, OneBoots, BootKnows, Steady, HasFile
<1> QED BY <1>1, <1>2, <1>3, <1>4, <1>5, <1>6

LEMMA ReleaseKeeps == ASSUME LockInv, NEW p \in Proc, ReleaseLock(p) PROVE LockInv'
<1> USE DirLockAssumption DEF LockInv, ReleaseLock, Dead, Goto, Up, Booting, Acquiring, AfterRelease
<1>1. LockTyped'
  BY DEF LockTyped, Process
<1>2. BootsDiffer'
  BY DEF LockTyped, Process, BootsDiffer
<1>3. FileIsNewest'
  BY DEF LockTyped, Process, FileIsNewest
<1>4. OneBoots'
  BY DEF LockTyped, Process, OneBoots
<1>5. ASSUME NEW q \in Proc, Steady(q)' PROVE HasFile(q)'
  BY <1>5 DEF LockTyped, Process, BootsDiffer, FileIsNewest, Steady, HasFile
<1>6. ASSUME NEW q \in Proc PROVE BootKnows(q)'
  BY DEF LockTyped, Process, FileIsNewest, OneBoots, BootKnows, Steady, HasFile
<1> QED BY <1>1, <1>2, <1>3, <1>4, <1>5, <1>6

LEMMA KillKeeps == ASSUME LockInv, NEW p \in Proc, Kill(p) PROVE LockInv'
<1> USE DirLockAssumption DEF LockInv, Kill, Dead, Goto, Up, Booting, Acquiring
<1>1. LockTyped'
  BY DEF LockTyped, Process
<1>2. BootsDiffer'
  BY DEF LockTyped, Process, BootsDiffer
<1>3. FileIsNewest'
  BY DEF LockTyped, Process, FileIsNewest
<1>4. OneBoots'
  BY DEF LockTyped, Process, OneBoots
<1>5. ASSUME NEW q \in Proc, Steady(q)' PROVE HasFile(q)'
  BY <1>5 DEF LockTyped, Process, BootsDiffer, FileIsNewest, Steady, HasFile
<1>6. ASSUME NEW q \in Proc PROVE BootKnows(q)'
  BY DEF LockTyped, Process, FileIsNewest, OneBoots, BootKnows, Steady, HasFile
<1> QED BY <1>1, <1>2, <1>3, <1>4, <1>5, <1>6

LEMMA StallKeeps == ASSUME LockInv, NEW p \in Proc, Stall(p) PROVE LockInv'
<1> USE DirLockAssumption DEF LockInv, Stall, Dead, Goto, Up, Booting, Acquiring
<1>1. LockTyped'
  <2>1. proc[p].boot \in 0..boots
    BY DEF BootsDiffer, LockTyped, Process
  <2> QED BY <2>1 DEF LockTyped
<1>2. BootsDiffer'
  BY DEF LockTyped, Process, BootsDiffer
<1>3. FileIsNewest'
  BY DEF LockTyped, Process, FileIsNewest
<1>4. OneBoots'
  BY DEF LockTyped, Process, OneBoots
<1>5. ASSUME NEW q \in Proc, Steady(q)' PROVE HasFile(q)'
  BY <1>5 DEF LockTyped, Process, BootsDiffer, FileIsNewest, Steady, HasFile
<1>6. ASSUME NEW q \in Proc PROVE BootKnows(q)'
  BY DEF LockTyped, Process, FileIsNewest, OneBoots, BootKnows, Steady, HasFile
<1> QED BY <1>1, <1>2, <1>3, <1>4, <1>5, <1>6

LEMMA ResumeKeeps == ASSUME LockInv, NEW p \in Proc, Resume(p) PROVE LockInv'
<1> USE DirLockAssumption DEF LockInv, Resume, Dead, Goto, Up, Booting, Acquiring
<1>1. LockTyped'
  BY DEF LockTyped, Process
<1>2. BootsDiffer'
  BY DEF LockTyped, Process, BootsDiffer
<1>3. FileIsNewest'
  BY DEF LockTyped, Process, FileIsNewest
<1>4. OneBoots'
  BY DEF LockTyped, Process, OneBoots
<1>5. ASSUME NEW q \in Proc, Steady(q)' PROVE HasFile(q)'
  BY <1>5 DEF LockTyped, Process, BootsDiffer, FileIsNewest, Steady, HasFile
<1>6. ASSUME NEW q \in Proc PROVE BootKnows(q)'
  BY DEF LockTyped, Process, FileIsNewest, OneBoots, BootKnows, Steady, HasFile
<1> QED BY <1>1, <1>2, <1>3, <1>4, <1>5, <1>6

LEMMA TickKeeps == ASSUME LockInv, Tick PROVE LockInv'
<1>1. /\ now' = now + 1 /\ UNCHANGED <<file, proc, stalled, boots, newest, shaken>>
      /\ \A p \in Up \ stalled : now < proc[p].beat + Beat
      /\ \A p \in Booting : proc[p].pc = "sleep"
      /\ now \in Nat
  BY DEF Tick, LockInv, LockTyped
<1>2. LockTyped' /\ BootsDiffer' /\ OneBoots'
  BY <1>1 DEF LockInv, LockTyped, BootsDiffer, OneBoots, Up, Booting
<1>3. FileIsNewest'
  BY <1>1 DEF LockInv, LockTyped, FileIsNewest
<1>4. ASSUME NEW p \in Proc PROVE (Steady(p)' => HasFile(p)') /\ BootKnows(p)'
  <2>1. Steady(p)' => HasFile(p)'
    <3>1. Steady(p) => p \in Up \ stalled
      BY DEF Steady, LockInv, LockTyped, Up
    <3> QED BY <1>1, <3>1, DirLockAssumption DEF LockInv, LockTyped, Process, Steady, HasFile
  <2>2. BootKnows(p)'
    BY <1>1 DEF LockInv, LockTyped, Process, BootKnows, Booting, Acquiring, Steady
  <2> QED BY <2>1, <2>2
<1> QED BY <1>2, <1>3, <1>4 DEF LockInv

THEOREM LockInvariant == ASSUME Contenders = 1 PROVE DirLockSpec => []LockInv
<1>1. DirLockInit => LockInv
  BY DEF DirLockInit, LockInv, LockTyped, BootsDiffer, FileIsNewest, OneBoots, Steady, BootKnows, Dead,
         Process, Acquiring, Booting, Up
<1>2. LockInv /\ [DirLockNext]_dirLockVars => LockInv'
  <2> SUFFICES ASSUME LockInv, [DirLockNext]_dirLockVars PROVE LockInv'
    OBVIOUS
  <2>1. CASE UNCHANGED dirLockVars
    BY <2>1 DEF dirLockVars, LockInv, LockTyped, BootsDiffer, FileIsNewest, OneBoots, Steady, HasFile,
                BootKnows, Booting, Up
  <2>2. CASE Tick
    BY <2>2, TickKeeps
  <2>3. ASSUME NEW p \in Proc,
               \/ Boot(p) \/ Open(p) \/ Stat(p) \/ Unlink(p) \/ Refuse(p) \/ Sleep(p) \/ WakeUp(p)
               \/ Heartbeat(p) \/ ReleaseLock(p) \/ Kill(p) \/ Stall(p) \/ Resume(p)
        PROVE  LockInv'
    BY <2>3, BootKeeps, OpenKeeps, StatKeeps, UnlinkKeeps, RefuseKeeps, SleepKeeps, WakeUpKeeps,
       HeartbeatKeeps, ReleaseKeeps, KillKeeps, StallKeeps, ResumeKeeps
  <2> QED BY <2>1, <2>2, <2>3 DEF DirLockNext
<1> QED BY <1>1, <1>2, PTL DEF DirLockSpec

\* Of two daemons that are up on one directory, one was stopped for longer than its beat and
\* does not know, for any number of processes and boots and any times, where one process boots
\* at a time.
THEOREM OneHolderTheorem == ASSUME Contenders = 1 PROVE DirLockSpec => []OneHolder
<1>1. LockInv => OneHolder
  BY DEF LockInv, BootsDiffer, Steady, HasFile, OneHolder, Up
<1> QED BY <1>1, LockInvariant, PTL

\* A boot that waits at least as long as a heartbeat stays fresh is refused only by somebody
\* who was alive after it began; and a holder that goes leaves its successor's lock alone.
THEOREM HandsOverTheorem == ASSUME Contenders = 1, Stale <= Timeout PROVE DirLockSpec => HandsOver
<1>1. LockInv /\ [DirLockNext]_dirLockVars => [\A p \in Proc : Refuse(p) => proc[p].seen >= proc[p].started]_dirLockVars
  <2> SUFFICES ASSUME LockInv, NEW p \in Proc, Refuse(p) PROVE proc[p].seen >= proc[p].started
    OBVIOUS
  <2> QED BY DirLockAssumption DEF Refuse, Deadline, LockInv, LockTyped, Process, BootKnows, Acquiring
<1>2. LockInv /\ [DirLockNext]_dirLockVars =>
        [\A p \in Proc : ReleaseLock(p) /\ proc[p].boot # newest => file' = file]_dirLockVars
  <2> SUFFICES ASSUME LockInv, NEW p \in Proc, ReleaseLock(p), proc[p].boot # newest
               PROVE  file' = file
    OBVIOUS
  <2> QED BY DEF ReleaseLock, AfterRelease, LockInv, FileIsNewest
<1> QED BY <1>1, <1>2, LockInvariant, PTL DEF DirLockSpec, HandsOver, RefusedByTheLiving, ReleaseLeavesSuccessor

-------------------------------------------------------------------------------
\* The sessions and tokens.

\* Rows of sessions, and slides of them.
Rows == [user : Nat, upd : Nat, exp : Nat]

IdentityTyped ==
    /\ instant \in Nat /\ flushBy \in Nat
    /\ DOMAIN sessions \subseteq Session
    /\ \A s \in DOMAIN sessions :
          sessions[s] \in Rows /\ sessions[s].upd <= instant
    /\ \A s \in DOMAIN touched : touched[s] \in Rows /\ touched[s].upd <= instant
    /\ \A t \in DOMAIN tokens : tokens[t] \in [exp : Nat, revoked : BOOLEAN]
    /\ promised \in [Session -> Nat]

\* What exists, what is queued and what has ended was minted once, as one thing.
MintedOnce ==
    /\ DOMAIN sessions \cup DOMAIN tokens \cup DOMAIN touched \cup ended \subseteq minted
    /\ DOMAIN sessions \cap DOMAIN tokens = {}
    /\ \A s \in Session \ minted : promised[s] = 0

\* The box has had one user at most, whose id is kept while there is none.
OneUser ==
    /\ \/ drawn = 0 /\ admin = Nobody /\ previous = Nobody
       \/ drawn = 1 /\ admin = 1 /\ previous \in {1, Nobody}
       \/ drawn = 1 /\ admin = Nobody /\ previous = 1
    /\ admin = Nobody => DOMAIN sessions = {}

\* A slide that is queued has the lifetime of the row and is no older, the promise it makes is
\* no longer than it is, and a row that runs out before its promise is slid before it does.
\* Only rows that ran out are to be removed; without a touch the row says how long it lasts.
Stands(s, entry, queued, by, until) ==
    IF s \notin DOMAIN queued THEN until <= entry.exp
    ELSE IF queued[s] = Removal THEN entry.exp <= instant /\ until <= instant
    ELSE /\ queued[s].exp - queued[s].upd = entry.exp - entry.upd
         /\ entry.upd <= queued[s].upd
         /\ until <= queued[s].exp
         /\ entry.exp < until => by < entry.exp

Promises ==
    /\ \A s \in DOMAIN sessions :
          /\ sessions[s].exp - sessions[s].upd \in Lifetime
          /\ Stands(s, sessions[s], touched, flushBy, promised[s])
    /\ \A s \in (Session \ ended) \ DOMAIN sessions : promised[s] <= instant
    /\ touched # << >> => instant <= flushBy /\ flushBy <= instant + FlushEvery

AccessInv == IdentityTyped /\ MintedOnce /\ OneUser /\ Promises /\ EndedStaysOut

\* A row with other times.
Timed(entry, upd, exp) == [entry EXCEPT !.upd = upd, !.exp = exp]

LEMMA RowSet ==
    ASSUME NEW entry \in Rows, NEW upd \in Nat, NEW exp \in Nat
    PROVE  /\ Timed(entry, upd, exp) \in Rows /\ Timed(entry, upd, exp).user = entry.user
           /\ Timed(entry, upd, exp).upd = upd /\ Timed(entry, upd, exp).exp = exp
  BY DEF Rows, Timed

LEMMA NoneTouched == DOMAIN << >> = {}
  OBVIOUS

LEMMA AccessInitHolds == AccessInit => AccessInv
<1> SUFFICES ASSUME AccessInit PROVE AccessInv
  OBVIOUS
<1>1. /\ DOMAIN sessions = {} /\ DOMAIN tokens = {} /\ DOMAIN touched = {}
      /\ instant = 0 /\ flushBy = 0 /\ promised = [s \in Session |-> 0]
      /\ admin = Nobody /\ previous = Nobody /\ drawn = 0 /\ minted = {} /\ ended = {}
  BY NoneTouched DEF AccessInit
<1>2. IdentityTyped
  BY <1>1 DEF IdentityTyped
<1>3. MintedOnce /\ OneUser /\ EndedStaysOut
  BY <1>1 DEF MintedOnce, OneUser, EndedStaysOut
<1>4. Promises
  BY <1>1 DEF Promises, AccessInit
<1> QED BY <1>2, <1>3, <1>4 DEF AccessInv

\* An invariant promise is a promise kept.
LEMMA PromisesAreKept == AccessInv => SessionsKept
<1> SUFFICES ASSUME AccessInv, NEW s \in Session \ ended, instant < promised[s]
             PROVE  s \in DOMAIN sessions /\ ~Expired(s)
  BY DEF SessionsKept, PromiseKept, AccessInv
<1>1. s \in DOMAIN sessions
  BY DEF AccessInv, Promises, IdentityTyped
<1>2. /\ sessions[s].exp \in Nat /\ instant \in Nat /\ flushBy \in Nat /\ promised[s] \in Nat
      /\ Stands(s, sessions[s], touched, flushBy, promised[s])
      /\ sessions[s].upd \in Nat
      /\ sessions[s].exp - sessions[s].upd \in Lifetime
  BY <1>1 DEF AccessInv, IdentityTyped, Promises, Rows
<1>3. sessions[s].exp > instant
  <2>1. CASE s \notin DOMAIN touched
    BY <1>2, <2>1 DEF Stands
  <2>2. CASE s \in DOMAIN touched /\ touched[s] = Removal
    BY <1>2, <2>2 DEF Stands
  <2>3. CASE s \in DOMAIN touched /\ touched[s] # Removal
    <3>1. instant <= flushBy
      BY <2>3, NoneTouched DEF AccessInv, Promises
    <3> QED BY <1>2, <2>3, <3>1 DEF Stands
  <2> QED BY <2>1, <2>2, <2>3
<1> QED BY <1>1, <1>2, <1>3 DEF Expired
-------------------------------------------------------------------------------
\* What a look at a session may queue and promise.
LEMMA LookKeeps ==
    ASSUME AccessInv, NEW s \in Session,
           Unknown(s) \/ Accept(s) \/ UNCHANGED <<touches, promised>>
    PROVE  /\ DOMAIN touched' \subseteq DOMAIN touched \cup DOMAIN sessions
           /\ \A x \in DOMAIN touched' : touched'[x] \in Rows /\ touched'[x].upd <= instant
           /\ flushBy' \in Nat /\ promised' \in [Session -> Nat]
           /\ \A x \in Session \ DOMAIN sessions : promised'[x] = promised[x]
           /\ \A x \in DOMAIN sessions :
                 Stands(x, sessions[x], touched', flushBy', promised'[x])
           /\ touched' # << >> => instant <= flushBy' /\ flushBy' <= instant + FlushEvery
<1>1. CASE UNCHANGED <<touches, promised>>
  BY <1>1 DEF touches, AccessInv, IdentityTyped, Promises
<1>2. CASE s \in DOMAIN sessions
           /\ (Unknown(s) \/ Accept(s)) /\ ~UNCHANGED <<touches, promised>>
  <2> DEFINE entry == sessions[s]
               ttl == entry.exp - entry.upd
               slide == Slid(s)
  <2>1. /\ entry \in Rows /\ entry.upd \in Nat /\ entry.exp \in Nat /\ entry.user \in Nat
        /\ entry.upd <= instant /\ instant \in Nat /\ flushBy \in Nat /\ FlushEvery \in Nat
        /\ ttl \in Nat /\ ttl > 0 /\ promised \in [Session -> Nat]
        /\ Stands(s, entry, touched, flushBy, promised[s])
        /\ touched # << >> => instant <= flushBy /\ flushBy <= instant + FlushEvery
    BY <1>2, AccessAssumption DEF AccessInv, IdentityTyped, Promises, Rows
  <2>2. /\ slide \in Rows /\ slide # Removal /\ slide.upd = instant /\ slide.exp = instant + ttl
    <3>1. instant + ttl # 0 /\ instant + ttl \in Nat
      BY <2>1
    <3>2. /\ slide \in Rows /\ slide.upd = instant /\ slide.exp = instant + ttl
      <4>1. slide = Timed(entry, instant, instant + ttl)
        BY Zenon DEF Slid, Timed
      <4>2. entry \in Rows /\ instant \in Nat /\ instant + ttl \in Nat
        BY <2>1, <3>1
      <4> HIDE DEF slide, entry, ttl
      <4> QED BY <4>1, <4>2, RowSet
    <3> QED BY <3>1, <3>2 DEF Removal
  <2>3. Removal \in Rows /\ Removal.upd <= instant
    BY <2>1 DEF Removal, Rows
  <2>4. PICK what \in {Removal, slide} :
           /\ Later(s, what)
           /\ what = Removal => Expired(s) /\ promised' = promised
           /\ what # Removal =>
                 /\ ~Expired(s)
                 /\ promised' = IF entry.exp > instant + FlushEvery
                                THEN [promised EXCEPT ![s] = instant + entry.exp - entry.upd]
                                ELSE promised
    BY <1>2, <2>2 DEF Unknown, Accept, touches
  <2>5. /\ touched' = IF s \in DOMAIN touched /\ touched[s] = Removal THEN touched
                      ELSE With(touched, s, what)
        /\ flushBy' = IF touched = << >> THEN instant + FlushEvery ELSE flushBy
    BY <2>4 DEF Later
  <2>6. /\ DOMAIN touched' = DOMAIN touched \cup {s}
        /\ \A x \in DOMAIN touched' \ {s} : touched'[x] = touched[x]
        /\ touched'[s] = IF s \in DOMAIN touched /\ touched[s] = Removal THEN Removal ELSE what
    BY <2>5 DEF With
  <2>7. /\ flushBy' \in Nat /\ instant <= flushBy' /\ flushBy' <= instant + FlushEvery
        /\ DOMAIN touched # {} => flushBy' = flushBy
    <3>1. CASE touched = << >>
      BY <2>1, <2>5, <3>1, NoneTouched
    <3>2. CASE touched # << >>
      BY <2>1, <2>5, <3>2
    <3> QED BY <3>1, <3>2
  <2>8. /\ promised' \in [Session -> Nat]
        /\ \A x \in Session \ {s} : promised'[x] = promised[x]
        /\ promised'[s] = IF what # Removal /\ entry.exp > instant + FlushEvery THEN instant + ttl
                          ELSE promised[s]
    BY <2>1, <2>4
  <2>9. ASSUME NEW x \in DOMAIN sessions
        PROVE  Stands(x, sessions[x], touched', flushBy', promised'[x])
    <3>0. x \in Session /\ Stands(x, sessions[x], touched, flushBy, promised[x])
      BY DEF AccessInv, Promises, IdentityTyped
    <3>1. CASE x # s
      BY <2>6, <2>7, <2>8, <3>0, <3>1 DEF Stands
    <3>2. CASE x = s /\ what = Removal
      <4>1. entry.exp <= instant /\ promised'[s] = promised[s]
        BY <2>4, <2>8, <3>2 DEF Expired
      <4>2. promised[s] <= instant
        BY <1>2, <2>1, <2>4, <3>2, PromisesAreKept
        DEF SessionsKept, PromiseKept, AccessInv, EndedStaysOut
      <4> QED BY <2>6, <3>2, <4>1, <4>2 DEF Stands
    <3>3. CASE x = s /\ what = slide
      <4>1. entry.exp > instant
        BY <2>1, <2>2, <2>4, <3>3 DEF Expired
      <4>2. ~(s \in DOMAIN touched /\ touched[s] = Removal)
        BY <2>1, <4>1 DEF Stands
      <4>3. touched'[s] = slide /\ s \in DOMAIN touched'
        BY <2>6, <3>3, <4>2
      <4>4. promised[s] <= instant + ttl /\ (entry.exp < promised[s] => flushBy' < entry.exp)
        <5>1. CASE s \notin DOMAIN touched
          BY <2>1, <5>1 DEF Stands
        <5>2. CASE s \in DOMAIN touched
          <6>1. touched[s] \in Rows /\ touched[s].upd <= instant
            BY <5>2 DEF AccessInv, IdentityTyped
          <6> QED BY <2>1, <2>7, <4>2, <5>2, <6>1 DEF Stands, Rows
        <5> QED BY <5>1, <5>2
      <4>5. promised'[s] <= instant + ttl /\ (entry.exp < promised'[s] => flushBy' < entry.exp)
        BY <2>1, <2>7, <2>8, <3>3, <4>4
      <4> HIDE DEF slide
      <4> QED BY <2>1, <2>2, <3>3, <4>3, <4>5 DEF Stands
    <3> QED BY <2>4, <3>1, <3>2, <3>3
  <2>10. \A x \in DOMAIN touched' : touched'[x] \in Rows /\ touched'[x].upd <= instant
    <3> HIDE DEF slide
    <3> QED BY <2>1, <2>2, <2>3, <2>4, <2>6 DEF AccessInv, IdentityTyped
  <2> QED BY <1>2, <2>6, <2>7, <2>8, <2>9, <2>10
<1>3. CASE s \notin DOMAIN sessions
  BY <1>1, <1>3 DEF Unknown, Accept
<1> QED BY <1>1, <1>2, <1>3

-------------------------------------------------------------------------------
\* The steps.

\* A step that looks at a session, or at none, and takes rows away keeps everything.
LEMMA LookStep ==
    ASSUME AccessInv, NEW s \in Session,
           Unknown(s) \/ Accept(s) \/ UNCHANGED <<touches, promised>>,
           UNCHANGED <<instant, admin, previous, tokens, minted, drawn>>,
           NEW gone \in SUBSET DOMAIN sessions,
           DOMAIN sessions' = DOMAIN sessions \ gone,
           \A x \in DOMAIN sessions' : sessions'[x] = sessions[x],
           ended' = ended \cup gone
    PROVE  AccessInv'
<1>2. IdentityTyped'
  BY LookKeeps DEF AccessInv, IdentityTyped
<1>3. MintedOnce'
  BY LookKeeps DEF AccessInv, MintedOnce
<1>4. OneUser' /\ EndedStaysOut'
  BY DEF AccessInv, OneUser, EndedStaysOut, MintedOnce
<1>5. Promises'
  BY LookKeeps DEF AccessInv, Promises, Stands, IdentityTyped
<1> QED BY <1>2, <1>3, <1>4, <1>5 DEF AccessInv

LEMMA PresentKeeps == ASSUME AccessInv, NEW s \in Session, Present(s) PROVE AccessInv'
<1>1. /\ Unknown(s) \/ Accept(s) \/ UNCHANGED <<touches, promised>>
      /\ UNCHANGED <<instant, admin, previous, tokens, sessions, minted, drawn, ended>>
  BY DEF Present, Admitted, Rejected, identity
<1>2. {} \in SUBSET DOMAIN sessions /\ DOMAIN sessions' = DOMAIN sessions \ {}
      /\ ended' = ended \cup {}
  BY <1>1
<1> QED BY <1>1, <1>2, LookStep

LEMMA SignOutKeeps ==
    ASSUME AccessInv, NEW s \in Session, SignOut(s) \/ Logout(s) PROVE AccessInv'
<1>1. /\ Unknown(s) \/ Accept(s) \/ UNCHANGED <<touches, promised>>
      /\ UNCHANGED <<instant, admin, previous, tokens, minted, drawn>>
      /\ \/ s \in DOMAIN sessions /\ sessions' = Without(sessions, {s}) /\ ended' = ended \cup {s}
         \/ UNCHANGED <<sessions, ended>>
  BY DEF SignOut, Logout, Admitted, Rejected, Accept, touches
<1>2. PICK gone \in SUBSET DOMAIN sessions :
         /\ DOMAIN sessions' = DOMAIN sessions \ gone
         /\ \A x \in DOMAIN sessions' : sessions'[x] = sessions[x]
         /\ ended' = ended \cup gone
  <2>1. CASE s \in DOMAIN sessions /\ sessions' = Without(sessions, {s}) /\ ended' = ended \cup {s}
    BY <2>1 DEF Without
  <2>2. CASE UNCHANGED <<sessions, ended>>
    <3>1. {} \in SUBSET DOMAIN sessions
      OBVIOUS
    <3> QED BY <2>2, <3>1
  <2> QED BY <1>1, <2>1, <2>2
<1> QED BY <1>1, <1>2, LookStep

\* What a mint makes.
LEMMA MintKeeps ==
    ASSUME AccessInv, NEW s \in Session, NEW user, user = 1, Mint(s, user),
           UNCHANGED <<instant, tokens, touches, ended>>,
           admin' = user, previous' = previous, drawn' = 1,
           admin = user \/ DOMAIN sessions = {}
    PROVE  AccessInv'
<1> DEFINE old == {x \in DOMAIN sessions : Expired(x)}
<1>1. PICK ttl \in Lifetime :
         /\ sessions' = With(Without(sessions, old), s, [user |-> user, upd |-> instant, exp |-> instant + ttl])
         /\ promised' = [promised EXCEPT ![s] = instant + ttl]
  BY DEF Mint
<1>2. s \notin minted /\ minted' = minted \cup {s}
  BY DEF Mint
<1>3. /\ DOMAIN sessions' = (DOMAIN sessions \ old) \cup {s}
      /\ \A x \in DOMAIN sessions' \ {s} : sessions'[x] = sessions[x]
      /\ sessions'[s] = [user |-> user, upd |-> instant, exp |-> instant + ttl]
  BY <1>1 DEF With, Without
<1>4. s \notin DOMAIN sessions /\ s \notin DOMAIN touched /\ s \notin DOMAIN tokens /\ s \notin ended
  BY <1>2 DEF AccessInv, MintedOnce
<1>5. ttl \in Nat /\ ttl > 0 /\ instant \in Nat
  BY AccessAssumption DEF AccessInv, IdentityTyped
<1>6. IdentityTyped'
  <2>1. \A x \in DOMAIN sessions' : sessions'[x] \in Rows /\ sessions'[x].upd <= instant
    BY <1>3, <1>5 DEF AccessInv, IdentityTyped, Rows
  <2>2. promised' \in [Session -> Nat]
    BY <1>1, <1>5 DEF AccessInv, IdentityTyped
  <2>3. DOMAIN sessions' \subseteq Session
    BY <1>3 DEF AccessInv, IdentityTyped
  <2> QED BY <2>1, <2>2, <2>3 DEF AccessInv, IdentityTyped, touches
<1>7. MintedOnce'
  BY <1>1, <1>2, <1>3, <1>4 DEF AccessInv, MintedOnce, IdentityTyped, touches
<1>8. OneUser' /\ EndedStaysOut'
  <2>1. OneUser'
    BY AccessAssumption DEF AccessInv, OneUser
  <2>2. \A x \in DOMAIN sessions' : sessions'[x].user = user
    BY <1>3 DEF AccessInv, EndedStaysOut
  <2>3. DOMAIN sessions' \cap ended' = {}
    BY <1>3, <1>4 DEF AccessInv, EndedStaysOut
  <2> QED BY <2>1, <2>2, <2>3 DEF AccessInv, EndedStaysOut
<1>9. Promises'
  <2>1. ASSUME NEW x \in DOMAIN sessions'
        PROVE  /\ sessions'[x].exp - sessions'[x].upd \in Lifetime
               /\ Stands(x, sessions[x], touched, flushBy, promised[x])'
    <3>1. CASE x = s
      BY <1>1, <1>3, <1>4, <1>5, <3>1 DEF Stands, touches, AccessInv, IdentityTyped
    <3>2. CASE x # s
      BY <1>1, <1>3, <3>2 DEF AccessInv, Promises, Stands, IdentityTyped, touches
    <3> QED BY <3>1, <3>2
  <2>2. ASSUME NEW x \in (Session \ ended') \ DOMAIN sessions' PROVE promised'[x] <= instant'
    <3>1. promised[x] <= instant
      <4>1. CASE x \in old
        BY <4>1, PromisesAreKept DEF SessionsKept, PromiseKept, AccessInv, IdentityTyped
      <4>2. CASE x \notin old
        BY <1>3, <2>2, <4>2 DEF AccessInv, Promises
      <4> QED BY <4>1, <4>2
    <3> QED BY <1>1, <1>3, <2>2, <3>1 DEF AccessInv, IdentityTyped
  <2> QED BY <2>1, <2>2 DEF Promises, AccessInv, touches
<1> QED BY <1>6, <1>7, <1>8, <1>9 DEF AccessInv

LEMMA SignsKeep ==
    ASSUME AccessInv, NEW s \in Session, SignUp(s) \/ SignIn(s) PROVE AccessInv'
<1>1. CASE SignUp(s)
  <2>1. NewAdmin = 1 /\ drawn' = 1 /\ DOMAIN sessions = {}
    BY <1>1, AccessAssumption DEF SignUp, NewAdmin, AccessInv, OneUser
  <2> QED BY <1>1, <2>1, MintKeeps DEF SignUp
<1>2. CASE SignIn(s)
  <2>1. admin = 1 /\ drawn = 1
    BY <1>2 DEF SignIn, AccessInv, OneUser
  <2> QED BY <1>2, <2>1, MintKeeps DEF SignIn
<1> QED BY <1>1, <1>2

\* Tokens, and what only moves requests.
LEMMA TokenKeeps ==
    ASSUME AccessInv, NEW t \in Token, NEW r \in Request,
           PresentToken(t) \/ MintToken(r, t) \/ RevokeToken(r, t)
    PROVE  AccessInv'
<1>1. /\ UNCHANGED <<instant, admin, previous, sessions, touches, promised, drawn>>
      /\ minted \subseteq minted'
  BY DEF PresentToken, MintToken, RevokeToken, identity, ledger
<1>2. (\A x \in DOMAIN tokens' : tokens'[x] \in [exp : Nat, revoked : BOOLEAN])
         => IdentityTyped' /\ OneUser'
  BY <1>1 DEF AccessInv, IdentityTyped, OneUser, touches
<1>3. CASE PresentToken(t)
  BY <1>3 DEF PresentToken, identity, ledger, touches, AccessInv, IdentityTyped, OneUser, MintedOnce,
              Promises, Stands, EndedStaysOut
<1>4. CASE MintToken(r, t)
  <2>1. PICK exp \in {0, instant + 1} : tokens' = With(tokens, t, [exp |-> exp, revoked |-> FALSE])
    BY <1>4 DEF MintToken
  <2>2. /\ t \notin minted /\ minted' = minted \cup {t} /\ ended' = ended
        /\ DOMAIN tokens' = DOMAIN tokens \cup {t}
        /\ \A x \in DOMAIN tokens : x # t => tokens'[x] = tokens[x]
    BY <1>4, <2>1 DEF MintToken, With
  <2>3. MintedOnce' /\ EndedStaysOut'
    BY <1>1, <2>2 DEF AccessInv, MintedOnce, EndedStaysOut, touches
  <2>4. Promises'
    BY <1>1, <2>2 DEF AccessInv, Promises, Stands, touches
  <2>5. \A x \in DOMAIN tokens' : tokens'[x] \in [exp : Nat, revoked : BOOLEAN]
    BY <2>1, <2>2 DEF AccessInv, IdentityTyped, With
  <2> QED BY <1>2, <2>3, <2>4, <2>5 DEF AccessInv
<1>5. CASE RevokeToken(r, t)
  <2>1. /\ t \in DOMAIN tokens /\ minted' = minted /\ ended' = ended \cup {t}
        /\ tokens' = [tokens EXCEPT ![t].revoked = TRUE]
    BY <1>5 DEF RevokeToken
  <2>2. DOMAIN tokens' = DOMAIN tokens /\ \A x \in DOMAIN tokens : x # t => tokens'[x] = tokens[x]
    BY <2>1
  <2>3. tokens'[t].revoked /\ \A x \in DOMAIN tokens' : tokens'[x] \in [exp : Nat, revoked : BOOLEAN]
    BY <2>1, <2>2 DEF AccessInv, IdentityTyped
  <2>4. MintedOnce' /\ EndedStaysOut'
    BY <1>1, <2>1, <2>2, <2>3 DEF AccessInv, MintedOnce, EndedStaysOut, touches
  <2>5. Promises'
    BY <1>1, <2>1 DEF AccessInv, Promises, Stands, touches
  <2> QED BY <1>2, <2>3, <2>4, <2>5 DEF AccessInv
<1> QED BY <1>3, <1>4, <1>5

\* What a flush writes: every row that was there and is not to be removed, slid or as it was.
LEMMA FlushKeeps ==
    ASSUME AccessInv, sessions' = Flushed, touched' = << >>,
           UNCHANGED <<instant, admin, previous, tokens, flushBy, ledger>>
    PROVE  AccessInv'
<1>1. /\ DOMAIN sessions' = {s \in DOMAIN sessions : s \in DOMAIN touched => touched[s] # Removal}
      /\ \A s \in DOMAIN sessions' :
            sessions'[s] = IF s \in DOMAIN touched
                           THEN Timed(sessions[s], touched[s].upd, touched[s].exp) ELSE sessions[s]
  BY DEF Flushed, Timed
<1>2. DOMAIN touched' = {}
  BY NoneTouched
<1>3. ASSUME NEW s \in DOMAIN sessions'
      PROVE  /\ sessions'[s] \in Rows /\ sessions'[s].user = sessions[s].user
             /\ sessions'[s].upd <= instant
             /\ sessions'[s].exp - sessions'[s].upd \in Lifetime
             /\ promised[s] <= sessions'[s].exp
  <2>1. /\ s \in DOMAIN sessions /\ sessions[s] \in Rows /\ sessions[s].upd <= instant
        /\ sessions[s].exp - sessions[s].upd \in Lifetime
        /\ Stands(s, sessions[s], touched, flushBy, promised[s])
    BY <1>1 DEF AccessInv, IdentityTyped, Promises
  <2>2. CASE s \in DOMAIN touched
    <3>1. touched[s] \in Rows /\ touched[s].upd <= instant /\ touched[s] # Removal
      BY <1>1, <2>2 DEF AccessInv, IdentityTyped
    <3>2. touched[s].upd \in Nat /\ touched[s].exp \in Nat
      BY <3>1 DEF Rows
    <3>3. /\ sessions'[s] \in Rows /\ sessions'[s].user = sessions[s].user
          /\ sessions'[s].upd = touched[s].upd /\ sessions'[s].exp = touched[s].exp
      <4>1. sessions'[s] = Timed(sessions[s], touched[s].upd, touched[s].exp)
        BY <1>1, <2>2
      <4>2. sessions[s] \in Rows
        BY <2>1
      <4> DEFINE slid == Timed(sessions[s], touched[s].upd, touched[s].exp)
      <4>3. /\ slid \in Rows /\ slid.user = sessions[s].user
            /\ slid.upd = touched[s].upd /\ slid.exp = touched[s].exp
        BY ONLY <3>2, <4>2, RowSet, Zenon
      <4> QED BY ONLY <4>1, <4>3, Zenon
    <3> QED BY <2>1, <2>2, <3>1, <3>3 DEF Stands
  <2>3. CASE s \notin DOMAIN touched
    BY <1>1, <2>1, <2>3 DEF Stands
  <2> QED BY <2>2, <2>3
<1>4. IdentityTyped' /\ MintedOnce' /\ OneUser' /\ EndedStaysOut'
  BY <1>1, <1>2, <1>3 DEF AccessInv, IdentityTyped, MintedOnce, OneUser, EndedStaysOut, ledger
<1>5. Promises'
  <2>1. \A s \in DOMAIN sessions' : Stands(s, sessions[s], touched, flushBy, promised[s])'
    BY <1>2, <1>3 DEF Stands, ledger
  <2>2. ASSUME NEW s \in (Session \ ended) \ DOMAIN sessions' PROVE promised[s] <= instant
    BY <1>1 DEF AccessInv, Promises, Stands
  <2> QED BY <1>3, <2>1, <2>2 DEF Promises, ledger
<1> QED BY <1>4, <1>5 DEF AccessInv

LEMMA CrashKeeps == ASSUME AccessInv, Crash PROVE AccessInv'
<1>1. /\ touched' = << >> /\ UNCHANGED <<instant, identity, flushBy, minted, ended, drawn>>
      /\ promised' = [s \in Session |-> IF s \in DOMAIN touched /\ s \in DOMAIN sessions
                                        THEN sessions[s].exp ELSE promised[s]]
      /\ DOMAIN touched' = {}
  BY NoneTouched DEF Crash
<1>2. promised' \in [Session -> Nat]
  BY <1>1 DEF AccessInv, IdentityTyped, Rows
<1>3. IdentityTyped' /\ MintedOnce' /\ OneUser' /\ EndedStaysOut'
  BY <1>1, <1>2 DEF AccessInv, IdentityTyped, MintedOnce, OneUser, EndedStaysOut, identity
<1>4. Promises'
  <2>1. ASSUME NEW s \in DOMAIN sessions PROVE promised'[s] <= sessions[s].exp
    BY <1>1 DEF AccessInv, IdentityTyped, Promises, Stands, Rows
  <2> QED BY <1>1, <2>1 DEF AccessInv, Promises, Stands, identity, IdentityTyped
<1> QED BY <1>3, <1>4 DEF AccessInv

LEMMA ResetKeeps == ASSUME AccessInv, ResetAdmin PROVE AccessInv'
<1>1. /\ admin # Nobody /\ previous' = admin /\ admin' = Nobody
      /\ DOMAIN sessions' = {} /\ ended' = ended \cup DOMAIN sessions
      /\ UNCHANGED <<instant, tokens, touches, minted, promised, drawn>>
  BY NoneTouched DEF ResetAdmin
<1>2. IdentityTyped' /\ MintedOnce' /\ OneUser'
  BY <1>1 DEF AccessInv, IdentityTyped, MintedOnce, OneUser, touches
<1>3. EndedStaysOut'
  BY <1>1 DEF AccessInv, EndedStaysOut, MintedOnce
<1>4. Promises'
  BY <1>1 DEF AccessInv, Promises, touches
<1> QED BY <1>2, <1>3, <1>4 DEF AccessInv

LEMMA PassKeeps == ASSUME AccessInv, Pass PROVE AccessInv'
<1>1. /\ instant' = instant + 1 /\ (touched # << >> => instant < flushBy)
      /\ UNCHANGED <<identity, touches, ledger>>
  BY DEF Pass
<1>2. IdentityTyped'
  BY <1>1 DEF AccessInv, IdentityTyped, identity, touches, ledger, Rows
<1>3. MintedOnce' /\ OneUser' /\ EndedStaysOut'
  BY <1>1 DEF AccessInv, MintedOnce, OneUser, EndedStaysOut, identity, touches, ledger
<1>4. Promises'
  <2>1. ASSUME NEW s \in DOMAIN sessions
        PROVE  Stands(s, sessions[s], touched, flushBy, promised[s])'
    BY <1>1 DEF AccessInv, Promises, Stands, IdentityTyped, Rows, identity, touches, ledger
  <2>2. \A s \in (Session \ ended) \ DOMAIN sessions : promised[s] <= instant + 1
    BY DEF AccessInv, Promises, IdentityTyped
  <2>3. touched # << >> => instant + 1 <= flushBy /\ flushBy <= instant + 1 + FlushEvery
    BY <1>1, AccessAssumption DEF AccessInv, Promises, IdentityTyped
  <2> QED BY <1>1, <2>1, <2>2, <2>3 DEF AccessInv, Promises, identity, touches, ledger
<1> QED BY <1>2, <1>3, <1>4 DEF AccessInv

THEOREM AccessInvariant == AccessSpec => []AccessInv
<1>1. AccessInv /\ [AccessNext]_accessVars => AccessInv'
  <2> SUFFICES ASSUME AccessInv, [AccessNext]_accessVars PROVE AccessInv'
    OBVIOUS
  <2>1. ASSUME NEW s \in Session,
               SignUp(s) \/ SignIn(s) \/ Present(s) \/ SignOut(s) \/ Logout(s)
        PROVE  AccessInv'
    BY <2>1, SignsKeep, PresentKeeps, SignOutKeeps
  <2>2. ASSUME NEW t \in Token, PresentToken(t) PROVE AccessInv'
    <3>1. PICK r \in Request : TRUE
      BY <2>2 DEF PresentToken, Enter
    <3> QED BY <2>2, TokenKeeps
  <2>3. ASSUME NEW r \in Request, NEW t \in Token, MintToken(r, t) \/ RevokeToken(r, t) PROVE AccessInv'
    BY <2>3, TokenKeeps
  <2>4. CASE Flush \/ Stop
    BY <2>4, FlushKeeps DEF Flush, Stop
  <2>5. CASE Crash \/ ResetAdmin \/ Pass
    BY <2>5, CrashKeeps, ResetKeeps, PassKeeps
  <2>6. CASE Start \/ UNCHANGED accessVars
    BY <2>6 DEF Start, accessVars, identity, touches, ledger, AccessInv, IdentityTyped, MintedOnce,
                OneUser, Promises, Stands, EndedStaysOut
  <2> QED BY <2>1, <2>2, <2>3, <2>4, <2>5, <2>6 DEF AccessNext
<1> QED BY <1>1, AccessInitHolds, PTL DEF AccessSpec

\* What was signed out, reset or revoked never comes back, the box keeps its one user through
\* every reset, and a session that was used lasts as long as it was promised, though slides
\* are written up to a flush later (findSession, touchLater, flushTouches, resetAdmin).
THEOREM SessionsTheorem == AccessSpec => []SessionsKept
<1> QED BY AccessInvariant, PromisesAreKept, PTL

-------------------------------------------------------------------------------
\* Filters and loops over lists, by induction on their length.

LEMMA Least == ASSUME NEW T, T \subseteq Nat, T # {} PROVE \E x \in T : \A y \in T : x <= y
<1> DEFINE R == {p \in Nat \X Nat : p[1] < p[2]}
<1>0. OpToRel(<, Nat) = R
  BY Zenon DEF OpToRel
<1>1. IsWellFoundedOn(R, Nat)
  BY <1>0, NatLessThanWellFounded
<1>2. PICK x \in T : \A y \in T : <<y, x>> \notin R
  <2> HIDE DEF R
  <2> QED BY <1>1, WFMin
<1>3. ASSUME NEW y \in T PROVE x <= y
  <2>1. <<y, x>> \notin R /\ <<y, x>> \in Nat \X Nat
    BY <1>2
  <2>2. ~(y < x)
    BY <2>1
  <2> QED BY <2>2
<1> QED BY <1>3

\* What holds of 0 and of n with n - 1 holds up to N.
LEMMA UpTo ==
    ASSUME NEW N \in Nat, NEW G, 0 \in G,
           \A n \in 1 .. N : n - 1 \in G => n \in G
    PROVE  0 .. N \subseteq G
<1> DEFINE T == (0 .. N) \ G
<1> SUFFICES ASSUME T # {} PROVE FALSE
  OBVIOUS
<1>1. PICK m \in T : \A y \in T : m <= y
  <2>1. T \subseteq Nat
    OBVIOUS
  <2> HIDE DEF T
  <2> QED BY <2>1, Least
<1>2. m # 0 /\ m \in 1 .. N /\ m - 1 \in 0 .. N
  OBVIOUS
<1>3. m - 1 \notin T
  <2> HIDE DEF T
  <2> QED BY <1>1, <1>2
<1> QED BY <1>2, <1>3

\* A loop: step[n][acc] is what the n-th turn makes of acc.
Turns(f, n, base, step) == f[0] = base /\ \A k \in 1 .. n : f[k] = step[k][f[k - 1]]

LEMMA LoopRuns ==
    ASSUME NEW N \in Nat, NEW S, NEW base \in S, NEW step \in [1 .. N -> [S -> S]]
    PROVE  \E f \in [0 .. N -> S] : Turns(f, N, base, step)
<1> DEFINE G == {n \in 0 .. N : \E f \in [0 .. n -> S] : Turns(f, n, base, step)}
<1>1. 0 \in G
  <2> DEFINE f == [k \in 0 .. 0 |-> base]
  <2>1. f \in [0 .. 0 -> S] /\ Turns(f, 0, base, step)
    BY DEF Turns
  <2> HIDE DEF f
  <2> QED BY <2>1
<1>2. ASSUME NEW n \in 1 .. N, n - 1 \in G PROVE n \in G
  <2>1. PICK f \in [0 .. n - 1 -> S] : Turns(f, n - 1, base, step)
    BY <1>2
  <2> DEFINE g == [k \in 0 .. n |-> IF k = n THEN step[n][f[n - 1]] ELSE f[k]]
  <2>2. f[n - 1] \in S
    BY <2>1
  <2>3. step[n][f[n - 1]] \in S
    BY <2>2
  <2>4. g \in [0 .. n -> S]
    BY <2>1, <2>3
  <2>5. g[n] = step[n][f[n - 1]] /\ \A k \in 0 .. n - 1 : g[k] = f[k]
    OBVIOUS
  <2> HIDE DEF g
  <2>6. ASSUME NEW k \in 1 .. n PROVE g[k] = step[k][g[k - 1]]
    <3>1. g[k - 1] = f[k - 1]
      BY <2>5
    <3>2. CASE k = n
      BY <2>5, <3>1, <3>2
    <3>3. CASE k # n
      <4>1. k \in 1 .. n - 1 /\ k \in 0 .. n - 1
        BY <3>3
      <4>2. f[k] = step[k][f[k - 1]]
        BY <2>1, <4>1 DEF Turns
      <4> QED BY <2>5, <3>1, <4>1, <4>2
    <3> QED BY <3>2, <3>3
  <2>7. g[0] = base
    BY <2>1, <2>5 DEF Turns
  <2>8. Turns(g, n, base, step)
    BY <2>6, <2>7 DEF Turns
  <2>9. \E h \in [0 .. n -> S] : Turns(h, n, base, step)
    BY <2>4, <2>8
  <2> QED BY <2>9
<1>3. 0 .. N \subseteq G
  <2> HIDE DEF G
  <2> QED BY <1>1, <1>2, UpTo
<1>4. N \in G
  BY <1>3
<1> QED BY <1>4

FilterRuns(list, T, f) ==
    f = [n \in 0 .. Len(list) |->
            IF n = 0 THEN <<>>
            ELSE IF list[n] \in T THEN Append(f[n - 1], list[n]) ELSE f[n - 1]]

LEMMA FilterTurns ==
    ASSUME NEW S, NEW list \in Seq(S), NEW T, NEW f, FilterRuns(list, T, f)
    PROVE  /\ f[0] = <<>>
           /\ \A n \in 1 .. Len(list) :
                 f[n] = IF list[n] \in T THEN Append(f[n - 1], list[n]) ELSE f[n - 1]
<1>1. Len(list) \in Nat
  OBVIOUS
<1>2. 0 \in 0 .. Len(list) /\ \A n \in 1 .. Len(list) : n \in 0 .. Len(list) /\ n # 0
  BY <1>1
<1> DEFINE g == [n \in 0 .. Len(list) |->
            IF n = 0 THEN <<>>
            ELSE IF list[n] \in T THEN Append(f[n - 1], list[n]) ELSE f[n - 1]]
<1>3. f = g
  BY DEF FilterRuns
<1>4. f[0] = g[0] /\ \A n \in 1 .. Len(list) : f[n] = g[n]
  BY ONLY <1>3
<1>5. g[0] = <<>>
  BY <1>2
<1>6. \A n \in 1 .. Len(list) :
        g[n] = IF list[n] \in T THEN Append(f[n - 1], list[n]) ELSE f[n - 1]
  BY <1>2
<1> HIDE DEF g
<1> QED BY <1>4, <1>5, <1>6

LEMMA FilterUnfolds ==
    ASSUME NEW list, NEW T PROVE Filtered(list, T) = (CHOOSE f : FilterRuns(list, T, f))[Len(list)]
  BY DEF Filtered, FilterRuns

LEMMA FilterIs ==
    ASSUME NEW S, NEW list \in Seq(S), NEW T
    PROVE  \E f : FilterRuns(list, T, f) /\ f \in [0 .. Len(list) -> Seq(S)] /\ f[Len(list)] = Filtered(list, T)
<1> DEFINE N == Len(list)
           step == [n \in 1 .. N |-> [acc \in Seq(S) |->
                       IF list[n] \in T THEN Append(acc, list[n]) ELSE acc]]
<1>1. N \in Nat /\ <<>> \in Seq(S) /\ \A n \in 1 .. N : list[n] \in S
  OBVIOUS
<1>2. step \in [1 .. N -> [Seq(S) -> Seq(S)]]
  <2>1. ASSUME NEW n \in 1 .. N, NEW acc \in Seq(S)
        PROVE  (IF list[n] \in T THEN Append(acc, list[n]) ELSE acc) \in Seq(S)
    BY <1>1
  <2> QED BY <2>1
<1>3. PICK f \in [0 .. N -> Seq(S)] : Turns(f, N, <<>>, step)
  <2> HIDE DEF N, step
  <2> QED BY <1>1, <1>2, LoopRuns
<1>4. FilterRuns(list, T, f)
  <2>1. ASSUME NEW n \in 1 .. N
        PROVE  f[n] = IF list[n] \in T THEN Append(f[n - 1], list[n]) ELSE f[n - 1]
    <3>1. f[n - 1] \in Seq(S)
      BY <1>3
    <3>2. f[n] = step[n][f[n - 1]]
      BY <1>3 DEF Turns
    <3>3. step[n][f[n - 1]] = IF list[n] \in T THEN Append(f[n - 1], list[n]) ELSE f[n - 1]
      BY <3>1
    <3> QED BY <3>2, <3>3
  <2>2. f[0] = <<>>
    BY <1>3 DEF Turns
  <2> HIDE DEF step
  <2>3. \A n \in 0 .. N : n # 0 => n \in 1 .. N
    BY <1>1
  <2> QED BY <1>3, <2>1, <2>2, <2>3 DEF FilterRuns
<1> DEFINE g == CHOOSE f_1 : FilterRuns(list, T, f_1)
<1>5. FilterRuns(list, T, g)
  BY <1>4
<1>6. g \in [0 .. N -> Seq(S)]
  <2> DEFINE G == {n \in 0 .. N : g[n] \in Seq(S)}
  <2> HIDE DEF g
  <2>1. 0 \in G
    <3>1. g[0] = <<>>
      BY <1>5, FilterTurns
    <3> QED BY <1>1, <3>1
  <2>2. ASSUME NEW n \in 1 .. N, n - 1 \in G PROVE n \in G
    <3>1. g[n] = IF list[n] \in T THEN Append(g[n - 1], list[n]) ELSE g[n - 1]
      BY <1>5, FilterTurns
    <3>2. list[n] \in S /\ g[n - 1] \in Seq(S) /\ n \in 0 .. N
      BY <1>1, <2>2
    <3>3. g[n] \in Seq(S)
      BY <3>1, <3>2
    <3> QED BY <3>2, <3>3
  <2>3. 0 .. N \subseteq G
    <3> HIDE DEF G
    <3> QED BY <1>1, <2>1, <2>2, UpTo
  <2>4. g = [n \in 0 .. N |-> g[n]]
    BY <1>5 DEF FilterRuns
  <2> QED BY <2>3, <2>4
<1>7. g[N] = Filtered(list, T)
  BY FilterUnfolds
<1> QED BY <1>5, <1>6, <1>7

\* Where the elements of out stand among the first n of list: in their order, and all that pass.
Placed(out, list, T, n, at) ==
    /\ at \in [1 .. Len(out) -> 1 .. n]
    /\ \A i \in 1 .. Len(out) : out[i] = list[at[i]]
    /\ \A i, j \in 1 .. Len(out) : i < j => at[i] < at[j]
    /\ \A k \in 1 .. n : list[k] \in T => \E i \in 1 .. Len(out) : at[i] = k

\* The filter's places: strictly ahead in the list, and all that pass.
LEMMA FilterPlaces ==
    ASSUME NEW S, NEW list \in Seq(S), NEW T
    PROVE  /\ Filtered(list, T) \in Seq(S \cap T)
           /\ Len(Filtered(list, T)) <= Len(list)
           /\ \E at : Placed(Filtered(list, T), list, T, Len(list), at)
<1> DEFINE N == Len(list)
<1>1. PICK f : FilterRuns(list, T, f) /\ f \in [0 .. N -> Seq(S)] /\ f[N] = Filtered(list, T)
  BY FilterIs
<1>0. N \in Nat /\ \A n \in 1 .. N : list[n] \in S
  OBVIOUS
<1>a. /\ f[0] = <<>>
      /\ \A n \in 1 .. N : f[n] = IF list[n] \in T THEN Append(f[n - 1], list[n]) ELSE f[n - 1]
  BY <1>1, FilterTurns
<1> DEFINE G == {n \in 0 .. N : /\ f[n] \in Seq(S \cap T) /\ Len(f[n]) <= n
                                /\ \E at : Placed(f[n], list, T, n, at)}
<1> HIDE DEF N
<1>2. 0 \in G
  <2>1. Placed(f[0], list, T, 0, [i \in 1 .. 0 |-> 0])
    BY <1>a DEF Placed
  <2>2. f[0] \in Seq(S \cap T) /\ Len(f[0]) <= 0 /\ 0 \in 0 .. N
    BY <1>0, <1>a
  <2>3. \E at : Placed(f[0], list, T, 0, at)
    BY <2>1
  <2> QED BY <2>2, <2>3
<1>3. ASSUME NEW n \in 1 .. N, n - 1 \in G PROVE n \in G
  <2>1. f[n] = IF list[n] \in T THEN Append(f[n - 1], list[n]) ELSE f[n - 1]
    BY <1>a
  <2>2. PICK at : Placed(f[n - 1], list, T, n - 1, at)
    BY <1>3
  <2> DEFINE m == Len(f[n - 1])
  <2>3. f[n - 1] \in Seq(S \cap T) /\ m <= n - 1
    BY <1>3
  <2>4. m \in Nat /\ n \in 0 .. N /\ n \in Nat
    BY <1>0, <2>3
  <2>5. /\ at \in [1 .. m -> 1 .. n - 1]
        /\ \A i \in 1 .. m : f[n - 1][i] = list[at[i]]
        /\ \A i, j \in 1 .. m : i < j => at[i] < at[j]
        /\ \A k \in 1 .. n - 1 : list[k] \in T => \E i \in 1 .. m : at[i] = k
    BY <2>2 DEF Placed
  <2>6. CASE list[n] \notin T
    <3>1. f[n] = f[n - 1]
      BY <2>1, <2>6
    <3>2. at \in [1 .. m -> 1 .. n]
      BY <2>4, <2>5
    <3>3. ASSUME NEW k \in 1 .. n, list[k] \in T PROVE \E i \in 1 .. m : at[i] = k
      <4>1. k # n /\ k \in 1 .. n - 1
        BY <2>4, <2>6, <3>3
      <4> QED BY <2>5, <3>3, <4>1
    <3>4. Placed(f[n], list, T, n, at)
      BY <2>5, <3>1, <3>2, <3>3 DEF Placed
    <3>5. f[n] \in Seq(S \cap T) /\ Len(f[n]) <= n
      BY <2>3, <2>4, <3>1
    <3> QED BY <2>4, <3>4, <3>5
  <2>7. CASE list[n] \in T
    <3> DEFINE new == [i \in 1 .. m + 1 |-> IF i = m + 1 THEN n ELSE at[i]]
    <3>1. f[n] = Append(f[n - 1], list[n]) /\ list[n] \in S \cap T
      BY <1>0, <2>1, <2>7
    <3>2. f[n] \in Seq(S \cap T) /\ Len(f[n]) = m + 1 /\ f[n][m + 1] = list[n]
          /\ \A i \in 1 .. m : f[n][i] = f[n - 1][i]
      BY <2>3, <3>1
    <3>3. new \in [1 .. m + 1 -> 1 .. n]
      BY <2>4, <2>5
    <3>4. new[m + 1] = n /\ \A i \in 1 .. m : new[i] = at[i] /\ at[i] \in 1 .. n - 1
      <4>1. m + 1 \in 1 .. m + 1 /\ \A i \in 1 .. m : i \in 1 .. m + 1 /\ i # m + 1
        BY <2>4
      <4>2. \A i \in 1 .. m : at[i] \in 1 .. n - 1
        BY <2>5
      <4> HIDE DEF m
      <4> QED BY <4>1, <4>2
    <3> HIDE DEF new, m
    <3>5. \A i \in 1 .. m + 1 : i = m + 1 \/ i \in 1 .. m
      BY <2>4
    <3>6. \A i \in 1 .. m + 1 : f[n][i] = list[new[i]]
      BY <2>5, <3>2, <3>4, <3>5
    <3>7. ASSUME NEW i \in 1 .. m + 1, NEW j \in 1 .. m + 1, i < j PROVE new[i] < new[j]
      <4>1. i \in 1 .. m
        BY <2>4, <3>7
      <4>2. CASE j = m + 1
        BY <2>4, <3>4, <4>1, <4>2
      <4>3. CASE j \in 1 .. m
        BY <2>5, <3>4, <3>7, <4>1, <4>3
      <4> QED BY <3>5, <4>2, <4>3
    <3>8. ASSUME NEW k \in 1 .. n, list[k] \in T PROVE \E i \in 1 .. m + 1 : new[i] = k
      <4>1. CASE k = n
        <5>1. m + 1 \in 1 .. m + 1
          BY <2>4
        <5> QED BY <3>4, <4>1, <5>1
      <4>2. CASE k # n
        <5>1. k \in 1 .. n - 1
          BY <2>4, <4>2
        <5>2. PICK i \in 1 .. m : at[i] = k
          BY <2>5, <3>8, <5>1
        <5>3. i \in 1 .. m + 1
          BY <2>4
        <5> QED BY <3>4, <5>2, <5>3
      <4> QED BY <4>1, <4>2
    <3>9. Placed(f[n], list, T, n, new)
      BY <3>2, <3>3, <3>6, <3>7, <3>8 DEF Placed
    <3>10. Len(f[n]) <= n
      BY <2>3, <2>4, <3>2 DEF m
    <3> QED BY <2>4, <3>2, <3>9, <3>10
  <2> QED BY <2>6, <2>7
<1>4. 0 .. N \subseteq G
  <2> HIDE DEF G
  <2> QED BY <1>0, <1>2, <1>3, UpTo
<1>5. N \in G
  BY <1>0, <1>4
<1>6. PICK at : Placed(f[N], list, T, N, at)
  BY <1>5
<1>7. f[N] \in Seq(S \cap T) /\ Len(f[N]) <= N
  BY <1>5
<1> QED BY <1>1, <1>6, <1>7 DEF N

-------------------------------------------------------------------------------
\* Sign-ins: what holds of the failures that are remembered.

\* Elements of list in their order.
Sub(out, list) ==
    \E at \in [1 .. Len(out) -> 1 .. Len(list)] :
        /\ \A i \in 1 .. Len(out) : out[i] = list[at[i]]
        /\ \A i, j \in 1 .. Len(out) : i < j => at[i] < at[j]

LEMMA FilteredSub ==
    ASSUME NEW S, NEW list \in Seq(S), NEW T
    PROVE  /\ Filtered(list, T) \in Seq(S) /\ Sub(Filtered(list, T), list)
           /\ \A i \in 1 .. Len(Filtered(list, T)) : Filtered(list, T)[i] \in T
           /\ \A k \in 1 .. Len(list) : list[k] \in T =>
                 \E i \in 1 .. Len(Filtered(list, T)) : Filtered(list, T)[i] = list[k]
<1> DEFINE out == Filtered(list, T)
<1>1. PICK at : Placed(out, list, T, Len(list), at)
  BY FilterPlaces
<1>2. out \in Seq(S \cap T)
  BY FilterPlaces
<1> HIDE DEF out
<1>3. out \in Seq(S) /\ \A i \in 1 .. Len(out) : out[i] \in T
  BY <1>2
<1>4. Sub(out, list)
  BY <1>1 DEF Placed, Sub
<1>5. ASSUME NEW k \in 1 .. Len(list), list[k] \in T PROVE \E i \in 1 .. Len(out) : out[i] = list[k]
  <2>1. PICK i \in 1 .. Len(out) : at[i] = k
    BY <1>1, <1>5 DEF Placed
  <2> QED BY <1>1, <2>1 DEF Placed
<1> QED BY <1>3, <1>4, <1>5 DEF out

Entry == [ip : Ip, times : Seq(Nat)]

\* A list of entries as the limiter keeps it: one to an address, the last to fail last.
Orderly(list, t) ==
    /\ list \in Seq(Entry)
    /\ \A i \in 1 .. Len(list) : list[i].times # <<>> /\ Last(list[i].times) <= t
    /\ \A i, j \in 1 .. Len(list) : i < j =>
          list[i].ip # list[j].ip /\ Last(list[i].times) <= Last(list[j].times)

LEMMA OrderlySub ==
    ASSUME NEW t, NEW list, Orderly(list, t), NEW out \in Seq(Entry), Sub(out, list)
    PROVE  Orderly(out, t)
<1>1. PICK at \in [1 .. Len(out) -> 1 .. Len(list)] :
        /\ \A i \in 1 .. Len(out) : out[i] = list[at[i]]
        /\ \A i, j \in 1 .. Len(out) : i < j => at[i] < at[j]
  BY DEF Sub
<1>2. ASSUME NEW i \in 1 .. Len(out) PROVE out[i].times # <<>> /\ Last(out[i].times) <= t
  BY <1>1 DEF Orderly
<1>3. ASSUME NEW i \in 1 .. Len(out), NEW j \in 1 .. Len(out), i < j
      PROVE  out[i].ip # out[j].ip /\ Last(out[i].times) <= Last(out[j].times)
  <2>1. at[i] \in 1 .. Len(list) /\ at[j] \in 1 .. Len(list) /\ at[i] < at[j]
    BY <1>1, <1>3
  <2> QED BY <1>1, <2>1 DEF Orderly
<1> QED BY <1>2, <1>3 DEF Orderly

LEMMA OrderlyAppend ==
    ASSUME NEW t \in Nat, NEW list, Orderly(list, t), NEW e \in Entry, e.times # <<>>,
           Last(e.times) = t, \A i \in 1 .. Len(list) : list[i].ip # e.ip
    PROVE  Orderly(Append(list, e), t)
<1> DEFINE out == Append(list, e)
           m == Len(list)
<1>1. list \in Seq(Entry) /\ m \in Nat
  BY DEF Orderly
<1>2. out \in Seq(Entry) /\ Len(out) = m + 1 /\ out[m + 1] = e /\ \A i \in 1 .. m : out[i] = list[i]
  BY <1>1
<1> HIDE DEF out, m
<1>3. \A i \in 1 .. m + 1 : i = m + 1 \/ i \in 1 .. m
  BY <1>1
<1>4. \A i \in 1 .. m : list[i].times # <<>> /\ Last(list[i].times) <= t
  BY DEF Orderly, m
<1>5. ASSUME NEW i \in 1 .. m + 1 PROVE out[i].times # <<>> /\ Last(out[i].times) <= t
  BY <1>2, <1>3, <1>4
<1>6. ASSUME NEW i \in 1 .. m + 1, NEW j \in 1 .. m + 1, i < j
      PROVE  out[i].ip # out[j].ip /\ Last(out[i].times) <= Last(out[j].times)
  <2>1. i \in 1 .. m
    BY <1>1, <1>6
  <2>2. CASE j = m + 1
    BY <1>2, <1>4, <2>1, <2>2 DEF m
  <2>3. CASE j \in 1 .. m
    BY <1>2, <1>6, <2>1, <2>3 DEF Orderly, m
  <2> QED BY <1>3, <2>2, <2>3
<1>7. Orderly(out, t)
  BY <1>2, <1>5, <1>6 DEF Orderly
<1> QED BY <1>7 DEF out

LEMMA TailSub ==
    ASSUME NEW S, NEW list \in Seq(S), NEW n \in Nat \ {0}, n < Len(list)
    PROVE  LET out == SubSeq(list, Len(list) - n + 1, Len(list)) IN
           out \in Seq(S) /\ Len(out) = n /\ Sub(out, list)
<1> DEFINE m == Len(list)
           out == SubSeq(list, m - n + 1, m)
           at == [i \in 1 .. n |-> m - n + i]
<1>1. m \in Nat /\ m - n + 1 \in 1 .. m /\ m - n \in Nat
  OBVIOUS
<1>2. out \in Seq(S) /\ Len(out) = n /\ \A i \in 1 .. n : out[i] = list[m - n + i]
  BY <1>1
<1>3. at \in [1 .. n -> 1 .. m]
  BY <1>1
<1>4. \A i, j \in 1 .. n : i < j => at[i] < at[j]
  BY <1>1
<1>5. \A i \in 1 .. n : out[i] = list[at[i]]
  BY <1>2
<1> HIDE DEF at, out
<1>6. Sub(out, list)
  BY <1>2, <1>3, <1>4, <1>5 DEF Sub
<1> QED BY <1>2, <1>6 DEF out

----

\* The entries are what is known of each address.
Remembered(list, known) ==
    /\ \A i \in 1 .. Len(list) : known[list[i].ip] = list[i].times
    /\ \A p \in Ip : known[p] = <<>> \/ \E i \in 1 .. Len(list) : list[i].ip = p

SignInsInv ==
    /\ time \in Nat
    /\ Orderly(failures, time)
    /\ Len(failures) <= MaxIps
    /\ since \in [Ip -> Seq(Nat)]
    /\ Remembered(failures, since)

LEMMA TimesAre == ASSUME SignInsInv, NEW ip \in Ip PROVE TimesOf(ip) = since[ip]
<1>0. failures \in Seq(Entry) /\ DOMAIN failures = 1 .. Len(failures)
  BY DEF SignInsInv, Orderly
<1>1. CASE EntriesOf(ip) = {}
  <2>1. \A i \in 1 .. Len(failures) : failures[i].ip # ip
    BY <1>0, <1>1 DEF EntriesOf, Range
  <2> QED BY <1>1, <2>1 DEF TimesOf, SignInsInv, Remembered
<1>2. CASE EntriesOf(ip) # {}
  <2>1. PICK f \in EntriesOf(ip) : TimesOf(ip) = f.times
    BY <1>2 DEF TimesOf
  <2>2. PICK i \in 1 .. Len(failures) : f = failures[i] /\ f.ip = ip
    BY <1>0, <2>1 DEF EntriesOf, Range
  <2> QED BY <2>1, <2>2 DEF SignInsInv, Remembered
<1> QED BY <1>1, <1>2

LEMMA WithinType ==
    ASSUME NEW times \in Seq(Nat) PROVE Within(times) \in Seq(Nat)
  BY FilteredSub DEF Within

LEMMA OthersAre ==
    ASSUME SignInsInv, NEW ip \in Ip
    PROVE  /\ Orderly(Others(ip), time)
           /\ \A i \in 1 .. Len(Others(ip)) :
                 /\ Others(ip)[i].ip # ip
                 /\ \E k \in 1 .. Len(failures) : Others(ip)[i] = failures[k]
           /\ \A k \in 1 .. Len(failures) : failures[k].ip # ip =>
                 \E i \in 1 .. Len(Others(ip)) : Others(ip)[i] = failures[k]
           /\ Len(Others(ip)) <= MaxIps
<1> DEFINE T == {f \in Range(failures) : f.ip # ip}
           out == Others(ip)
<1>1. failures \in Seq(Entry) /\ DOMAIN failures = 1 .. Len(failures) /\ Len(failures) \in Nat
  BY DEF SignInsInv, Orderly
<1>2. out = Filtered(failures, T)
  BY DEF Others
<1>3. /\ out \in Seq(Entry) /\ Sub(out, failures)
      /\ \A i \in 1 .. Len(out) : out[i] \in T
      /\ \A k \in 1 .. Len(failures) : failures[k] \in T => \E i \in 1 .. Len(out) : out[i] = failures[k]
  <2> HIDE DEF T, out
  <2> QED BY <1>1, <1>2, FilteredSub
<1>4. Len(out) <= Len(failures)
  <2> HIDE DEF T, out
  <2> QED BY <1>1, <1>2, FilterPlaces
<1> HIDE DEF out
<1>5. Orderly(out, time)
  BY <1>3, OrderlySub DEF SignInsInv
<1>6. Len(out) <= MaxIps
  BY <1>1, <1>3, <1>4, SignInsAssumption DEF SignInsInv
<1>7. \A i \in 1 .. Len(out) : out[i].ip # ip /\ \E k \in 1 .. Len(failures) : out[i] = failures[k]
  BY <1>1, <1>3 DEF Range
<1>8. \A k \in 1 .. Len(failures) : failures[k].ip # ip => failures[k] \in T
  BY <1>1 DEF Range
<1> QED BY <1>3, <1>5, <1>6, <1>7, <1>8 DEF out

LEMMA PutIs ==
    ASSUME SignInsInv, NEW ip \in Ip
    PROVE  LET e == [ip |-> ip, times |-> Append(Within(since[ip]), time)] IN
           /\ Put(ip) = Append(Others(ip), e)
           /\ e \in Entry
           /\ Orderly(Put(ip), time)
<1> DEFINE e == [ip |-> ip, times |-> Append(Within(since[ip]), time)]
           w == Within(since[ip])
<1>1. Put(ip) = Append(Others(ip), e)
  BY TimesAre DEF Put, RecentOf
<1>2. w \in Seq(Nat)
  BY WithinType DEF SignInsInv
<1>3. time \in Nat
  BY DEF SignInsInv
<1> HIDE DEF w
<1>4. Append(w, time) \in Seq(Nat) /\ Append(w, time) # <<>> /\ Last(Append(w, time)) = time
  BY <1>2, <1>3 DEF Last
<1>5. e \in Entry /\ e.ip = ip /\ e.times # <<>> /\ Last(e.times) = time
  BY <1>4 DEF Entry, w
<1> HIDE DEF e
<1>6. Orderly(Append(Others(ip), e), time)
  BY <1>3, <1>5, OthersAre, OrderlyAppend
<1> QED BY <1>1, <1>5, <1>6 DEF e

LEMMA PruneIs ==
    ASSUME NEW list, Orderly(list, time)
    PROVE  /\ Orderly(Prune(list), time)
           /\ Len(Prune(list)) <= MaxIps
           /\ \A i \in 1 .. Len(Prune(list)) : \E k \in 1 .. Len(list) : Prune(list)[i] = list[k]
<1> DEFINE T == {f \in Range(list) : time - Last(f.times) < Window}
           live == Filtered(list, T)
<1>1. list \in Seq(Entry)
  BY DEF Orderly
<1>2. live \in Seq(Entry) /\ Sub(live, list)
  <2> HIDE DEF T
  <2> QED BY <1>1, FilteredSub
<1>3. Prune(list) = IF Len(live) <= MaxIps THEN live ELSE SubSeq(live, Len(live) - MaxIps + 1, Len(live))
  BY DEF Prune
<1> HIDE DEF live
<1>4. MaxIps \in Nat \ {0} /\ Len(live) \in Nat
  BY <1>2, SignInsAssumption
<1>5. Prune(list) \in Seq(Entry) /\ Len(Prune(list)) <= MaxIps /\ Sub(Prune(list), live)
  <2>1. CASE Len(live) <= MaxIps
    <3>1. Sub(live, live)
      <4> DEFINE at == [i \in 1 .. Len(live) |-> i]
      <4>1. at \in [1 .. Len(live) -> 1 .. Len(live)] /\ \A i \in 1 .. Len(live) : at[i] = i
        OBVIOUS
      <4> HIDE DEF at
      <4> QED BY <4>1 DEF Sub
    <3> QED BY <1>2, <1>3, <2>1, <3>1
  <2>2. CASE ~(Len(live) <= MaxIps)
    <3>1. MaxIps < Len(live)
      BY <1>4, <2>2
    <3> QED BY <1>2, <1>3, <1>4, <2>2, <3>1, TailSub
  <2> QED BY <2>1, <2>2
<1>6. Orderly(live, time)
  BY <1>2, OrderlySub
<1>7. Orderly(Prune(list), time)
  BY <1>5, <1>6, OrderlySub
<1>8. \A i \in 1 .. Len(Prune(list)) : \E k \in 1 .. Len(live) : Prune(list)[i] = live[k]
  BY <1>5 DEF Sub
<1>9. \A i \in 1 .. Len(live) : \E k \in 1 .. Len(list) : live[i] = list[k]
  BY <1>2 DEF Sub
<1> QED BY <1>5, <1>7, <1>8, <1>9

LEMMA SignInsInitial == SignInsInit => SignInsInv
<1> SUFFICES ASSUME SignInsInit PROVE SignInsInv
  OBVIOUS
<1>1. failures \in Seq(Entry) /\ Len(failures) = 0 /\ time \in Nat
  BY DEF SignInsInit
<1> QED BY <1>1, SignInsAssumption DEF SignInsInit, SignInsInv, Orderly, Remembered, Fresh

LEMMA WrongKeeps == ASSUME SignInsInv, NEW ip \in Ip, Wrong(ip) PROVE SignInsInv'
<1> DEFINE e == [ip |-> ip, times |-> Append(Within(since[ip]), time)]
           put == Put(ip)
           out == failures'
           kept == {out[i].ip : i \in DOMAIN out}
<1>1. put = Append(Others(ip), e) /\ e \in Entry /\ Orderly(put, time)
  BY PutIs
<1>2. out = Prune(put) /\ time' = time
  BY DEF Wrong
<1>3. since' = [i \in Ip |-> CASE i = ip /\ ip \in kept -> Append(Within(since[i]), time)
                               [] i # ip /\ i \in kept -> since[i]
                               [] OTHER -> <<>>]
  BY DEF Wrong
<1>4. /\ Orderly(out, time) /\ Len(out) <= MaxIps
      /\ \A i \in 1 .. Len(out) : \E k \in 1 .. Len(put) : out[i] = put[k]
  <2>1. Orderly(put, time)
    BY <1>1
  <2> HIDE DEF put
  <2>2. /\ Orderly(Prune(put), time) /\ Len(Prune(put)) <= MaxIps
        /\ \A i \in 1 .. Len(Prune(put)) : \E k \in 1 .. Len(put) : Prune(put)[i] = put[k]
    BY <2>1, PruneIs
  <2> QED BY <1>2, <2>2
<1>5. out \in Seq(Entry) /\ DOMAIN out = 1 .. Len(out)
  BY <1>4 DEF Orderly
<1>6. ASSUME NEW i \in 1 .. Len(out)
      PROVE  \/ out[i] = e
             \/ out[i].ip # ip /\ \E k \in 1 .. Len(failures) : out[i] = failures[k]
  <2>1. PICK k \in 1 .. Len(put) : out[i] = put[k]
    BY <1>4
  <2>2. Others(ip) \in Seq(Entry)
    BY OthersAre DEF Orderly
  <2> HIDE DEF e, put, out
  <2>3. put[k] = e \/ \E j \in 1 .. Len(Others(ip)) : put[k] = Others(ip)[j]
    BY <1>1, <2>2
  <2> QED BY <2>1, <2>3, OthersAre
<1>7. since' \in [Ip -> Seq(Nat)]
  <2>1. \A i \in Ip : since[i] \in Seq(Nat) /\ Append(Within(since[i]), time) \in Seq(Nat)
    BY WithinType DEF SignInsInv
  <2> HIDE DEF kept
  <2> QED BY <1>3, <2>1
<1>8. ASSUME NEW i \in 1 .. Len(out) PROVE since'[out[i].ip] = out[i].times
  <2>0. out[i] \in Entry
    BY <1>5
  <2>1. out[i].ip \in kept /\ out[i].ip \in Ip
    BY <1>5, <2>0 DEF Entry
  <2>2. CASE out[i] = e
    <3>1. out[i].ip = ip /\ out[i].times = Append(Within(since[ip]), time)
      BY <2>2
    <3> HIDE DEF e, kept
    <3> QED BY <1>3, <2>1, <3>1
  <2>3. CASE out[i].ip # ip /\ \E k \in 1 .. Len(failures) : out[i] = failures[k]
    <3>1. since[out[i].ip] = out[i].times
      BY <2>3 DEF SignInsInv, Remembered
    <3> HIDE DEF e, kept
    <3> QED BY <1>3, <2>1, <2>3, <3>1
  <2> QED BY <1>6, <2>2, <2>3
<1>9. ASSUME NEW p \in Ip PROVE since'[p] = <<>> \/ \E i \in 1 .. Len(out) : out[i].ip = p
  <2>1. CASE p \in kept
    BY <1>5, <2>1
  <2>2. CASE p \notin kept
    <3> HIDE DEF e, kept
    <3> QED BY <1>3, <2>2
  <2> QED BY <2>1, <2>2
<1>10. time \in Nat
  BY DEF SignInsInv
<1> QED BY <1>2, <1>4, <1>7, <1>8, <1>9, <1>10 DEF SignInsInv, Remembered

LEMMA RightKeeps == ASSUME SignInsInv, NEW ip \in Ip, Right(ip) PROVE SignInsInv'
<1> DEFINE out == failures'
<1>1. out = Others(ip) /\ since' = [since EXCEPT ![ip] = <<>>] /\ time' = time
  BY DEF Right
<1>2. since \in [Ip -> Seq(Nat)] /\ time \in Nat /\ failures \in Seq(Entry)
  BY DEF SignInsInv, Orderly
<1>3. since' \in [Ip -> Seq(Nat)]
  BY <1>1, <1>2
<1>4. ASSUME NEW i \in 1 .. Len(out) PROVE since'[out[i].ip] = out[i].times
  <2>1. PICK k \in 1 .. Len(failures) : out[i] = failures[k] /\ failures[k].ip # ip
    BY <1>1, OthersAre
  <2>0. failures[k] \in Entry
    BY <1>2
  <2>2. since[failures[k].ip] = failures[k].times /\ failures[k].ip \in Ip
    BY <2>0 DEF SignInsInv, Remembered, Entry
  <2> QED BY <1>1, <1>2, <2>1, <2>2
<1>5. ASSUME NEW p \in Ip PROVE since'[p] = <<>> \/ \E i \in 1 .. Len(out) : out[i].ip = p
  <2>1. CASE p = ip
    BY <1>1, <1>2, <2>1
  <2>2. CASE p # ip /\ since[p] = <<>>
    BY <1>1, <1>2, <2>2
  <2>3. CASE p # ip /\ since[p] # <<>>
    <3>1. PICK k \in 1 .. Len(failures) : failures[k].ip = p
      BY <2>3 DEF SignInsInv, Remembered
    <3> QED BY <1>1, <2>3, <3>1, OthersAre
  <2> QED BY <2>1, <2>2, <2>3
<1>6. Orderly(out, time) /\ Len(out) <= MaxIps
  BY <1>1, OthersAre
<1> QED BY <1>1, <1>2, <1>3, <1>4, <1>5, <1>6 DEF SignInsInv, Remembered

LEMMA SignInsKeep == SignInsInv /\ [SignInsNext]_signInsVars => SignInsInv'
<1> SUFFICES ASSUME SignInsInv, [SignInsNext]_signInsVars PROVE SignInsInv'
  OBVIOUS
<1>1. CASE Passes
  <2>1. time' = time + 1 /\ failures' = failures /\ since' = since /\ time \in Nat
    BY <1>1 DEF Passes, SignInsInv
  <2>2. \A i \in 1 .. Len(failures) : Last(failures[i].times) \in Nat
    <3>1. ASSUME NEW i \in 1 .. Len(failures) PROVE Last(failures[i].times) \in Nat
      <4>0. failures[i] \in Entry
        BY DEF SignInsInv, Orderly
      <4>1. failures[i].times \in Seq(Nat) /\ failures[i].times # <<>>
        BY <4>0 DEF SignInsInv, Orderly, Entry
      <4> QED BY <4>1 DEF Last
    <3> QED BY <3>1
  <2>3. Orderly(failures, time + 1)
    BY <2>1, <2>2 DEF SignInsInv, Orderly
  <2> QED BY <2>1, <2>3 DEF SignInsInv, Remembered
<1>2. CASE Reboot
  <2>1. failures' \in Seq(Entry) /\ Len(failures') = 0
    BY <1>2 DEF Reboot
  <2> QED BY <1>2, <2>1, SignInsAssumption DEF Reboot, SignInsInv, Orderly, Remembered, Fresh
<1>3. CASE UNCHANGED signInsVars
  BY <1>3 DEF signInsVars, SignInsInv, Orderly, Remembered
<1> QED BY <1>1, <1>2, <1>3, WrongKeeps, RightKeeps DEF SignInsNext

LEMMA AttemptsFollow == SignInsInv => AttemptsHold
<1> SUFFICES ASSUME SignInsInv PROVE AttemptsHold
  OBVIOUS
<1>1. \A ip \in Ip : RecentOf(ip) = Within(since[ip])
  BY TimesAre DEF RecentOf
<1>2. DOMAIN failures = 1 .. Len(failures)
  BY DEF SignInsInv, Orderly
<1> QED BY <1>1, <1>2 DEF AttemptsHold, Blocked, SignInsInv, Orderly

\* Whatever is pruned, dropped and written again, an address is turned away exactly while it
\* failed so often within the window, and the longest quiet ones are forgotten first.
THEOREM AttemptsTheorem == SignInsSpec => []AttemptsHold
<1>1. SignInsSpec => []SignInsInv
  BY SignInsInitial, SignInsKeep, PTL DEF SignInsSpec
<1> QED BY <1>1, AttemptsFollow, PTL

\* Who is let in, by a session or by a password (findSession, resetAdmin, SignInLimiter).
THEOREM AdmissionTheorem == AccessSpec /\ SignInsSpec => []AdmissionHolds
<1> QED BY SessionsTheorem, AttemptsTheorem, PTL DEF AdmissionHolds

-------------------------------------------------------------------------------
\* Secrets and bindings: what holds of the names they carry.

\* What a filter of secrets keeps.
LEMMA FilteredFrom ==
    ASSUME NEW S, NEW list \in Seq(S), NEW T
    PROVE  /\ Filtered(list, T) \in Seq(S)
           /\ \A i \in DOMAIN Filtered(list, T) :
                 Filtered(list, T)[i] \in T /\ \E k \in DOMAIN list : Filtered(list, T)[i] = list[k]
           /\ \A k \in DOMAIN list : list[k] \in T =>
                 \E i \in DOMAIN Filtered(list, T) : Filtered(list, T)[i] = list[k]
<1> DEFINE out == Filtered(list, T)
<1>1. PICK at : Placed(out, list, T, Len(list), at)
  BY FilterPlaces
<1>2. out \in Seq(S \cap T)
  BY FilterPlaces
<1> HIDE DEF out
<1>3. out \in Seq(S) /\ DOMAIN out = 1 .. Len(out) /\ \A i \in 1 .. Len(out) : out[i] \in T
  BY <1>2
<1>4. DOMAIN list = 1 .. Len(list)
  OBVIOUS
<1>5. \A i \in 1 .. Len(out) : \E k \in 1 .. Len(list) : out[i] = list[k]
  BY <1>1 DEF Placed
<1>6. ASSUME NEW k \in 1 .. Len(list), list[k] \in T PROVE \E i \in 1 .. Len(out) : out[i] = list[k]
  <2>1. PICK i \in 1 .. Len(out) : at[i] = k
    BY <1>1, <1>6 DEF Placed
  <2> QED BY <1>1, <2>1 DEF Placed
<1> QED BY <1>3, <1>4, <1>5, <1>6 DEF out

Group == {App(g) : g \in Unit}
Served == Source \cup Group
Secret == [name : SecretName, branch : BranchName \cup {Nil},
           service : Served \cup {Nil}, of : Served \cup {Nil}]
Bound == [target : Group, source : Source, of : Source \cup {Nil}]

SecretsTyped ==
    /\ kind \in Kind
    /\ reg \in Seq(Source) /\ secrets \in Seq(Secret)
    /\ units \subseteq Unit
    /\ row \in [BranchName -> SUBSET Source]
    /\ bindings \in [BranchName -> SUBSET Bound]
    /\ moving = Nil \/ moving \in [from : Source, to : Source]

\* A clone has its parent's services until it has its secrets, and nothing when it is not there.
CloneStands ==
    /\ there \in {{Main}, {Main, Clone}}
    /\ copied \in {{Main}, {Main, Clone}} /\ copied \subseteq there
    /\ there # copied => moving = Nil /\ row[Clone] = row[Main]
    /\ \A b \in BranchName \ there : row[b] = {} /\ bindings[b] = {}

\* Whoever reads the secret is there, under the name it has or, while its rename goes on, the next.
HasReader(u, registered, rows, groups, move) ==
    \/ u.service \in {App(g) : g \in groups}
    \/ /\ u.service \in registered
       /\ \/ u.service \in rows[u.branch]
          \/ move # Nil /\ u.service = move.from /\ move.to \in rows[u.branch]

Follows(u, registered, rows, groups, move, branches) ==
    u.service # Nil =>
        u.of = u.service /\ u.branch \in branches /\ HasReader(u, registered, rows, groups, move)

Placing == \A i \in DOMAIN secrets : Follows(secrets[i], Registered, row, units, moving, there)

\* One binding for a target, of a service that is on the branch or of none.
OneEach == \A b \in BranchName : \A x, y \in bindings[b] : x.target = y.target => x = y

SecretsInv ==
    /\ SecretsTyped
    /\ CloneStands
    /\ Placing
    /\ OneEach
    /\ BindingsFollow

LEMMA Kinds ==
    ASSUME SecretsTyped
    PROVE  /\ Group \cap Source = {} /\ Nil \notin Group \cup Source
           /\ Nil \notin [from : Source, to : Source]
           /\ Nil \notin BranchName /\ Main # Clone /\ BranchName = {Main, Clone}
           /\ \A n \in Source : n[1] = kind
<1>1. kind \in Kind /\ "compute" \notin Kind
  BY SecretsAssumption DEF SecretsTyped
<1>2. Source \subseteq Kind \X Label
  BY <1>1 DEF Source, Data
<1>3. \A s \in Source : s[1] = kind
  BY DEF Source, Data
<1>4. \A s \in Group : s[1] = "compute"
  BY DEF Group, App
<1>5. Group \cap Source = {}
  BY <1>1, <1>3, <1>4
<1>6. [from : Source, to : Source] \subseteq [from : Kind \X Label, to : Kind \X Label]
  BY <1>2
<1>7. Nil \notin Group \cup Source
  BY <1>2, SecretsAssumption DEF Group
<1>8. Nil \notin [from : Source, to : Source]
  BY <1>6, SecretsAssumption
<1>9. Nil \notin BranchName /\ Main # Clone /\ BranchName = {Main, Clone}
  BY SecretsAssumption DEF BranchName, Main, Clone
<1> QED BY <1>3, <1>5, <1>7, <1>8, <1>9

LEMMA SecretsInitial == SecretsInit => SecretsInv
<1> SUFFICES ASSUME SecretsInit PROVE SecretsInv
  OBVIOUS
<1>1. SecretsTyped
  BY DEF SecretsInit, SecretsTyped
<1>2. CloneStands
  BY DEF SecretsInit, CloneStands
<1>3. Placing
  BY DEF SecretsInit, Placing
<1>4. OneEach /\ BindingsFollow
  BY DEF SecretsInit, OneEach, BindingsFollow, BranchName
<1> QED BY <1>1, <1>2, <1>3, <1>4 DEF SecretsInv

\* What a list of secrets may become.

LEMMA PlacedOf ==
    ASSUME SecretsInv, NEW u, \E i \in DOMAIN secrets : u = secrets[i]
    PROVE  u \in Secret /\ Follows(u, Registered, row, units, moving, there)
  BY DEF SecretsInv, SecretsTyped, Placing

LEMMA MovedSecrets ==
    ASSUME NEW list \in Seq(Secret), NEW k \in Served, NEW n \in Served
    PROVE  /\ Moved(list, k, n) \in Seq(Secret)
           /\ DOMAIN Moved(list, k, n) = DOMAIN list
           /\ \A i \in DOMAIN list :
                 /\ Moved(list, k, n)[i].service = Follow(list[i].service, k, n)
                 /\ Moved(list, k, n)[i].of = Follow(list[i].of, k, n)
                 /\ Moved(list, k, n)[i].branch = list[i].branch
<1> DEFINE to == Moved(list, k, n)
<1>1. to = [i \in DOMAIN list |-> [list[i] EXCEPT
               !.service = Follow(@, k, n), !.of = Follow(@, k, n)]]
  BY DEF Moved
<1>2. ASSUME NEW i \in DOMAIN list
      PROVE  /\ to[i] \in Secret
             /\ to[i].service = Follow(list[i].service, k, n)
             /\ to[i].of = Follow(list[i].of, k, n)
             /\ to[i].branch = list[i].branch
  <2>1. list[i] \in Secret
    OBVIOUS
  <2>2. to[i] = [list[i] EXCEPT !.service = Follow(@, k, n), !.of = Follow(@, k, n)]
    BY <1>1
  <2> HIDE DEF to
  <2> QED BY <2>1, <2>2 DEF Secret, Follow
<1>0. DOMAIN list = 1 .. Len(list) /\ Len(list) \in Nat
  OBVIOUS
<1>3. DOMAIN to = 1 .. Len(list) /\ Len(list) \in Nat
  BY <1>0, <1>1
<1> HIDE DEF to
<1>4. to \in Seq(Secret)
  <2>1. to \in [1 .. Len(list) -> Secret]
    BY <1>1, <1>2, <1>3
  <2> QED BY <1>3, <2>1
<1> QED BY <1>1, <1>2, <1>4 DEF to

LEMMA LostSecrets ==
    ASSUME NEW list \in Seq(Secret), NEW b, NEW k
    PROVE  /\ Lost(list, b, k) \in Seq(Secret)
           /\ DOMAIN Lost(list, b, k) = DOMAIN list
           /\ \A i \in DOMAIN list :
                 \/ Lost(list, b, k)[i] = list[i]
                 \/ /\ list[i].branch = b /\ list[i].of = k
                    /\ Lost(list, b, k)[i].service = list[i].service
                    /\ Lost(list, b, k)[i].branch = b
<1> DEFINE to == Lost(list, b, k)
<1>1. to = [i \in DOMAIN list |->
        IF list[i].branch = b /\ list[i].of = k THEN [list[i] EXCEPT !.of = Nil] ELSE list[i]]
  BY DEF Lost
<1>2. ASSUME NEW i \in DOMAIN list
      PROVE  /\ to[i] \in Secret
             /\ \/ to[i] = list[i]
                \/ /\ list[i].branch = b /\ list[i].of = k
                   /\ to[i].service = list[i].service /\ to[i].branch = b
  <2>1. list[i] \in Secret
    OBVIOUS
  <2>2. to[i] = IF list[i].branch = b /\ list[i].of = k THEN [list[i] EXCEPT !.of = Nil] ELSE list[i]
    BY <1>1
  <2> HIDE DEF to
  <2> QED BY <2>1, <2>2 DEF Secret
<1>0. DOMAIN list = 1 .. Len(list) /\ Len(list) \in Nat
  OBVIOUS
<1>3. DOMAIN to = 1 .. Len(list) /\ Len(list) \in Nat
  BY <1>0, <1>1
<1> HIDE DEF to
<1>4. to \in Seq(Secret)
  <2>1. to \in [1 .. Len(list) -> Secret]
    BY <1>1, <1>2, <1>3
  <2> QED BY <1>3, <2>1
<1> QED BY <1>1, <1>2, <1>4 DEF to

\* Those that are left when a service went: unchanged, and of another service or branch.
LEMMA LeftSecrets ==
    ASSUME SecretsInv, NEW b, NEW k \in Served
    PROVE  LET left == WithoutBound(Lost(secrets, b, k), b, k) IN
           /\ left \in Seq(Secret)
           /\ \A i \in DOMAIN left : left[i].service # Nil =>
                 /\ Follows(left[i], Registered, row, units, moving, there)
                 /\ ~(left[i].service = k /\ left[i].branch = b)
<1> DEFINE lost == Lost(secrets, b, k)
           T == {u \in Range(lost) : ~(u.service = k /\ u.branch = b)}
           left == WithoutBound(lost, b, k)
<1>0. secrets \in Seq(Secret)
  BY DEF SecretsInv, SecretsTyped
<1>1. /\ lost \in Seq(Secret) /\ DOMAIN lost = DOMAIN secrets
      /\ \A i \in DOMAIN secrets :
            \/ lost[i] = secrets[i]
            \/ /\ secrets[i].branch = b /\ secrets[i].of = k
               /\ lost[i].service = secrets[i].service /\ lost[i].branch = b
  BY <1>0, LostSecrets
<1>2. left = Filtered(lost, T)
  BY DEF WithoutBound
<1> HIDE DEF lost
<1>3. /\ left \in Seq(Secret)
      /\ \A i \in DOMAIN left : left[i] \in T /\ \E j \in DOMAIN lost : left[i] = lost[j]
  <2> HIDE DEF T, left
  <2> QED BY <1>1, <1>2, FilteredFrom
<1>4. ASSUME NEW i \in DOMAIN left, left[i].service # Nil
      PROVE  /\ Follows(left[i], Registered, row, units, moving, there)
             /\ ~(left[i].service = k /\ left[i].branch = b)
  <2>1. ~(left[i].service = k /\ left[i].branch = b)
    BY <1>3
  <2> HIDE DEF T, left
  <2>2. PICK j \in DOMAIN secrets : left[i] = lost[j]
    BY <1>1, <1>3
  <2>3. Follows(secrets[j], Registered, row, units, moving, there)
    BY DEF SecretsInv, Placing
  <2>4. left[i] = secrets[j]
    <3>1. CASE /\ secrets[j].branch = b /\ secrets[j].of = k
               /\ lost[j].service = secrets[j].service /\ lost[j].branch = b
      <4>1. secrets[j].service # Nil
        BY <1>4, <2>2, <3>1
      <4>2. secrets[j].service = k
        BY <2>3, <3>1, <4>1 DEF Follows
      <4> QED BY <2>1, <2>2, <3>1, <4>2
    <3> QED BY <1>1, <2>2, <3>1
  <2> QED BY <2>1, <2>3, <2>4
<1> QED BY <1>3, <1>4 DEF left, lost

LEMMA WithoutServiceKeeps ==
    ASSUME NEW list \in Seq(Secret), NEW k
    PROVE  /\ WithoutService(list, k) \in Seq(Secret)
           /\ \A i \in DOMAIN WithoutService(list, k) :
                 /\ WithoutService(list, k)[i].service # k
                 /\ \E j \in DOMAIN list : WithoutService(list, k)[i] = list[j]
<1> DEFINE T == {u \in Range(list) : u.service # k}
           out == WithoutService(list, k)
<1>1. out = Filtered(list, T)
  BY DEF WithoutService
<1>2. out \in Seq(Secret) /\ \A i \in DOMAIN out : out[i] \in T /\ \E j \in DOMAIN list : out[i] = list[j]
  <2> HIDE DEF T, out
  <2> QED BY <1>1, FilteredFrom
<1> QED BY <1>2

LEMMA KindStays ==
    ASSUME kind' = kind
    PROVE  Source' = Source /\ Served' = Served /\ Secret' = Secret /\ Bound' = Bound /\ Group' = Group
<1>1. Source' = Source
  BY DEF Source, Data
<1>2. Served' = Served
  BY <1>1 DEF Served
<1> QED BY <1>1, <1>2 DEF Secret, Bound

\* Steps that leave the secrets alone and take no reader away.
LEMMA SameSecrets ==
    ASSUME SecretsInv, kind' = kind, secrets' = secrets,
           Registered \subseteq Registered', units \subseteq units', there \subseteq there',
           \A b \in there : row[b] \subseteq row'[b],
           moving # Nil => moving' = moving
    PROVE  secrets' \in Seq(Secret') /\ Placing'
<1>1. secrets' \in Seq(Secret')
  BY KindStays DEF SecretsInv, SecretsTyped
<1>2. ASSUME NEW i \in DOMAIN secrets
      PROVE  Follows(secrets[i], Registered', row', units', moving', there')
  <2>1. Follows(secrets[i], Registered, row, units, moving, there)
    BY DEF SecretsInv, Placing
  <2> QED BY <2>1 DEF Follows, HasReader
<1> QED BY <1>1, <1>2 DEF Placing

\* Steps that leave the branches and what they carry alone.
LEMMA SameBranches ==
    ASSUME SecretsInv, UNCHANGED <<kind, there, copied, row>>,
           there # copied => moving' = moving,
           \A b \in BranchName \ there : bindings'[b] = {}
    PROVE  CloneStands'
  BY DEF SecretsInv, CloneStands

\* Steps that at most take bindings away.
LEMMA FewerBindings ==
    ASSUME SecretsInv, UNCHANGED <<kind, there>>,
           bindings' \in [BranchName -> SUBSET Bound],
           \A b \in BranchName : bindings'[b] \subseteq bindings[b],
           \A b \in BranchName : \A x \in bindings'[b] : x.of \in row[b] => x.of \in row'[b]
    PROVE  /\ bindings' \in [BranchName -> SUBSET Bound'] /\ OneEach' /\ BindingsFollow'
           /\ \A b \in BranchName \ there : bindings'[b] = {}
<1>1. bindings' \in [BranchName -> SUBSET Bound']
  BY KindStays
<1>2. OneEach'
  BY DEF SecretsInv, OneEach
<1>3. there \subseteq BranchName
  BY DEF SecretsInv, CloneStands, BranchName
<1>4. BindingsFollow'
  BY <1>3 DEF SecretsInv, BindingsFollow
<1>5. \A b \in BranchName \ there : bindings'[b] = {}
  BY DEF SecretsInv, CloneStands
<1> QED BY <1>1, <1>2, <1>4, <1>5

LEMMA AddServiceKeeps ==
    ASSUME SecretsInv, NEW b \in BranchName, NEW k \in Source, AddService(b, k)
    PROVE  SecretsInv'
<1>0. /\ moving = Nil /\ b \in there /\ there = copied
      /\ reg' = IF k \in Registered THEN reg ELSE Append(reg, k)
      /\ row' = [row EXCEPT ![b] = @ \cup {k}]
      /\ UNCHANGED <<kind, units, apps, there, copied, secrets, bindings, moving>>
  BY DEF AddService
<1>1. SecretsTyped
  BY DEF SecretsInv
<1>2. reg' \in Seq(Source) /\ Registered \subseteq Registered'
  <2>1. reg \in Seq(Source)
    BY <1>1 DEF SecretsTyped
  <2>2. CASE k \in Registered
    BY <1>0, <2>1, <2>2 DEF Registered, Range
  <2>3. CASE k \notin Registered
    <3>1. reg' = Append(reg, k)
      BY <1>0, <2>3
    <3>2. \A i \in 1 .. Len(reg) : reg'[i] = reg[i] /\ i \in 1 .. Len(reg')
      BY <2>1, <3>1
    <3>3. DOMAIN reg = 1 .. Len(reg) /\ DOMAIN reg' = 1 .. Len(reg')
      BY <2>1, <3>1
    <3> QED BY <2>1, <3>1, <3>2, <3>3 DEF Registered, Range
  <2> QED BY <2>2, <2>3
<1>3. row' \in [BranchName -> SUBSET Source] /\ \A c \in BranchName : row[c] \subseteq row'[c]
  BY <1>0, <1>1 DEF SecretsTyped
<1>4. \A c \in BranchName \ there : row'[c] = row[c]
  BY <1>0, <1>1 DEF SecretsTyped
<1>5. there \subseteq BranchName
  BY DEF SecretsInv, CloneStands, BranchName
<1>6. secrets' \in Seq(Secret') /\ Placing'
  BY <1>0, <1>2, <1>3, <1>5, SameSecrets
<1>7. CloneStands'
  BY <1>0, <1>4 DEF SecretsInv, CloneStands
<1>8. bindings' \in [BranchName -> SUBSET Bound'] /\ OneEach' /\ BindingsFollow'
  BY <1>0, <1>1, <1>3, FewerBindings DEF SecretsTyped
<1>9. SecretsTyped'
  BY <1>0, <1>1, <1>2, <1>3, <1>6, <1>8, KindStays DEF SecretsTyped
<1> QED BY <1>6, <1>7, <1>8, <1>9 DEF SecretsInv

LEMMA RemoveServiceKeeps ==
    ASSUME SecretsInv, NEW b \in BranchName, NEW k \in Source, RemoveService(b, k)
    PROVE  SecretsInv'
<1> DEFINE left == WithoutBound(Lost(secrets, b, k), b, k)
<1>0. /\ moving = Nil /\ there = copied
      /\ row' = [row EXCEPT ![b] = @ \ {k}]
      /\ bindings' = [bindings EXCEPT ![b] = {x \in @ : x.source # k}]
      /\ UNCHANGED <<kind, units, apps, there, copied, moving>>
      /\ IF \E c \in there : k \in row'[c]
         THEN secrets' = left /\ UNCHANGED reg
         ELSE /\ reg' = Filtered(reg, Registered \ {k})
              /\ secrets' = WithoutService(left, k)
  BY DEF RemoveService, Retire
<1>1. SecretsTyped /\ there \subseteq BranchName
  BY DEF SecretsInv, CloneStands, BranchName
<1>2. k \in Served
  BY DEF Served
<1>3. row' \in [BranchName -> SUBSET Source]
      /\ \A c \in BranchName : row'[c] = IF c = b THEN row[c] \ {k} ELSE row[c]
  BY <1>0, <1>1 DEF SecretsTyped
<1>4. /\ left \in Seq(Secret)
      /\ \A i \in DOMAIN left : left[i].service # Nil =>
            /\ Follows(left[i], Registered, row, units, moving, there)
            /\ ~(left[i].service = k /\ left[i].branch = b)
  BY <1>2, LeftSecrets
<1> HIDE DEF left
<1>5. reg' \in Seq(Source) /\ secrets' \in Seq(Secret) /\ Placing'
  <2>1. CASE \E c \in there : k \in row'[c]
    <3>1. secrets' = left /\ reg' = reg /\ Registered' = Registered
      BY <1>0, <2>1 DEF Registered
    <3>2. ASSUME NEW i \in DOMAIN left PROVE Follows(left[i], Registered', row', units', moving', there')
      BY <1>0, <1>1, <1>3, <1>4, <3>1 DEF Follows, HasReader
    <3>3. Placing'
      BY <3>1, <3>2 DEF Placing
    <3> QED BY <1>1, <1>4, <3>1, <3>3 DEF SecretsTyped
  <2>2. CASE ~ \E c \in there : k \in row'[c]
    <3>1. reg' = Filtered(reg, Registered \ {k}) /\ secrets' = WithoutService(left, k)
      BY <1>0, <2>2
    <3>2. reg \in Seq(Source)
      BY <1>1 DEF SecretsTyped
    <3>3. /\ reg' \in Seq(Source)
          /\ \A r \in Registered : r # k => r \in Registered'
      <4> DEFINE T == Registered \ {k}
                 out == Filtered(reg, T)
      <4>1. out \in Seq(Source) /\ \A j \in DOMAIN reg : reg[j] \in T => \E i \in DOMAIN out : out[i] = reg[j]
        <5> HIDE DEF T
        <5> QED BY <3>2, FilteredFrom
      <4>2. reg' = out
        BY <3>1
      <4> HIDE DEF out
      <4> QED BY <4>1, <4>2 DEF Registered, Range
    <3>4. /\ secrets' \in Seq(Secret)
          /\ \A i \in DOMAIN secrets' : secrets'[i].service # k /\ \E j \in DOMAIN left : secrets'[i] = left[j]
      BY <1>4, <3>1, WithoutServiceKeeps
    <3>5. ASSUME NEW i \in DOMAIN secrets'
          PROVE  Follows(secrets'[i], Registered', row', units', moving', there')
      <4>1. PICK j \in DOMAIN left : secrets'[i] = left[j] /\ left[j].service # k
        BY <3>4
      <4> QED BY <1>0, <1>1, <1>3, <1>4, <3>3, <4>1 DEF Follows, HasReader
    <3>6. Placing'
      BY <3>5 DEF Placing
    <3> QED BY <3>3, <3>4, <3>6
  <2> QED BY <2>1, <2>2
<1>6. bindings' \in [BranchName -> SUBSET Bound]
      /\ \A c \in BranchName : bindings'[c] \subseteq bindings[c]
      /\ \A x \in bindings'[b] : x.source # k
  BY <1>0, <1>1 DEF SecretsTyped
<1>7. CloneStands'
  BY <1>0, <1>3, <1>6 DEF SecretsInv, CloneStands
<1>8. OneEach'
  BY <1>6 DEF SecretsInv, OneEach
<1>9. BindingsFollow'
  <2>1. ASSUME kind \in {"postgres", "storage"}, NEW c \in there, NEW x \in bindings'[c], x.of # Nil
        PROVE  x.source = x.of /\ x.of \in row'[c]
    <3>1. x \in bindings[c] /\ c \in BranchName
      BY <1>1, <1>6
    <3>2. x.source = x.of /\ x.of \in row[c]
      BY <2>1, <3>1 DEF SecretsInv, BindingsFollow
    <3> QED BY <1>3, <1>6, <3>1, <3>2
  <2> QED BY <1>0, <2>1 DEF BindingsFollow
<1>10. SecretsTyped'
  BY <1>0, <1>1, <1>3, <1>5, <1>6, KindStays DEF SecretsTyped
<1> QED BY <1>5, <1>7, <1>8, <1>9, <1>10 DEF SecretsInv

\* What the three renames of a data service have in common: all of them in one step or, for
\* postgres, what is left of it for the last.
LEMMA RenamedReg ==
    ASSUME SecretsTyped, NEW k \in Source, NEW n \in Source
    PROVE  /\ Renamed(k, n) \in Seq(Source)
           /\ \A r \in Registered : Follow(r, k, n) \in Range(Renamed(k, n))
<1> DEFINE to == Renamed(k, n)
<1>1. reg \in Seq(Source) /\ DOMAIN reg = 1 .. Len(reg) /\ Len(reg) \in Nat
  BY DEF SecretsTyped
<1>2. to = [i \in 1 .. Len(reg) |-> Follow(reg[i], k, n)]
  BY <1>1 DEF Renamed
<1>3. \A i \in 1 .. Len(reg) : Follow(reg[i], k, n) \in Source
  BY <1>1 DEF Follow
<1>4. to \in [1 .. Len(reg) -> Source]
  BY <1>2, <1>3
<1>5. to \in Seq(Source)
  <2> HIDE DEF to
  <2> QED BY <1>1, <1>4
<1>6. \A r \in Registered : Follow(r, k, n) \in Range(to)
  BY <1>1, <1>2 DEF Registered, Range
<1> QED BY <1>5, <1>6

LEMMA RenamedRows ==
    ASSUME SecretsTyped, NEW k \in Source, NEW n \in Source
    PROVE  /\ RowsRenamed(k, n) \in [BranchName -> SUBSET Source]
           /\ \A b \in BranchName : \A r \in row[b] : Follow(r, k, n) \in RowsRenamed(k, n)[b]
           /\ \A b \in BranchName : row[b] = {} => RowsRenamed(k, n)[b] = {}
<1>1. \A b \in BranchName : row[b] \subseteq Source
  BY DEF SecretsTyped
<1> QED BY <1>1 DEF RowsRenamed, Follow

LEMMA RenameOfAll ==
    ASSUME SecretsInv, NEW k \in Source, NEW n \in Source, MayRename(k, n),
           reg' = Renamed(k, n), row' = RowsRenamed(k, n), secrets' = Moved(secrets, k, n),
           UNCHANGED <<kind, units, there, copied, moving>>
    PROVE  /\ reg' \in Seq(Source) /\ row' \in [BranchName -> SUBSET Source]
           /\ secrets' \in Seq(Secret) /\ Placing'
           /\ \A b \in BranchName : \A r \in row[b] : Follow(r, k, n) \in row'[b]
           /\ \A b \in BranchName \ there : row'[b] = {}
<1>1. SecretsTyped /\ there \subseteq BranchName /\ \A b \in BranchName \ there : row[b] = {}
  BY DEF SecretsInv, CloneStands, BranchName
<1>2. k \in Served /\ n \in Served /\ k # Nil
  BY <1>1, Kinds DEF Served
<1>3. /\ secrets' \in Seq(Secret) /\ DOMAIN secrets' = DOMAIN secrets
      /\ \A i \in DOMAIN secrets :
                 /\ secrets'[i].service = Follow(secrets[i].service, k, n)
                 /\ secrets'[i].of = Follow(secrets[i].of, k, n)
                 /\ secrets'[i].branch = secrets[i].branch
  BY <1>1, <1>2, MovedSecrets DEF SecretsTyped
<1>4. reg' \in Seq(Source) /\ \A r \in Registered : Follow(r, k, n) \in Registered'
  BY <1>1, RenamedReg DEF Registered
<1>5. /\ row' \in [BranchName -> SUBSET Source]
      /\ \A b \in BranchName : \A r \in row[b] : Follow(r, k, n) \in row'[b]
      /\ \A b \in BranchName \ there : row'[b] = {}
  BY <1>1, RenamedRows
<1>6. ASSUME NEW i \in DOMAIN secrets' PROVE Follows(secrets'[i], Registered', row', units', moving', there')
  <2> DEFINE u == secrets[i]
             v == secrets'[i]
  <2>1. Follows(u, Registered, row, units, moving, there)
    BY <1>3 DEF SecretsInv, Placing
  <2>2. v.service = Follow(u.service, k, n) /\ v.of = Follow(u.of, k, n) /\ v.branch = u.branch
    BY <1>3
  <2> HIDE DEF u, v
  <2>3. SUFFICES ASSUME v.service # Nil
                 PROVE  v.of = v.service /\ v.branch \in there /\ HasReader(v, Registered', row', units, moving)
    BY DEF Follows, v
  <2>4. u.service # Nil
    BY <1>2, <2>2, <2>3 DEF Follow
  <2>5. u.of = u.service /\ u.branch \in there /\ HasReader(u, Registered, row, units, moving)
    BY <2>1, <2>4 DEF Follows
  <2>6. moving = Nil
    BY DEF MayRename
  <2>7. CASE u.service \in {App(g) : g \in units}
    <3>1. u.service \in Group
      BY <1>1, <2>7 DEF Group, SecretsTyped
    <3>2. v.service = u.service
      BY <1>1, <2>2, <3>1, Kinds DEF Follow
    <3> QED BY <2>2, <2>5, <2>7, <3>2 DEF HasReader
  <2>8. CASE u.service \in Registered /\ u.service \in row[u.branch]
    <3>1. v.service \in Registered' /\ v.service \in row'[v.branch]
      BY <1>1, <1>4, <1>5, <2>2, <2>5, <2>8
    <3> QED BY <2>2, <2>5, <3>1 DEF HasReader
  <2> QED BY <2>5, <2>6, <2>7, <2>8 DEF HasReader
<1> QED BY <1>3, <1>4, <1>5, <1>6 DEF Placing

LEMMA SourcedBinding ==
    ASSUME NEW set, set \subseteq Bound, NEW k \in Source, NEW n \in Source,
           \A x, y \in set : x.target = y.target => x = y
    PROVE  /\ Sourced(set, k, n) \subseteq Bound /\ Orphaned(set, k, n) \subseteq Bound
           /\ \A x, y \in Sourced(set, k, n) : x.target = y.target => x = y
           /\ \A x, y \in Orphaned(set, k, n) : x.target = y.target => x = y
           /\ \A x \in Sourced(set, k, n) : \E y \in set :
                 x.source = Follow(y.source, k, n) /\ x.of = Follow(y.of, k, n)
           /\ set = {} => Sourced(set, k, n) = {} /\ Orphaned(set, k, n) = {}
<1> DEFINE S(y) == [y EXCEPT !.source = Follow(@, k, n), !.of = Follow(@, k, n)]
           O(y) == [y EXCEPT !.of = Follow(@, k, n)]
<1>1. ASSUME NEW y \in set
      PROVE  /\ S(y) \in Bound /\ S(y).target = y.target
             /\ S(y).source = Follow(y.source, k, n) /\ S(y).of = Follow(y.of, k, n)
             /\ O(y) \in Bound /\ O(y).target = y.target
  BY DEF Bound, Follow
<1>2. Sourced(set, k, n) = {S(y) : y \in set} /\ Orphaned(set, k, n) = {O(y) : y \in set}
  BY DEF Sourced, Orphaned
<1> HIDE DEF S, O
<1> QED BY <1>1, <1>2

LEMMA RenameStorageKeeps ==
    ASSUME SecretsInv, NEW k \in Source, NEW n \in Source, RenameStorage(k, n)
    PROVE  SecretsInv'
<1>0. /\ MayRename(k, n)
      /\ reg' = Renamed(k, n) /\ row' = RowsRenamed(k, n) /\ secrets' = Moved(secrets, k, n)
      /\ bindings' = [b \in BranchName |->
                         IF k \in row[b] THEN Sourced(bindings[b], k, n) ELSE bindings[b]]
      /\ UNCHANGED <<kind, units, apps, there, copied, moving>>
  BY DEF RenameStorage
<1>1. SecretsTyped /\ there = copied /\ there \subseteq BranchName
  BY <1>0 DEF SecretsInv, MayRename, CloneStands, BranchName
<1>2. /\ reg' \in Seq(Source) /\ row' \in [BranchName -> SUBSET Source]
      /\ secrets' \in Seq(Secret) /\ Placing'
      /\ \A b \in BranchName : \A r \in row[b] : Follow(r, k, n) \in row'[b]
      /\ \A b \in BranchName \ there : row'[b] = {}
  BY <1>0, RenameOfAll
<1>3. \A b \in BranchName : /\ bindings[b] \subseteq Bound
                            /\ \A x, y \in bindings[b] : x.target = y.target => x = y
  BY <1>1 DEF SecretsTyped, SecretsInv, OneEach
<1>4. ASSUME NEW b \in BranchName
      PROVE  /\ bindings'[b] \subseteq Bound
             /\ \A x, y \in bindings'[b] : x.target = y.target => x = y
             /\ bindings[b] = {} => bindings'[b] = {}
             /\ \A x \in bindings'[b] : \E y \in bindings[b] :
                   \/ k \notin row[b] /\ x = y
                   \/ x.source = Follow(y.source, k, n) /\ x.of = Follow(y.of, k, n)
  <2>1. bindings'[b] = IF k \in row[b] THEN Sourced(bindings[b], k, n) ELSE bindings[b]
    BY <1>0
  <2>2. CASE k \in row[b]
    <3> DEFINE set == bindings[b]
               to == Sourced(set, k, n)
    <3>1. set \subseteq Bound /\ \A x, y \in set : x.target = y.target => x = y
      BY <1>3
    <3> HIDE DEF set
    <3>2. /\ to \subseteq Bound
          /\ \A x, y \in to : x.target = y.target => x = y
          /\ \A x \in to : \E y \in set :
                x.source = Follow(y.source, k, n) /\ x.of = Follow(y.of, k, n)
          /\ set = {} => to = {}
      BY <3>1, SourcedBinding
    <3>3. bindings'[b] = to
      BY <2>1, <2>2 DEF set
    <3> HIDE DEF to
    <3> QED BY <3>2, <3>3 DEF set
  <2>3. CASE k \notin row[b]
    BY <1>3, <2>1, <2>3
  <2> QED BY <2>2, <2>3
<1>5. bindings' \in [BranchName -> SUBSET Bound]
  BY <1>0, <1>4
<1>6. CloneStands'
  BY <1>0, <1>1, <1>2, <1>4 DEF SecretsInv, CloneStands
<1>7. OneEach'
  BY <1>4 DEF OneEach
<1>8. BindingsFollow'
  <2>1. ASSUME kind \in {"postgres", "storage"}, NEW b \in there, NEW x \in bindings'[b], x.of # Nil
        PROVE  x.source = x.of /\ x.of \in row'[b]
    <3>1. b \in BranchName
      BY <1>1
    <3>2. PICK y \in bindings[b] :
                   \/ k \notin row[b] /\ x = y
                   \/ x.source = Follow(y.source, k, n) /\ x.of = Follow(y.of, k, n)
      BY <1>4, <3>1
    <3>3. y.of # Nil
      BY <1>1, <2>1, <3>2, Kinds DEF Follow
    <3>4. y.source = y.of /\ y.of \in row[b]
      BY <2>1, <3>3 DEF SecretsInv, BindingsFollow
    <3>5. k \notin row[b] => Follow(y.of, k, n) = y.of
      BY <3>4 DEF Follow
    <3> QED BY <1>2, <3>1, <3>2, <3>4, <3>5
  <2> QED BY <1>0, <2>1 DEF BindingsFollow
<1>9. SecretsTyped'
  BY <1>0, <1>1, <1>2, <1>5, KindStays DEF SecretsTyped
<1> QED BY <1>2, <1>6, <1>7, <1>8, <1>9 DEF SecretsInv

LEMMA RenameManagedKeeps ==
    ASSUME SecretsInv, NEW k \in Source, NEW n \in Source, RenameManaged(k, n)
    PROVE  SecretsInv'
<1>0. /\ MayRename(k, n) /\ kind \notin {"storage", "postgres"}
      /\ reg' = Renamed(k, n) /\ row' = RowsRenamed(k, n) /\ secrets' = Moved(secrets, k, n)
      /\ bindings' = [b \in BranchName |-> Orphaned(bindings[b], k, n)]
      /\ UNCHANGED <<kind, units, apps, there, copied, moving>>
  BY DEF RenameManaged
<1>1. SecretsTyped /\ there = copied
  BY <1>0 DEF SecretsInv, MayRename
<1>2. /\ reg' \in Seq(Source) /\ row' \in [BranchName -> SUBSET Source]
      /\ secrets' \in Seq(Secret) /\ Placing'
      /\ \A b \in BranchName \ there : row'[b] = {}
  BY <1>0, RenameOfAll
<1>3. \A b \in BranchName : /\ bindings[b] \subseteq Bound
                            /\ \A x, y \in bindings[b] : x.target = y.target => x = y
  BY <1>1 DEF SecretsTyped, SecretsInv, OneEach
<1>4. ASSUME NEW b \in BranchName
      PROVE  /\ bindings'[b] \subseteq Bound
             /\ \A x, y \in bindings'[b] : x.target = y.target => x = y
             /\ bindings[b] = {} => bindings'[b] = {}
  <2>1. bindings'[b] = Orphaned(bindings[b], k, n)
    BY <1>0
  <2> DEFINE set == bindings[b]
             to == Orphaned(set, k, n)
  <2>2. set \subseteq Bound /\ \A x, y \in set : x.target = y.target => x = y
    BY <1>3
  <2> HIDE DEF set
  <2>3. /\ to \subseteq Bound
        /\ \A x, y \in to : x.target = y.target => x = y
        /\ set = {} => to = {}
    BY <2>2, SourcedBinding
  <2>4. bindings'[b] = to
    BY <2>1 DEF set
  <2> HIDE DEF to
  <2> QED BY <2>3, <2>4 DEF set
<1>5. bindings' \in [BranchName -> SUBSET Bound]
  BY <1>0, <1>4
<1>6. CloneStands'
  BY <1>0, <1>1, <1>2, <1>4 DEF SecretsInv, CloneStands
<1>7. OneEach'
  BY <1>4 DEF OneEach
<1>8. BindingsFollow'
  BY <1>0 DEF BindingsFollow
<1>9. SecretsTyped'
  BY <1>0, <1>1, <1>2, <1>5, KindStays DEF SecretsTyped
<1> QED BY <1>2, <1>6, <1>7, <1>8, <1>9 DEF SecretsInv

LEMMA RenamePostgresKeeps ==
    ASSUME SecretsInv, NEW k \in Source, NEW n \in Source, RenamePostgres(k, n)
    PROVE  SecretsInv'
<1>0. /\ MayRename(k, n) /\ moving' = [from |-> k, to |-> n]
      /\ UNCHANGED <<kind, reg, row, units, apps, there, copied, secrets, bindings>>
  BY DEF RenamePostgres
<1>1. SecretsTyped /\ there = copied /\ moving = Nil
  BY <1>0 DEF SecretsInv, MayRename
<1>2. secrets' \in Seq(Secret') /\ Placing'
  BY <1>0, <1>1, SameSecrets DEF Registered
<1>3. CloneStands'
  BY <1>0, <1>1 DEF SecretsInv, CloneStands
<1>4. OneEach' /\ BindingsFollow'
  BY <1>0 DEF SecretsInv, OneEach, BindingsFollow
<1>5. SecretsTyped'
  BY <1>0, <1>1, <1>2, KindStays DEF SecretsTyped
<1> QED BY <1>2, <1>3, <1>4, <1>5 DEF SecretsInv

LEMMA RenameOnBranchKeeps ==
    ASSUME SecretsInv, NEW b \in BranchName, RenameOnBranch(b)
    PROVE  SecretsInv'
<1> DEFINE k == moving.from
           n == moving.to
<1>0. /\ moving # Nil /\ k \in row[b]
      /\ row' = [row EXCEPT ![b] = (@ \ {k}) \cup {n}]
      /\ bindings' = [bindings EXCEPT ![b] = Sourced(@, k, n)]
      /\ UNCHANGED <<kind, reg, units, apps, there, copied, secrets, moving>>
  BY DEF RenameOnBranch
<1>1. SecretsTyped /\ there = copied /\ there \subseteq BranchName
  BY <1>0 DEF SecretsInv, CloneStands, BranchName
<1>2. k \in Source /\ n \in Source /\ b \in there
  BY <1>0, <1>1 DEF SecretsTyped, SecretsInv, CloneStands
<1>3. row' \in [BranchName -> SUBSET Source]
      /\ \A c \in BranchName : row'[c] = IF c = b THEN (row[c] \ {k}) \cup {n} ELSE row[c]
  BY <1>0, <1>1, <1>2 DEF SecretsTyped
<1>4. secrets' \in Seq(Secret') /\ Placing'
  <2>1. ASSUME NEW i \in DOMAIN secrets
        PROVE  Follows(secrets[i], Registered, row', units, moving, there)
    <3>1. Follows(secrets[i], Registered, row, units, moving, there)
      BY DEF SecretsInv, Placing
    <3> QED BY <1>0, <1>1, <1>3, <3>1 DEF Follows, HasReader
  <2>2. Registered' = Registered
    BY <1>0 DEF Registered
  <2>3. secrets' \in Seq(Secret')
    BY <1>0, <1>1, KindStays DEF SecretsTyped
  <2> QED BY <1>0, <2>1, <2>2, <2>3 DEF Placing
<1>5. /\ bindings[b] \subseteq Bound /\ \A x, y \in bindings[b] : x.target = y.target => x = y
      /\ bindings'[b] = Sourced(bindings[b], k, n)
      /\ \A c \in BranchName : c # b => bindings'[c] = bindings[c]
  BY <1>0, <1>1 DEF SecretsTyped, SecretsInv, OneEach
<1>6. /\ bindings'[b] \subseteq Bound
      /\ \A x, y \in bindings'[b] : x.target = y.target => x = y
      /\ \A x \in bindings'[b] : \E y \in bindings[b] :
            x.source = Follow(y.source, k, n) /\ x.of = Follow(y.of, k, n)
  <2> DEFINE set == bindings[b]
             to == Sourced(set, k, n)
  <2>1. set \subseteq Bound /\ \A x, y \in set : x.target = y.target => x = y
    BY <1>5
  <2> HIDE DEF set, k, n
  <2>2. /\ to \subseteq Bound
        /\ \A x, y \in to : x.target = y.target => x = y
        /\ \A x \in to : \E y \in set :
              x.source = Follow(y.source, k, n) /\ x.of = Follow(y.of, k, n)
    BY <1>2, <2>1, SourcedBinding
  <2>3. bindings'[b] = to
    BY <1>5 DEF set
  <2> HIDE DEF to
  <2> QED BY <2>2, <2>3 DEF set
<1>7. bindings' \in [BranchName -> SUBSET Bound]
  BY <1>0, <1>1, <1>5, <1>6 DEF SecretsTyped
<1>8. CloneStands'
  BY <1>0, <1>1, <1>2, <1>3, <1>5 DEF SecretsInv, CloneStands
<1>9. OneEach'
  BY <1>5, <1>6 DEF SecretsInv, OneEach
<1>10. BindingsFollow'
  <2>1. ASSUME kind \in {"postgres", "storage"}, NEW c \in there, NEW x \in bindings'[c], x.of # Nil
        PROVE  x.source = x.of /\ x.of \in row'[c]
    <3>1. c \in BranchName
      BY <1>1
    <3>2. CASE c # b
      BY <1>3, <1>5, <2>1, <3>1, <3>2 DEF SecretsInv, BindingsFollow
    <3>3. CASE c = b
      <4>1. PICK y \in bindings[b] : x.source = Follow(y.source, k, n) /\ x.of = Follow(y.of, k, n)
        BY <1>6, <2>1, <3>3
      <4>2. y.of # Nil
        BY <1>1, <1>2, <2>1, <4>1, Kinds DEF Follow
      <4>3. y.source = y.of /\ y.of \in row[b]
        BY <1>2, <2>1, <4>2 DEF SecretsInv, BindingsFollow
      <4> QED BY <1>3, <3>1, <3>3, <4>1, <4>3 DEF Follow
    <3> QED BY <3>2, <3>3
  <2> QED BY <1>0, <2>1 DEF BindingsFollow
<1>11. SecretsTyped'
  BY <1>0, <1>1, <1>3, <1>4, <1>7, KindStays DEF SecretsTyped
<1> QED BY <1>4, <1>8, <1>9, <1>10, <1>11 DEF SecretsInv

LEMMA RenameOnProjectKeeps == ASSUME SecretsInv, RenameOnProject PROVE SecretsInv'
<1> DEFINE k == moving.from
           n == moving.to
<1>0. /\ moving # Nil /\ \A b \in there : k \notin row[b]
      /\ reg' = Renamed(k, n) /\ secrets' = Moved(secrets, k, n) /\ moving' = Nil
      /\ UNCHANGED <<kind, row, units, apps, there, copied, bindings>>
  BY DEF RenameOnProject
<1>1. SecretsTyped /\ there = copied /\ there \subseteq BranchName
  BY <1>0 DEF SecretsInv, CloneStands, BranchName
<1>2. k \in Source /\ n \in Source /\ k \in Served /\ n \in Served /\ k # Nil
  <2>1. k \in Source /\ n \in Source
    BY <1>0, <1>1 DEF SecretsTyped
  <2> QED BY <1>1, <2>1, Kinds DEF Served
<1> HIDE DEF k, n
<1>3. /\ secrets' \in Seq(Secret) /\ DOMAIN secrets' = DOMAIN secrets
      /\ \A i \in DOMAIN secrets :
                 /\ secrets'[i].service = Follow(secrets[i].service, k, n)
                 /\ secrets'[i].of = Follow(secrets[i].of, k, n)
                 /\ secrets'[i].branch = secrets[i].branch
  BY <1>0, <1>1, <1>2, MovedSecrets DEF SecretsTyped
<1>4. reg' \in Seq(Source) /\ \A r \in Registered : Follow(r, k, n) \in Registered'
  BY <1>0, <1>1, <1>2, RenamedReg DEF Registered
<1>5. ASSUME NEW i \in DOMAIN secrets' PROVE Follows(secrets'[i], Registered', row', units', moving', there')
  <2> DEFINE u == secrets[i]
             v == secrets'[i]
  <2>1. Follows(u, Registered, row, units, moving, there)
    BY <1>3 DEF SecretsInv, Placing
  <2>2. v.service = Follow(u.service, k, n) /\ v.of = Follow(u.of, k, n) /\ v.branch = u.branch
    BY <1>3
  <2> HIDE DEF u, v
  <2>3. SUFFICES ASSUME v.service # Nil
                 PROVE  v.of = v.service /\ v.branch \in there /\ HasReader(v, Registered', row, units, Nil)
    BY <1>0 DEF Follows, v
  <2>4. u.service # Nil
    BY <1>2, <2>2, <2>3 DEF Follow
  <2>5. u.of = u.service /\ u.branch \in there /\ HasReader(u, Registered, row, units, moving)
    BY <2>1, <2>4 DEF Follows
  <2>6. CASE u.service \in {App(g) : g \in units}
    <3>1. u.service \in Group
      BY <1>1, <2>6 DEF Group, SecretsTyped
    <3>2. v.service = u.service
      BY <1>1, <1>2, <2>2, <3>1, Kinds DEF Follow
    <3> QED BY <2>2, <2>5, <2>6, <3>2 DEF HasReader
  <2>7. CASE /\ u.service \in Registered
             /\ \/ u.service \in row[u.branch]
                \/ u.service = k /\ n \in row[u.branch]
    <3>1. v.service \in Registered'
      BY <1>4, <2>2, <2>7
    <3>2. v.service \in row[v.branch]
      BY <1>0, <2>2, <2>5, <2>7 DEF Follow
    <3> QED BY <2>2, <2>5, <3>1, <3>2 DEF HasReader
  <2> QED BY <2>5, <2>6, <2>7 DEF HasReader, k, n
<1>6. Placing'
  BY <1>5 DEF Placing
<1>7. CloneStands'
  BY <1>0, <1>1 DEF SecretsInv, CloneStands
<1>8. OneEach' /\ BindingsFollow'
  BY <1>0 DEF SecretsInv, OneEach, BindingsFollow
<1>9. SecretsTyped'
  BY <1>0, <1>1, <1>3, <1>4, KindStays DEF SecretsTyped
<1> QED BY <1>6, <1>7, <1>8, <1>9 DEF SecretsInv

\* Steps of compute groups, and those of people: nothing moves on the data side.
LEMMA OnlyMore ==
    ASSUME SecretsInv, UNCHANGED <<kind, reg, row, there, copied, secrets, moving>>,
           units' \subseteq Unit, units \subseteq units',
           bindings' \in [BranchName -> SUBSET Bound],
           OneEach', BindingsFollow',
           \A b \in BranchName \ there : bindings'[b] = {}
    PROVE  SecretsInv'
<1>1. SecretsTyped /\ there \subseteq BranchName
  BY DEF SecretsInv, CloneStands, BranchName
<1>2. Registered' = Registered
  BY DEF Registered
<1>3. secrets' \in Seq(Secret') /\ Placing'
  BY <1>1, <1>2, SameSecrets
<1>4. CloneStands'
  BY SameBranches
<1>5. SecretsTyped'
  BY <1>1, <1>3, KindStays DEF SecretsTyped
<1> QED BY <1>3, <1>4, <1>5 DEF SecretsInv

LEMMA AddUnitKeeps == ASSUME SecretsInv, NEW g \in Unit, AddUnit(g) PROVE SecretsInv'
<1>1. SecretsTyped
  BY DEF SecretsInv
<1>2. bindings' \in [BranchName -> SUBSET Bound] /\ OneEach' /\ BindingsFollow'
      /\ \A b \in BranchName \ there : bindings'[b] = {}
  BY <1>1 DEF AddUnit, SecretsTyped, SecretsInv, OneEach, BindingsFollow, CloneStands
<1> QED BY <1>1, <1>2, OnlyMore DEF AddUnit, SecretsTyped

LEMMA DeployKeeps ==
    ASSUME SecretsInv, NEW b \in BranchName, NEW g \in Unit, Deploy(b, g) PROVE SecretsInv'
<1>1. SecretsTyped
  BY DEF SecretsInv
<1>2. bindings' \in [BranchName -> SUBSET Bound] /\ OneEach' /\ BindingsFollow'
      /\ \A c \in BranchName \ there : bindings'[c] = {}
  BY <1>1 DEF Deploy, SecretsTyped, SecretsInv, OneEach, BindingsFollow, CloneStands
<1> QED BY <1>1, <1>2, OnlyMore DEF Deploy, SecretsTyped

LEMMA SetBindingKeeps ==
    ASSUME SecretsInv, NEW b \in BranchName, NEW g \in Unit, NEW k \in Source, SetBinding(b, g, k)
    PROVE  SecretsInv'
<1> DEFINE new == [target |-> App(g), source |-> k, of |-> IF k \in row[b] THEN k ELSE Nil]
<1>1. /\ b \in there
      /\ bindings' = [bindings EXCEPT ![b] = {x \in @ : x.target # App(g)} \cup {new}]
      /\ UNCHANGED <<kind, reg, row, units, apps, there, copied, secrets, moving>>
  BY DEF SetBinding
<1>2. SecretsTyped /\ there \subseteq BranchName
  BY DEF SecretsInv, CloneStands, BranchName
<1>3. new \in Bound /\ new.target = App(g) /\ (new.of # Nil => new.source = new.of /\ new.of \in row[b])
  BY DEF Bound, Group
<1> HIDE DEF new
<1>4. /\ bindings'[b] = {x \in bindings[b] : x.target # App(g)} \cup {new}
      /\ \A c \in BranchName : c # b => bindings'[c] = bindings[c]
  BY <1>1, <1>2 DEF SecretsTyped
<1>5. bindings' \in [BranchName -> SUBSET Bound]
  BY <1>1, <1>2, <1>3, <1>4 DEF SecretsTyped
<1>6. OneEach'
  BY <1>3, <1>4 DEF SecretsInv, OneEach
<1>7. BindingsFollow'
  <2>1. ASSUME kind \in {"postgres", "storage"}, NEW c \in there, NEW x \in bindings'[c], x.of # Nil
        PROVE  x.source = x.of /\ x.of \in row[c]
    <3>1. CASE x \in bindings[c]
      BY <2>1, <3>1 DEF SecretsInv, BindingsFollow
    <3>2. CASE x = new /\ c = b
      BY <1>3, <2>1, <3>2
    <3> QED BY <1>2, <1>4, <2>1, <3>1, <3>2
  <2> QED BY <1>1, <2>1 DEF BindingsFollow
<1>8. \A c \in BranchName \ there : bindings'[c] = {}
  BY <1>1, <1>4 DEF SecretsInv, CloneStands
<1> QED BY <1>1, <1>2, <1>5, <1>6, <1>7, <1>8, OnlyMore DEF SecretsTyped

LEMMA UnsetBindingKeeps ==
    ASSUME SecretsInv, NEW b \in BranchName, NEW g \in Unit, UnsetBinding(b, g)
    PROVE  SecretsInv'
<1>1. /\ bindings' = [bindings EXCEPT ![b] = {x \in @ : x.target # App(g)}]
      /\ UNCHANGED <<kind, reg, row, units, apps, there, copied, secrets, moving>>
  BY DEF UnsetBinding
<1>2. SecretsTyped
  BY DEF SecretsInv
<1>3. bindings' \in [BranchName -> SUBSET Bound] /\ \A c \in BranchName : bindings'[c] \subseteq bindings[c]
  BY <1>1, <1>2 DEF SecretsTyped
<1>4. /\ OneEach' /\ BindingsFollow'
      /\ \A c \in BranchName \ there : bindings'[c] = {}
  BY <1>1, <1>3, FewerBindings
<1> QED BY <1>1, <1>2, <1>3, <1>4, OnlyMore DEF SecretsTyped

LEMMA RemoveUnitKeeps ==
    ASSUME SecretsInv, NEW b \in BranchName, NEW g \in Unit, RemoveUnit(b, g)
    PROVE  SecretsInv'
<1> DEFINE k == App(g)
           left == WithoutBound(Lost(secrets, b, k), b, k)
<1>0. /\ b \in there /\ g \in units
      /\ bindings' = IF g \in apps[b] THEN [bindings EXCEPT ![b] = {x \in @ : x.target # k}] ELSE bindings
      /\ IF \E c \in there : g \in apps'[c]
         THEN secrets' = left /\ UNCHANGED units
         ELSE units' = units \ {g} /\ secrets' = WithoutService(left, k)
      /\ UNCHANGED <<kind, reg, row, there, copied, moving>>
  BY DEF RemoveUnit
<1>1. SecretsTyped
  BY DEF SecretsInv
<1>2. k \in Served
  BY DEF Served, Group
<1>3. /\ left \in Seq(Secret)
      /\ \A i \in DOMAIN left : left[i].service # Nil =>
            /\ Follows(left[i], Registered, row, units, moving, there)
            /\ ~(left[i].service = k /\ left[i].branch = b)
  BY <1>2, LeftSecrets
<1> HIDE DEF left
<1>4. Registered' = Registered
  BY <1>0 DEF Registered
<1>5. units' \subseteq Unit /\ secrets' \in Seq(Secret) /\ Placing'
  <2>1. CASE \E c \in there : g \in apps'[c]
    <3>1. secrets' = left /\ units' = units
      BY <1>0, <2>1
    <3>2. ASSUME NEW i \in DOMAIN left PROVE Follows(left[i], Registered', row', units', moving', there')
      BY <1>0, <1>3, <1>4, <3>1 DEF Follows
    <3>3. Placing'
      BY <3>1, <3>2 DEF Placing
    <3> QED BY <1>1, <1>3, <3>1, <3>3 DEF SecretsTyped
  <2>2. CASE ~ \E c \in there : g \in apps'[c]
    <3>1. secrets' = WithoutService(left, k) /\ units' = units \ {g}
      BY <1>0, <2>2
    <3> HIDE DEF k
    <3>2. /\ secrets' \in Seq(Secret)
          /\ \A i \in DOMAIN secrets' : secrets'[i].service # k /\ \E j \in DOMAIN left : secrets'[i] = left[j]
      BY <1>3, <3>1, WithoutServiceKeeps
    <3>3. ASSUME NEW i \in DOMAIN secrets'
          PROVE  Follows(secrets'[i], Registered', row', units', moving', there')
      <4>1. PICK j \in DOMAIN left : secrets'[i] = left[j] /\ left[j].service # k
        BY <3>2
      <4>2. left[j].service \in {App(h) : h \in units} => left[j].service \in {App(h) : h \in units'}
        BY <3>1, <4>1 DEF k
      <4> QED BY <1>0, <1>3, <1>4, <4>1, <4>2 DEF Follows, HasReader
    <3>4. Placing'
      BY <3>3 DEF Placing
    <3> QED BY <1>1, <3>1, <3>2, <3>4 DEF SecretsTyped
  <2> QED BY <2>1, <2>2
<1>6. bindings' \in [BranchName -> SUBSET Bound] /\ \A c \in BranchName : bindings'[c] \subseteq bindings[c]
  BY <1>0, <1>1 DEF SecretsTyped
<1>7. /\ OneEach' /\ BindingsFollow'
      /\ \A c \in BranchName \ there : bindings'[c] = {}
  BY <1>0, <1>6, FewerBindings
<1>8. CloneStands'
  BY <1>0, <1>7, SameBranches
<1>9. SecretsTyped'
  BY <1>0, <1>1, <1>5, <1>6, KindStays DEF SecretsTyped
<1> QED BY <1>5, <1>7, <1>8, <1>9 DEF SecretsInv

LEMMA RenameUnitKeeps ==
    ASSUME SecretsInv, NEW g \in Unit, NEW new \in Unit, RenameUnit(g, new)
    PROVE  SecretsInv'
<1> DEFINE k == App(g)
           n == App(new)
<1>0. /\ g \in units /\ new \notin units
      /\ units' = (units \ {g}) \cup {new}
      /\ secrets' = Moved(secrets, k, n)
      /\ UNCHANGED <<kind, reg, row, there, copied, bindings, moving>>
  BY DEF RenameUnit
<1>1. SecretsTyped
  BY DEF SecretsInv
<1>2. k \in Group /\ n \in Group /\ k \in Served /\ n \in Served
  BY DEF Served, Group
<1>a. k # Nil /\ k \notin Source
  BY <1>1, <1>2, Kinds
<1>3. /\ secrets' \in Seq(Secret) /\ DOMAIN secrets' = DOMAIN secrets
      /\ \A i \in DOMAIN secrets :
                 /\ secrets'[i].service = Follow(secrets[i].service, k, n)
                 /\ secrets'[i].of = Follow(secrets[i].of, k, n)
                 /\ secrets'[i].branch = secrets[i].branch
  <2> HIDE DEF k, n
  <2> QED BY <1>0, <1>1, <1>2, MovedSecrets DEF SecretsTyped
<1>4. Registered' = Registered /\ Registered \subseteq Source
  BY <1>0, <1>1 DEF Registered, Range, SecretsTyped
<1>5. \A s \in {App(h) : h \in units} : Follow(s, k, n) \in {App(h) : h \in units'}
  BY <1>0 DEF Follow
<1> HIDE DEF k, n
<1>6. ASSUME NEW i \in DOMAIN secrets' PROVE Follows(secrets'[i], Registered', row', units', moving', there')
  <2> DEFINE u == secrets[i]
             v == secrets'[i]
  <2>1. Follows(u, Registered, row, units, moving, there)
    BY <1>3 DEF SecretsInv, Placing
  <2>2. v.service = Follow(u.service, k, n) /\ v.of = Follow(u.of, k, n) /\ v.branch = u.branch
    BY <1>3
  <2> HIDE DEF u, v
  <2>3. SUFFICES ASSUME v.service # Nil
                 PROVE  v.of = v.service /\ v.branch \in there /\ HasReader(v, Registered, row, units', moving)
    BY <1>0, <1>4 DEF Follows, v
  <2>4. u.service # Nil
    BY <1>a, <2>2, <2>3 DEF Follow
  <2>5. u.of = u.service /\ u.branch \in there /\ HasReader(u, Registered, row, units, moving)
    BY <2>1, <2>4 DEF Follows
  <2>6. CASE u.service \in {App(h) : h \in units}
    BY <1>5, <2>2, <2>5, <2>6 DEF HasReader
  <2>7. CASE u.service \in Registered
    <3>1. v.service = u.service
      BY <1>4, <1>a, <2>2, <2>7 DEF Follow
    <3>2. u.service \notin {App(h) : h \in units}
      <4>1. {App(h) : h \in units} \subseteq Group
        BY <1>1 DEF Group, SecretsTyped
      <4> QED BY <1>1, <1>4, <2>7, <4>1, Kinds
    <3> QED BY <2>2, <2>5, <3>1, <3>2 DEF HasReader
  <2> QED BY <2>5, <2>6, <2>7 DEF HasReader
<1>7. Placing'
  BY <1>6 DEF Placing
<1>8. /\ OneEach' /\ BindingsFollow'
      /\ \A b \in BranchName \ there : bindings'[b] = {}
  BY <1>0 DEF SecretsInv, OneEach, BindingsFollow, CloneStands
<1>9. CloneStands'
  BY <1>0, <1>8, SameBranches
<1>10. SecretsTyped'
  BY <1>0, <1>1, <1>3, KindStays DEF SecretsTyped
<1> QED BY <1>7, <1>8, <1>9, <1>10 DEF SecretsInv

LEMMA CreateCloneKeeps == ASSUME SecretsInv, CreateClone PROVE SecretsInv'
<1>0. /\ Clone \notin there /\ moving = Nil
      /\ there' = there \cup {Clone}
      /\ row' = [row EXCEPT ![Clone] = row[Main]]
      /\ UNCHANGED <<kind, reg, units, copied, secrets, bindings, moving>>
  BY DEF CreateClone
<1>1. SecretsTyped /\ CloneStands /\ there \subseteq BranchName
  BY DEF SecretsInv, CloneStands, BranchName
<1>2. Main # Clone /\ BranchName = {Main, Clone}
  BY <1>1, Kinds
<1>3. row' \in [BranchName -> SUBSET Source] /\ row'[Clone] = row[Main] /\ row'[Main] = row[Main]
  BY <1>0, <1>1, <1>2 DEF SecretsTyped
<1>4. row[Clone] = {} /\ bindings[Clone] = {} /\ there = {Main} /\ copied = {Main}
  BY <1>0, <1>1, <1>2 DEF CloneStands
<1>5. Registered' = Registered
  BY <1>0 DEF Registered
<1>6. secrets' \in Seq(Secret') /\ Placing'
  BY <1>0, <1>3, <1>4, <1>5, SameSecrets
<1>7. CloneStands'
  BY <1>0, <1>2, <1>3, <1>4 DEF CloneStands
<1>8. OneEach'
  BY <1>0 DEF SecretsInv, OneEach
<1>9. BindingsFollow'
  <2>1. ASSUME kind \in {"postgres", "storage"}, NEW c \in there', NEW x \in bindings[c], x.of # Nil
        PROVE  x.source = x.of /\ x.of \in row'[c]
    <3>1. c = Main
      BY <1>0, <1>4, <2>1
    <3> QED BY <1>3, <1>4, <2>1, <3>1 DEF SecretsInv, BindingsFollow
  <2> QED BY <1>0, <2>1 DEF BindingsFollow
<1>10. SecretsTyped'
  BY <1>0, <1>1, <1>3, <1>6, KindStays DEF SecretsTyped
<1> QED BY <1>6, <1>7, <1>8, <1>9, <1>10 DEF SecretsInv

LEMMA CopySecretsKeeps == ASSUME SecretsInv, CopySecrets PROVE SecretsInv'
<1> DEFINE T == {u \in Range(secrets) : u.branch = Main}
           own == Filtered(secrets, T)
           new == [i \in DOMAIN own |-> [own[i] EXCEPT !.branch = Clone]]
<1>0. /\ there # copied /\ copied' = there
      /\ secrets' = secrets \o new
      /\ bindings' = IF bindings[Main] = {} THEN bindings ELSE [bindings EXCEPT ![Clone] = bindings[Main]]
      /\ UNCHANGED <<kind, reg, row, units, apps, there, moving>>
  BY DEF CopySecrets
<1>1. SecretsTyped /\ CloneStands /\ there \subseteq BranchName /\ secrets \in Seq(Secret)
  BY DEF SecretsInv, SecretsTyped, CloneStands, BranchName
<1>2. Main # Clone /\ BranchName = {Main, Clone} /\ Nil \notin BranchName
  BY <1>1, Kinds
<1>3. there = {Main, Clone} /\ row[Clone] = row[Main] /\ moving = Nil
  BY <1>0, <1>1, <1>2 DEF CloneStands
<1>4. /\ own \in Seq(Secret)
      /\ \A i \in DOMAIN own : own[i] \in T /\ \E j \in DOMAIN secrets : own[i] = secrets[j]
  <2> HIDE DEF T
  <2> QED BY <1>1, FilteredFrom
<1>5. \A i \in DOMAIN own : own[i].branch = Main
  BY <1>4
<1> HIDE DEF own
<1>6. ASSUME NEW i \in DOMAIN own
      PROVE  new[i] \in Secret /\ Follows(new[i], Registered, row, units, moving, there)
  <2> DEFINE u == own[i]
             v == new[i]
  <2>1. u \in Secret /\ Follows(u, Registered, row, units, moving, there) /\ u.branch = Main
    BY <1>4, <1>5 DEF SecretsInv, Placing
  <2>2. v = [u EXCEPT !.branch = Clone]
    OBVIOUS
  <2> HIDE DEF u, v
  <2>3. v \in Secret /\ v.branch = Clone /\ v.service = u.service /\ v.of = u.of
    BY <1>2, <2>1, <2>2 DEF Secret
  <2>4. Follows(v, Registered, row, units, moving, there)
    BY <1>3, <2>1, <2>3 DEF Follows, HasReader
  <2> QED BY <2>3, <2>4 DEF v
<1>7. DOMAIN own = 1 .. Len(own) /\ Len(own) \in Nat /\ DOMAIN new = DOMAIN own
  BY <1>4
<1> HIDE DEF new
<1>8. new \in Seq(Secret)
  <2>1. new \in [1 .. Len(own) -> Secret]
    BY <1>6, <1>7 DEF new
  <2> QED BY <1>7, <2>1
<1>9. secrets' \in Seq(Secret)
  BY <1>0, <1>1, <1>8
<1>10. \A i \in DOMAIN secrets' : (\E j \in DOMAIN secrets : secrets'[i] = secrets[j])
                                  \/ \E j \in DOMAIN new : secrets'[i] = new[j]
  BY <1>0, <1>1, <1>8
<1>11. Registered' = Registered
  BY <1>0 DEF Registered
<1>12. ASSUME NEW i \in DOMAIN secrets' PROVE Follows(secrets'[i], Registered', row', units', moving', there')
  <2>1. CASE \E j \in DOMAIN secrets : secrets'[i] = secrets[j]
    BY <1>0, <1>11, <2>1 DEF SecretsInv, Placing
  <2>2. CASE \E j \in DOMAIN new : secrets'[i] = new[j]
    BY <1>0, <1>6, <1>7, <1>11, <2>2
  <2> QED BY <1>10, <2>1, <2>2
<1>13. Placing'
  BY <1>12 DEF Placing
<1>14. /\ bindings' \in [BranchName -> SUBSET Bound]
       /\ bindings'[Main] = bindings[Main]
       /\ bindings'[Clone] = bindings[Main] \/ bindings'[Clone] = bindings[Clone]
  BY <1>0, <1>1, <1>2 DEF SecretsTyped
<1>15. OneEach'
  BY <1>2, <1>14 DEF SecretsInv, OneEach
<1>16. BindingsFollow'
  <2>1. ASSUME kind \in {"postgres", "storage"}, NEW c \in there, NEW x \in bindings'[c], x.of # Nil
        PROVE  x.source = x.of /\ x.of \in row[c]
    <3>1. x \in bindings[Main] \/ x \in bindings[Clone]
      BY <1>3, <1>14
    <3>2. x.source = x.of /\ (x.of \in row[Main] \/ x.of \in row[Clone])
      BY <1>3, <2>1, <3>1 DEF SecretsInv, BindingsFollow
    <3> QED BY <1>3, <3>2
  <2> QED BY <1>0, <2>1 DEF BindingsFollow
<1>17. CloneStands'
  BY <1>0, <1>2, <1>3 DEF CloneStands
<1>18. SecretsTyped'
  BY <1>0, <1>1, <1>9, <1>14, KindStays DEF SecretsTyped
<1> QED BY <1>13, <1>15, <1>16, <1>17, <1>18 DEF SecretsInv

LEMMA DeleteCloneKeeps == ASSUME SecretsInv, DeleteClone PROVE SecretsInv'
<1> DEFINE T == {u \in Range(secrets) : u.branch # Clone}
<1>0. /\ Clone \in copied /\ moving = Nil
      /\ there' = {Main} /\ copied' = {Main}
      /\ row' = [row EXCEPT ![Clone] = {}]
      /\ bindings' = [bindings EXCEPT ![Clone] = {}]
      /\ secrets' = Filtered(secrets, T)
      /\ UNCHANGED <<kind, reg, units, moving>>
  BY DEF DeleteClone
<1>1. SecretsTyped /\ CloneStands /\ secrets \in Seq(Secret)
  BY DEF SecretsInv, SecretsTyped
<1>2. Main # Clone /\ BranchName = {Main, Clone}
  BY <1>1, Kinds
<1>3. /\ secrets' \in Seq(Secret)
      /\ \A i \in DOMAIN secrets' : secrets'[i] \in T /\ \E j \in DOMAIN secrets : secrets'[i] = secrets[j]
  <2> HIDE DEF T
  <2> QED BY <1>0, <1>1, FilteredFrom
<1>4. /\ row' \in [BranchName -> SUBSET Source] /\ bindings' \in [BranchName -> SUBSET Bound]
      /\ row'[Main] = row[Main] /\ row'[Clone] = {}
      /\ bindings'[Main] = bindings[Main] /\ bindings'[Clone] = {}
  BY <1>0, <1>1, <1>2 DEF SecretsTyped
<1>5. Registered' = Registered
  BY <1>0 DEF Registered
<1>6. ASSUME NEW i \in DOMAIN secrets' PROVE Follows(secrets'[i], Registered', row', units', moving', there')
  <2>1. PICK j \in DOMAIN secrets : secrets'[i] = secrets[j]
    BY <1>3
  <2>2. Follows(secrets[j], Registered, row, units, moving, there) /\ secrets[j].branch # Clone
    BY <1>3, <2>1 DEF SecretsInv, Placing
  <2>3. there \subseteq {Main, Clone}
    BY <1>1 DEF CloneStands
  <2> QED BY <1>0, <1>4, <1>5, <2>1, <2>2, <2>3 DEF Follows, HasReader
<1>7. Placing'
  BY <1>6 DEF Placing
<1>8. OneEach'
  BY <1>2, <1>4 DEF SecretsInv, OneEach
<1>9. BindingsFollow'
  <2>1. Main \in there
    BY <1>1 DEF CloneStands
  <2> QED BY <1>0, <1>4, <2>1 DEF SecretsInv, BindingsFollow
<1>10. CloneStands'
  BY <1>0, <1>2, <1>4 DEF CloneStands
<1>11. SecretsTyped'
  BY <1>0, <1>1, <1>3, <1>4, KindStays DEF SecretsTyped
<1> QED BY <1>7, <1>8, <1>9, <1>10, <1>11 DEF SecretsInv

\* Steps that change the list of secrets only.
LEMMA OnlySecrets ==
    ASSUME SecretsInv, UNCHANGED <<kind, reg, row, units, there, copied, bindings, moving>>,
           secrets' \in Seq(Secret),
           \A i \in DOMAIN secrets' : Follows(secrets'[i], Registered, row, units, moving, there)
    PROVE  SecretsInv'
<1>1. SecretsTyped
  BY DEF SecretsInv
<1>2. Registered' = Registered
  BY DEF Registered
<1>3. Placing'
  BY <1>2 DEF Placing
<1>4. OneEach' /\ BindingsFollow' /\ \A b \in BranchName \ there : bindings'[b] = {}
  BY DEF SecretsInv, OneEach, BindingsFollow, CloneStands
<1>5. CloneStands'
  BY <1>4, SameBranches
<1>6. SecretsTyped'
  BY <1>1, KindStays DEF SecretsTyped
<1> QED BY <1>3, <1>4, <1>5, <1>6 DEF SecretsInv

LEMMA UnsetSecretKeeps ==
    ASSUME SecretsInv, NEW n, NEW b, NEW s, UnsetSecret(n, b, {s})
    PROVE  SecretsInv'
<1> DEFINE T == {u \in Range(secrets) : ~(u.name = n /\ u.branch = b /\ u.service \in {s})}
<1>0. /\ secrets' = Filtered(secrets, T)
      /\ UNCHANGED <<kind, reg, row, units, apps, there, copied, bindings, moving>>
  BY DEF UnsetSecret
<1>1. secrets \in Seq(Secret)
  BY DEF SecretsInv, SecretsTyped
<1>2. /\ secrets' \in Seq(Secret)
      /\ \A i \in DOMAIN secrets' : \E j \in DOMAIN secrets : secrets'[i] = secrets[j]
  <2> HIDE DEF T
  <2> QED BY <1>0, <1>1, FilteredFrom
<1>3. \A i \in DOMAIN secrets' : Follows(secrets'[i], Registered, row, units, moving, there)
  BY <1>2 DEF SecretsInv, Placing
<1> QED BY <1>0, <1>2, <1>3, OnlySecrets

LEMMA SetSecretKeeps ==
    ASSUME SecretsInv, NEW n \in SecretName, NEW b \in BranchName \cup {Nil},
           NEW s \in {Nil} \cup Source \cup Group, SetSecret(n, b, s)
    PROVE  SecretsInv'
<1> DEFINE given == [name |-> n, branch |-> b, service |-> s, of |-> s]
<1>0. /\ b \in there \cup {Nil} /\ (s # Nil => b # Nil /\ s \in Bindable(b))
      /\ secrets' = Written(n, b, s)
      /\ UNCHANGED <<kind, reg, row, units, apps, there, copied, bindings, moving>>
  BY DEF SetSecret
<1>1. secrets \in Seq(Secret) /\ DOMAIN secrets = 1 .. Len(secrets)
  BY DEF SecretsInv, SecretsTyped
<1>2. given \in Secret
  BY DEF Secret, Served
<1>3. Follows(given, Registered, row, units, moving, there)
  BY <1>0 DEF Follows, HasReader, Bindable, Carries
<1>4. \E i : secrets' = IF i = 0 THEN Append(secrets, given) ELSE [secrets EXCEPT ![i] = given]
  BY <1>0 DEF Written, SelectInSeq
<1> HIDE DEF given
<1>5. PICK i : secrets' = IF i = 0 THEN Append(secrets, given) ELSE [secrets EXCEPT ![i] = given]
  BY <1>4
<1>6. secrets' \in Seq(Secret) /\ \A j \in DOMAIN secrets' :
         secrets'[j] = given \/ \E l \in DOMAIN secrets : secrets'[j] = secrets[l]
  <2>1. CASE i = 0
    BY <1>1, <1>2, <1>5, <2>1
  <2>2. CASE i # 0
    <3>1. secrets' = [secrets EXCEPT ![i] = given]
      BY <1>5, <2>2
    <3>2. DOMAIN secrets' = DOMAIN secrets /\ \A j \in DOMAIN secrets : secrets'[j] = IF j = i THEN given ELSE secrets[j]
      BY <3>1
    <3>3. secrets' \in [1 .. Len(secrets) -> Secret]
      <4>1. secrets \in [1 .. Len(secrets) -> Secret]
        BY <1>1
      <4> QED BY <1>2, <3>1, <4>1
    <3>4. Len(secrets) \in Nat
      BY <1>1
    <3> QED BY <3>2, <3>3, <3>4
  <2> QED BY <2>1, <2>2
<1>7. \A j \in DOMAIN secrets' : Follows(secrets'[j], Registered, row, units, moving, there)
  BY <1>3, <1>6 DEF SecretsInv, Placing
<1> QED BY <1>0, <1>6, <1>7, OnlySecrets

LEMMA SecretsKeep == SecretsInv /\ [SecretsNext]_secretsVars => SecretsInv'
<1> SUFFICES ASSUME SecretsInv, [SecretsNext]_secretsVars PROVE SecretsInv'
  OBVIOUS
<1>1. CASE UNCHANGED secretsVars
  <2>1. SecretsTyped /\ \A i \in DOMAIN secrets : Follows(secrets[i], Registered, row, units, moving, there)
    BY DEF SecretsInv, Placing
  <2> QED BY <1>1, <2>1, OnlySecrets DEF secretsVars, SecretsTyped
<1>2. ASSUME NEW b \in BranchName, NEW k \in Source, AddService(b, k) \/ RemoveService(b, k)
      PROVE  SecretsInv'
  BY <1>2, AddServiceKeeps, RemoveServiceKeeps
<1>3. ASSUME NEW k \in Source, NEW n \in Source,
             RenameStorage(k, n) \/ RenameManaged(k, n) \/ RenamePostgres(k, n)
      PROVE  SecretsInv'
  BY <1>3, RenameStorageKeeps, RenameManagedKeeps, RenamePostgresKeeps
<1>4. ASSUME NEW b \in BranchName, RenameOnBranch(b) PROVE SecretsInv'
  BY <1>4, RenameOnBranchKeeps
<1>5. ASSUME NEW g \in Unit, AddUnit(g) \/ \E new \in Unit : RenameUnit(g, new) PROVE SecretsInv'
  BY <1>5, AddUnitKeeps, RenameUnitKeeps
<1>6. ASSUME NEW b \in BranchName, NEW g \in Unit, Deploy(b, g) \/ RemoveUnit(b, g) \/ UnsetBinding(b, g)
      PROVE  SecretsInv'
  BY <1>6, DeployKeeps, RemoveUnitKeeps, UnsetBindingKeeps
<1>7. ASSUME NEW n \in SecretName, NEW b \in BranchName \cup {Nil},
             NEW s \in {Nil} \cup Source \cup {App(g) : g \in Unit},
             SetSecret(n, b, s) \/ UnsetSecret(n, b, {s})
      PROVE  SecretsInv'
  BY <1>7, SetSecretKeeps, UnsetSecretKeeps DEF Group
<1>8. ASSUME NEW b \in BranchName, NEW g \in Unit, NEW k \in Source, SetBinding(b, g, k) PROVE SecretsInv'
  BY <1>8, SetBindingKeeps
<1>9. CASE SecretsNext
  BY <1>9, <1>2, <1>3, <1>4, <1>5, <1>6, <1>7, <1>8,
     RenameOnProjectKeeps, CreateCloneKeeps, CopySecretsKeeps, DeleteCloneKeeps DEF SecretsNext
<1> QED BY <1>1, <1>9

\* The loop of MintedFor.

Mints(b, f) ==
    f = [n \in 0 .. Len(reg) |->
            IF n = 0 THEN [names |-> {}, aliased |-> FALSE]
            ELSE IF reg[n] \notin row[b] THEN f[n - 1]
            ELSE [names |-> f[n - 1].names \cup {Append(reg[n], "suffixed")}
                               \cup IF f[n - 1].aliased THEN {} ELSE {Append(reg[n], "canonical")},
                  aliased |-> TRUE]]

LEMMA MintedUnfolds == ASSUME NEW b PROVE MintedFor(b) = (CHOOSE f : Mints(b, f))[Len(reg)].names
  BY DEF MintedFor, Mints

\* The place of the first registration with a row on the branch.
First(b, i) == i \in DOMAIN reg /\ reg[i] \in row[b] /\ \A j \in DOMAIN reg : j < i => reg[j] \notin row[b]

Names(b, n) ==
    {Append(reg[i], "suffixed") : i \in {i \in 1 .. n : reg[i] \in row[b]}}
      \cup {Append(reg[i], "canonical") : i \in {i \in 1 .. n : First(b, i)}}

LEMMA MintedIs ==
    ASSUME SecretsTyped, NEW b
    PROVE  MintedFor(b) = Names(b, Len(reg))
<1> DEFINE N == Len(reg)
           All == UNION {{Append(reg[i], "suffixed"), Append(reg[i], "canonical")} : i \in 1 .. N}
           S == [names : SUBSET All, aliased : BOOLEAN]
           base == [names |-> {}, aliased |-> FALSE]
           Turn(n, acc) ==
               IF reg[n] \notin row[b] THEN acc
               ELSE [names |-> acc.names \cup {Append(reg[n], "suffixed")}
                                  \cup IF acc.aliased THEN {} ELSE {Append(reg[n], "canonical")},
                     aliased |-> TRUE]
           step == [n \in 1 .. N |-> [acc \in S |-> Turn(n, acc)]]
<1>1. N \in Nat /\ DOMAIN reg = 1 .. N /\ base \in S
  BY DEF SecretsTyped
<1>2. ASSUME NEW n \in 1 .. N, NEW acc \in S PROVE Turn(n, acc) \in S
  <2>1. Append(reg[n], "suffixed") \in All /\ Append(reg[n], "canonical") \in All
    OBVIOUS
  <2> HIDE DEF All
  <2> QED BY <2>1
<1> HIDE DEF Turn, S, N
<1>3. step \in [1 .. N -> [S -> S]]
  BY <1>2
<1>4. PICK f \in [0 .. N -> S] : Turns(f, N, base, step)
  <2> HIDE DEF base, step
  <2> QED BY <1>1, <1>3, LoopRuns
<1>5. f[0] = base /\ \A n \in 1 .. N : f[n] = Turn(n, f[n - 1])
  <2>1. ASSUME NEW n \in 1 .. N PROVE f[n] = Turn(n, f[n - 1])
    <3>1. n - 1 \in 0 .. N
      BY <1>1
    <3>2. f[n - 1] \in S
      BY <1>4, <3>1
    <3>3. f[n] = step[n][f[n - 1]]
      BY <1>4 DEF Turns
    <3> QED BY <3>2, <3>3
  <2> QED BY <1>4, <2>1 DEF Turns
<1> HIDE DEF step
<1>6. Mints(b, f)
  <2>1. \A n \in 0 .. N : n # 0 => n \in 1 .. N
    BY <1>1
  <2>2. f = [n \in 0 .. N |-> IF n = 0 THEN base ELSE Turn(n, f[n - 1])]
    BY <1>4, <1>5, <2>1
  <2> QED BY <2>2 DEF Mints, Turn, N
<1> DEFINE g == CHOOSE h : Mints(b, h)
<1>7. Mints(b, g)
  BY <1>6
<1> HIDE DEF g
<1>8. g[0] = base /\ \A n \in 1 .. N : g[n] = Turn(n, g[n - 1])
  <2>1. g = [n \in 0 .. N |-> IF n = 0 THEN base ELSE Turn(n, g[n - 1])]
    BY <1>7 DEF Mints, Turn, N
  <2>2. 0 \in 0 .. N /\ \A n \in 1 .. N : n \in 0 .. N /\ n # 0
    BY <1>1
  <2> DEFINE h == [n \in 0 .. N |-> IF n = 0 THEN base ELSE Turn(n, g[n - 1])]
  <2>3. g[0] = h[0] /\ \A n \in 1 .. N : g[n] = h[n]
    BY ONLY <2>1
  <2>4. h[0] = base /\ \A n \in 1 .. N : h[n] = Turn(n, g[n - 1])
    BY <2>2
  <2> QED BY <2>3, <2>4
<1> DEFINE Seen(n) == \E i \in 1 .. n : reg[i] \in row[b]
           G == {n \in 0 .. N : g[n].names = Names(b, n) /\ (g[n].aliased <=> Seen(n))}
<1>9. 0 \in G
  <2>1. Names(b, 0) = {} /\ ~Seen(0)
    BY DEF Names
  <2>2. g[0] = [names |-> {}, aliased |-> FALSE]
    BY <1>8
  <2>3. g[0].names = {} /\ ~g[0].aliased
    BY <2>2
  <2>4. 0 \in 0 .. N
    BY <1>1
  <2> HIDE DEF Seen
  <2> QED BY <2>1, <2>3, <2>4
<1>10. ASSUME NEW n \in 1 .. N, n - 1 \in G PROVE n \in G
  <2>1. g[n] = Turn(n, g[n - 1]) /\ g[n - 1].names = Names(b, n - 1) /\ (g[n - 1].aliased <=> Seen(n - 1))
    BY <1>8, <1>10
  <2>2. 1 .. n = (1 .. n - 1) \cup {n} /\ n \notin 1 .. n - 1 /\ n \in 0 .. N /\ n \in Nat
    BY <1>1
  <2>3. First(b, n) <=> reg[n] \in row[b] /\ ~Seen(n - 1)
    BY <1>1, <2>2 DEF First
  <2>4. Names(b, n) = Names(b, n - 1)
                        \cup (IF reg[n] \in row[b] THEN {Append(reg[n], "suffixed")} ELSE {})
                        \cup (IF First(b, n) THEN {Append(reg[n], "canonical")} ELSE {})
    BY <2>2 DEF Names
  <2>5. Seen(n) <=> Seen(n - 1) \/ reg[n] \in row[b]
    BY <2>2
  <2> HIDE DEF Seen
  <2>6. CASE reg[n] \notin row[b]
    BY <2>1, <2>2, <2>3, <2>4, <2>5, <2>6 DEF Turn
  <2>7. CASE reg[n] \in row[b]
    <3>1. /\ g[n].names = Names(b, n - 1) \cup {Append(reg[n], "suffixed")}
                             \cup IF Seen(n - 1) THEN {} ELSE {Append(reg[n], "canonical")}
          /\ g[n].aliased = TRUE
      BY <2>1, <2>7 DEF Turn
    <3>2. g[n].names = Names(b, n)
      BY <2>3, <2>4, <2>7, <3>1
    <3>3. g[n].aliased <=> Seen(n)
      BY <2>5, <2>7, <3>1
    <3> QED BY <2>2, <3>2, <3>3
  <2> QED BY <2>6, <2>7
<1>11. 0 .. N \subseteq G
  <2> HIDE DEF G
  <2> QED BY <1>1, <1>9, <1>10, UpTo
<1>12. g[N].names = Names(b, N)
  <2>1. N \in 0 .. N
    BY <1>1
  <2>2. \A n \in G : g[n].names = Names(b, n)
    OBVIOUS
  <2> HIDE DEF G
  <2> QED BY <1>11, <2>1, <2>2
<1> QED BY <1>12, MintedUnfolds DEF g, N

LEMMA AliasIs ==
    ASSUME SecretsTyped, NEW b, NEW k
    PROVE  HoldsAlias(b, k) <=> \E i \in DOMAIN reg : First(b, i) /\ reg[i] = k
<1> DEFINE I == {i \in 1 .. Len(reg) : Carries(b, reg[i])}
           at == IF I # {} THEN Min(I) ELSE 0
<1>1. DOMAIN reg = 1 .. Len(reg) /\ Len(reg) \in Nat
  BY DEF SecretsTyped
<1>2. HoldsAlias(b, k) <=> at # 0 /\ reg[at] = k
  BY DEF HoldsAlias, SelectInSeq
<1>3. \A i \in 1 .. Len(reg) : Carries(b, reg[i]) <=> reg[i] \in row[b]
  BY <1>1 DEF Carries, Registered, Range
<1>4. CASE I = {}
  <2>1. at = 0
    BY <1>4
  <2> QED BY <1>1, <1>2, <1>3, <1>4, <2>1 DEF First
<1>5. CASE I # {}
  <2>0. I \subseteq Nat
    BY <1>1
  <2>1. PICK m \in I : \A j \in I : m <= j
    <3> HIDE DEF I
    <3> QED BY <1>5, <2>0, Least
  <2>2. Min(I) = m
    <3>1. \A x \in I : (\A j \in I : x <= j) => x = m
      BY <1>1, <2>1
    <3> QED BY <2>1, <3>1 DEF Min
  <2>3. at = m /\ m # 0 /\ m \in 1 .. Len(reg)
    BY <1>5, <2>1, <2>2
  <2>4. ASSUME NEW i \in DOMAIN reg PROVE First(b, i) <=> i = m
    <3>1. First(b, m)
      <4>1. ASSUME NEW j \in DOMAIN reg, j < m PROVE reg[j] \notin row[b]
        <5>1. j \in I => m <= j
          BY <2>1
        <5> QED BY <1>1, <1>3, <2>3, <4>1, <5>1
      <4> QED BY <1>1, <1>3, <2>1, <2>3, <4>1 DEF First
    <3>2. First(b, i) => i = m
      <4>1. First(b, i) => i \in I
        BY <1>1, <1>3 DEF First
      <4>2. First(b, i) => m <= i
        BY <2>1, <4>1
      <4>3. First(b, i) => ~(m < i)
        BY <1>1, <1>3, <2>1, <2>3 DEF First
      <4> QED BY <1>1, <2>3, <4>2, <4>3
    <3> QED BY <3>1, <3>2
  <2> HIDE DEF at, I
  <2> QED BY <1>1, <1>2, <2>3, <2>4
<1> QED BY <1>4, <1>5

LEMMA MintedAgrees ==
    ASSUME SecretsTyped, NEW b
    PROVE  /\ MintedFor(b) = UNION {MintedNamesOf(b, k) : k \in {k \in Registered : Carries(b, k)}}
           /\ \A x \in MintedFor(b) : \E k \in Source : x = Append(k, "suffixed") \/ x = Append(k, "canonical")
<1>1. DOMAIN reg = 1 .. Len(reg) /\ \A i \in 1 .. Len(reg) : reg[i] \in Source
  BY DEF SecretsTyped
<1>2. \A k : k \in Registered /\ Carries(b, k) <=> \E i \in 1 .. Len(reg) : reg[i] = k /\ k \in row[b]
  BY <1>1 DEF Registered, Carries, Range
<1>3. \A k : HoldsAlias(b, k) <=> \E i \in 1 .. Len(reg) : First(b, i) /\ reg[i] = k
  BY <1>1, AliasIs
<1>4. \A i : First(b, i) => reg[i] \in row[b]
  BY DEF First
<1> DEFINE all == UNION {MintedNamesOf(b, k) : k \in {k \in Registered : Carries(b, k)}}
<1>5. Names(b, Len(reg)) = all
  <2>1. ASSUME NEW x
        PROVE  x \in all <=> \E i \in 1 .. Len(reg) :
                   /\ reg[i] \in row[b]
                   /\ x = Append(reg[i], "suffixed")
                      \/ (HoldsAlias(b, reg[i]) /\ x = Append(reg[i], "canonical"))
    <3>1. x \in all <=> \E k \in Registered : Carries(b, k) /\ x \in MintedNamesOf(b, k)
      OBVIOUS
    <3>2. \A k : x \in MintedNamesOf(b, k) <=>
                    x = Append(k, "suffixed") \/ (HoldsAlias(b, k) /\ x = Append(k, "canonical"))
      <4> TAKE k
      <4>1. CASE HoldsAlias(b, k)
        <5>1. MintedNamesOf(b, k) = {Append(k, "suffixed")} \cup {Append(k, "canonical")}
          BY <4>1 DEF MintedNamesOf
        <5> QED BY <4>1, <5>1
      <4>2. CASE ~HoldsAlias(b, k)
        <5>1. MintedNamesOf(b, k) = {Append(k, "suffixed")} \cup {}
          BY <4>2 DEF MintedNamesOf
        <5> QED BY <4>2, <5>1
      <4> QED BY <4>1, <4>2
    <3> HIDE DEF all
    <3> QED BY <1>2, <3>1, <3>2
  <2>2. ASSUME NEW x
        PROVE  x \in Names(b, Len(reg)) <=> \E i \in 1 .. Len(reg) :
                   \/ reg[i] \in row[b] /\ x = Append(reg[i], "suffixed")
                   \/ First(b, i) /\ x = Append(reg[i], "canonical")
    BY DEF Names
  <2> HIDE DEF all
  <2>3. \A x : x \in all <=> x \in Names(b, Len(reg))
    <3> SUFFICES ASSUME NEW x PROVE x \in all <=> x \in Names(b, Len(reg))
      OBVIOUS
    <3>1. ASSUME NEW i \in 1 .. Len(reg), HoldsAlias(b, reg[i]), x = Append(reg[i], "canonical")
          PROVE  \E j \in 1 .. Len(reg) : First(b, j) /\ x = Append(reg[j], "canonical")
      BY <1>3, <3>1
    <3>2. ASSUME NEW i \in 1 .. Len(reg), First(b, i) PROVE HoldsAlias(b, reg[i])
      BY <1>3, <3>2
    <3>3. x \in all => x \in Names(b, Len(reg))
      BY <2>1, <2>2, <3>1
    <3>4. x \in Names(b, Len(reg)) => x \in all
      BY <1>4, <2>1, <2>2, <3>2
    <3> QED BY <3>3, <3>4
  <2> QED BY <2>3
<1>6. \A x \in Names(b, Len(reg)) : \E k \in Source : x = Append(k, "suffixed") \/ x = Append(k, "canonical")
  BY <1>1 DEF Names
<1>7. MintedFor(b) = Names(b, Len(reg))
  BY MintedIs
<1> QED BY <1>5, <1>6, <1>7

LEMMA NamesFollow == SecretsInv => NamesAgree
<1> SUFFICES ASSUME SecretsInv, NEW b \in there, NEW g \in units
             PROVE  EnvFor(b, g) = Inventory(b, g) \ Dangling(b, g)
  BY DEF NamesAgree
<1> DEFINE env == MintedFor(b)
           named(c, s) == {<<u.name>> : u \in {u \in Range(secrets) : u.branch = c /\ u.service = s}}
           bound == {x.target : x \in {x \in bindings[b] : x.target = App(g)}}
           dangling == Dangling(b, g)
<1>1. SecretsTyped /\ b \in BranchName
  BY DEF SecretsInv, CloneStands, BranchName
<1>2. SecretsFor(b, g) = named(Nil, Nil) \cup named(b, Nil) \cup named(b, App(g))
  <2>1. \A u \in Range(secrets) : u.branch = Nil => u.service = Nil
    <3>1. ASSUME NEW u \in Range(secrets), u.branch = Nil, u.service # Nil PROVE FALSE
      <4>1. u.branch \in there
        BY <3>1 DEF SecretsInv, Placing, Follows, Range
      <4> QED BY <1>1, <3>1, <4>1, Kinds DEF SecretsInv, CloneStands
    <3> QED BY <3>1
  <2> QED BY <2>1 DEF SecretsFor
<1>3. BoundFor(b, g) = bound \ dangling
  <2>1. \A x, y \in bindings[b] : x.target = y.target => x = y
    BY <1>1 DEF SecretsInv, OneEach
  <2> QED BY <2>1 DEF BoundFor, Dangling
<1>4. dangling \subseteq {App(g)}
  BY DEF Dangling
<1>5. App(g) \notin env
  <2>1. ASSUME NEW k \in Source PROVE App(g) # Append(k, "suffixed") /\ App(g) # Append(k, "canonical")
    <3>1. Len(App(g)) = 2
      BY DEF App
    <3>2. PICK n : k = <<kind, n>>
      BY DEF Source, Data
    <3>3. Len(Append(k, "suffixed")) = 3 /\ Len(Append(k, "canonical")) = 3
      BY <3>2
    <3> QED BY <3>1, <3>3
  <2> QED BY <1>1, <2>1, MintedAgrees
<1>6. \A c, s : App(g) \notin named(c, s)
  <2>1. \A n : <<n>> # App(g)
    <3>1. Len(App(g)) = 2 /\ \A n : Len(<<n>>) = 1
      BY DEF App
    <3> QED BY <3>1
  <2> QED BY <2>1
<1>7. EnvFor(b, g) = env \cup SecretsFor(b, g) \cup BoundFor(b, g)
  BY DEF EnvFor
<1>8. Inventory(b, g) = env \cup named(Nil, Nil) \cup named(b, Nil) \cup named(b, App(g)) \cup bound
  <2> DEFINE all == UNION {MintedNamesOf(b, k) : k \in {k \in Registered : Carries(b, k)}}
  <2>1. env = all
    BY <1>1, MintedAgrees
  <2>2. Inventory(b, g) = all \cup named(Nil, Nil) \cup named(b, Nil) \cup named(b, App(g)) \cup bound
    BY DEF Inventory
  <2> HIDE DEF all, env, named, bound
  <2> QED BY <2>1, <2>2
<1> HIDE DEF env, named, bound, dangling
<1>9. EnvFor(b, g) = Inventory(b, g) \ dangling
  BY <1>2, <1>3, <1>4, <1>5, <1>6, <1>7, <1>8
<1> QED BY <1>9 DEF dangling

LEMMA FollowFollows == SecretsInv => SecretsFollow
<1> SUFFICES ASSUME SecretsInv, NEW i \in DOMAIN secrets, secrets[i].service # Nil
             PROVE  /\ secrets[i].of = secrets[i].service /\ secrets[i].branch \in there
                    /\ moving = Nil => secrets[i].service \in Bindable(secrets[i].branch)
  BY DEF SecretsFollow
<1>1. Follows(secrets[i], Registered, row, units, moving, there)
  BY DEF SecretsInv, Placing
<1>2. Registered \subseteq Source
  BY DEF SecretsInv, SecretsTyped, Registered, Range
<1> QED BY <1>1, <1>2 DEF Follows, HasReader, Bindable, Carries

\* Whatever is renamed, removed, cloned and registered again: a container is given what the
\* inventories show, a secret is read by the service it was set for and by none that took its
\* name, and a binding hands out the credential of the service it was made for (retireRegistration,
\* the renames of the three kinds, createBranchLocked, mintedNamesOf, bindingsFor).
THEOREM EnvTheorem == SecretsSpec => []EnvHolds
<1>1. SecretsSpec => []SecretsInv
  BY SecretsInitial, SecretsKeep, PTL DEF SecretsSpec
<1>2. SecretsInv => EnvHolds
  BY NamesFollow, FollowFollows DEF EnvHolds, SecretsInv
<1> QED BY <1>1, <1>2, PTL
===============================================================================
