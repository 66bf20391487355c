--------------------------- MODULE DockerFactsProofs ---------------------------
(***************************************************************************)
(* What the daemon believes of its containers, proved:                     *)
(*   - of the snapshot (StateCache), for any number of listings in flight, *)
(*     any age limit and any length of time;                               *)
(*   - of the memory (Headroom), for any readings and ceilings and every   *)
(*     finite set of containers;                                           *)
(*   - of holds, addresses and bodies (Connections), for any finite set of *)
(*     connections of any kinds, starts of the container and retries.      *)
(***************************************************************************)
EXTENDS StateCache, Headroom, Connections, FiniteSetTheorems, WellFoundedInduction, TLAPS

-------------------------------------------------------------------------------
\* StateCache

\* Every positive statement that is on its way, or has arrived, carries a date at which
\* the container had still to run: that of the call, never that of the answer.
RunsNow == docker = "running" => ran = now

AnswersHonest ==
    \A r \in Reader : read[r] # None /\ read[r].answer = "running" => ran >= read[r].at

EntryHonest == cache # None /\ cache.state = "running" => ran >= cache.at

IInv == TypeOK /\ RunsNow /\ AnswersHonest /\ EntryHonest

-------------------------------------------------------------------------------
\* absorb gives back the entry it found, no entry, or the listing's own fact with its date.
LEMMA FoldIsOneOf ==
    ASSUME NEW entry, NEW answer \in Docker, NEW at
    PROVE  \/ Fold(entry, answer, at) = entry
           \/ Fold(entry, answer, at) = None
           \/ answer \in State /\ Fold(entry, answer, at) = [state |-> answer, at |-> at]
BY DEF Fold, Docker, State

\* absorb never dates an entry back.
LEMMA FoldNeverOlder ==
    ASSUME NEW entry \in [state : State, at : Nat], entry # None,
           NEW answer \in Docker, NEW at \in Nat, Fold(entry, answer, at) # None
    PROVE  Fold(entry, answer, at).at >= entry.at
BY DEF Fold

LEMMA InitIInv == Init => IInv
BY StateCacheAssumption
   DEF Init, IInv, TypeOK, RunsNow, AnswersHonest, EntryHonest, Time, Docker, State

LEMMA StepIInv == IInv /\ [Next]_vars => IInv'
<1> SUFFICES ASSUME IInv, [Next]_vars PROVE IInv'
    OBVIOUS
<1> USE StateCacheAssumption DEF IInv, Docker, State, Time
<1>1. CASE Tick
  <2>1. TypeOK'
        BY <1>1 DEF Tick, TypeOK
  <2>2. ran' >= ran
        BY <1>1 DEF Tick, TypeOK
  <2>3. (RunsNow /\ AnswersHonest /\ EntryHonest)'
        BY <1>1, <2>2 DEF Tick, TypeOK, RunsNow, AnswersHonest, EntryHonest
  <2> QED BY <2>1, <2>3
<1>2. ASSUME NEW d \in Docker, Change(d) PROVE IInv'
  <2>1. TypeOK'
        BY <1>2 DEF Change, TypeOK
  <2>2. ran' >= ran /\ RunsNow'
        BY <1>2 DEF Change, TypeOK, RunsNow
  <2>3. (AnswersHonest /\ EntryHonest)'
        BY <1>2, <2>2 DEF Change, TypeOK, AnswersHonest, EntryHonest
  <2> QED BY <2>1, <2>2, <2>3
<1>3. CASE Record
  <2>1. TypeOK'
        BY <1>3 DEF Record, SetCached, TypeOK
  <2>2. (RunsNow /\ AnswersHonest)'
        BY <1>3 DEF Record, RunsNow, AnswersHonest
  <2>3. EntryHonest'
        BY <1>3 DEF Record, SetCached, TypeOK, RunsNow, EntryHonest
  <2> QED BY <2>1, <2>2, <2>3
<1>4. CASE StopFails
      BY <1>4 DEF StopFails, TypeOK, RunsNow, AnswersHonest, EntryHonest
<1>5. ASSUME NEW r \in Reader, Issue(r) PROVE IInv'
  <2>1. TypeOK'
        BY <1>5 DEF Issue, TypeOK
  <2>2. AnswersHonest'
        BY <1>5 DEF Issue, TypeOK, AnswersHonest
  <2> QED BY <1>5, <2>1, <2>2 DEF Issue, RunsNow, EntryHonest
<1>6. ASSUME NEW r \in Reader, Answer(r) PROVE IInv'
  <2>1. read[r] \in [at : 0 .. now, answer : Docker \cup {None}]
        BY <1>6 DEF Answer, TypeOK
  <2>2. TypeOK'
        BY <1>6, <2>1 DEF Answer, TypeOK
  <2>3. AnswersHonest'
        BY <1>6, <2>1 DEF Answer, TypeOK, AnswersHonest, RunsNow
  <2> QED BY <1>6, <2>2, <2>3 DEF Answer, RunsNow, EntryHonest
<1>7. ASSUME NEW r \in Reader, Fail(r) PROVE IInv'
      BY <1>7 DEF Fail, TypeOK, RunsNow, AnswersHonest, EntryHonest
<1>8. ASSUME NEW r \in Reader, Absorb(r) PROVE IInv'
  <2> DEFINE answer == read[r].answer
             at == read[r].at
  <2>1. answer \in Docker /\ at \in 0 .. now
        BY <1>8 DEF Absorb, TypeOK
  <2>2. \/ cache' = cache
        \/ cache' = None
        \/ answer \in State /\ cache' = [state |-> answer, at |-> at]
        BY <1>8, <2>1, FoldIsOneOf DEF Absorb, DateOf
  <2>3. cache' \in [state : State, at : 0 .. now] \cup {None}
        BY <2>1, <2>2 DEF TypeOK
  <2>4. TypeOK'
        BY <1>8, <2>1, <2>3 DEF Absorb, DateOf, TypeOK
  <2>5. (RunsNow /\ AnswersHonest)'
        BY <1>8 DEF Absorb, TypeOK, RunsNow, AnswersHonest
  <2>6. EntryHonest'
        BY <1>8, <2>1, <2>2 DEF Absorb, TypeOK, AnswersHonest, EntryHonest
  <2> QED BY <2>4, <2>5, <2>6
<1>9. CASE UNCHANGED vars
      BY <1>9 DEF vars, TypeOK, RunsNow, AnswersHonest, EntryHonest
<1> QED BY <1>1, <1>2, <1>3, <1>4, <1>5, <1>6, <1>7, <1>8, <1>9 DEF Next

THEOREM Invariant == Spec => []IInv
BY InitIInv, StepIInv, PTL DEF Spec

\* The types of the snapshot and of the listings in flight.
THEOREM TypeCorrect == Spec => []TypeOK
BY Invariant, PTL DEF IInv

\* Whatever the sweep or an eviction pass takes for running was running less than MaxAge
\* ago, for any number of listings that return in any order, however late.
THEOREM FreshFacts == Spec => []ActsOnFreshFacts
<1>1. IInv => ActsOnFreshFacts
      BY StateCacheAssumption DEF IInv, TypeOK, EntryHonest, ActsOnFreshFacts, ObservedRunning, Time, State
<1> QED BY <1>1, Invariant, PTL

\* No step puts an older fact in the place of a newer one.
THEOREM NewestFactWins == Spec => NeverOlder
<1> DEFINE Kept == cache # None /\ cache' # None => cache'.at >= cache.at
<1>1. IInv /\ [Next]_vars => [Kept]_vars
  <2> SUFFICES ASSUME IInv, Next, cache # None, cache' # None PROVE cache'.at >= cache.at
      BY DEF vars
  <2> USE StateCacheAssumption DEF IInv, Docker, State, Time
  <2>1. cache \in [state : State, at : Nat] /\ now >= cache.at /\ now \in Nat
        BY DEF TypeOK
  <2>2. CASE Tick \/ StopFails \/ \E d \in Docker : Change(d)
        BY <2>1, <2>2 DEF Tick, StopFails, Change
  <2>3. CASE Record
        BY <2>1, <2>3 DEF Record, SetCached
  <2>4. CASE \E r \in Reader : Issue(r) \/ Answer(r) \/ Fail(r)
        BY <2>1, <2>4 DEF Issue, Answer, Fail
  <2>5. ASSUME NEW r \in Reader, Absorb(r) PROVE cache'.at >= cache.at
    <3>1. read[r].answer \in Docker /\ read[r].at \in Nat
          BY <2>5 DEF Absorb, TypeOK
    <3>2. cache' = Fold(cache, read[r].answer, read[r].at)
          BY <2>5 DEF Absorb, DateOf
    <3> QED BY <2>1, <3>1, <3>2, FoldNeverOlder
  <2> QED BY <2>2, <2>3, <2>4, <2>5 DEF Next
<1> QED BY <1>1, Invariant, PTL DEF Spec, NeverOlder

-------------------------------------------------------------------------------
\* Headroom.  The tighter of the machine's view and the cgroup's wins, whatever the files read
\* and whichever of them a box has.  The strengthening is that a view which the box has, and
\* whose file can be read, is never given up.

ViewsHave == limit \in [meminfo : {Absent} \cup {m.total : m \in Machines},
                        cgroup : {Absent} \cup {c.total : c \in Ceilings}]

\* meminfoMissing and cgroupMissing are set for a view the box does not have, and no other.
NeverGivenUp == ~Flaky => \A v \in View : limit[v] # Absent => v \notin missing

HeadroomInv == ViewsHave /\ NeverGivenUp /\ TighterWins

-----------------------------------------------------------------------------
\* What a view shows has the total that was read, a number.
LEMMA ViewTotals ==
    /\ \A h \in Hosts : h.total \in Nat /\ h # Absent
    /\ \A c \in Cgroups : c.total \in Nat /\ c # Absent
<1>1. ASSUME NEW m \in Machines
      PROVE  HostMemory(m) \in [total : Nat, available : Nat]
  <2>1. m.total \in Nat /\ m.available \in Nat /\ m.arc \in Nat /\ m.floor \in Nat
    BY HeadroomAssumption
  <2> QED BY <2>1 DEF HostMemory, Memory, ArcReclaimable, Larger, Smaller
<1>2. ASSUME NEW c \in Ceilings
      PROVE  CgroupMemory(c) \in [total : Nat, available : Nat]
  <2>1. c.total \in Nat /\ c.current \in Nat /\ c.reclaimable \in Nat
    BY HeadroomAssumption
  <2> QED BY <2>1 DEF CgroupMemory, Memory, Larger, Smaller
<1> QED BY <1>1, <1>2, HeadroomAssumption DEF Hosts, Cgroups

LEMMA HeadroomInitHolds == HeadroomInit => HeadroomInv
BY DEF HeadroomInit, HeadroomInv, ViewsHave, NeverGivenUp, TighterWins

\* Only an answer from the kernel says anything of the views; those under a budget, samples
\* and stops leave them alone.
LEMMA HeadroomStepHolds == HeadroomInv /\ [HeadroomNext]_headroomVars => HeadroomInv'
<1> SUFFICES ASSUME HeadroomInv, [HeadroomNext]_headroomVars PROVE HeadroomInv'
  OBVIOUS
<1> USE DEF HeadroomInv
<1>1. CASE AskKernel
  <2>1. PICK host \in {Absent} \cup Hosts, ceiling \in {Absent} \cup Cgroups :
           /\ Reads("meminfo", Hosts, host)
           /\ Reads("cgroup", Cgroups, ceiling)
           /\ missing' = missing \cup {v \in View : \/ v = "meminfo" /\ host = Absent
                                                    \/ v = "cgroup" /\ ceiling = Absent}
           /\ told' = Tighter(host, ceiling)
    BY <1>1 DEF AskKernel
  <2>2. UNCHANGED <<budget, limit>>
    BY <1>1 DEF AskKernel
  <2>3. ~Flaky => /\ limit["meminfo"] # Absent => host # Absent /\ host.total = limit["meminfo"]
                  /\ limit["cgroup"] # Absent => ceiling # Absent /\ ceiling.total = limit["cgroup"]
    BY <2>1, ViewTotals DEF Reads, NeverGivenUp, View
  <2>4. NeverGivenUp'
    BY <2>1, <2>2, <2>3 DEF NeverGivenUp, View
  <2>5. ASSUME told' # Absent, ~Flaky, NEW v \in View, limit[v] # Absent
        PROVE  told'.total <= limit[v]
    <3>1. /\ host # Absent => host.total \in Nat
          /\ ceiling # Absent => ceiling.total \in Nat
      BY <2>1, ViewTotals
    <3>2. CASE v = "meminfo"
      BY <2>1, <2>3, <2>5, <3>1, <3>2 DEF Tighter
    <3>3. CASE v = "cgroup"
      BY <2>1, <2>3, <2>5, <3>1, <3>3 DEF Tighter
    <3> QED BY <3>2, <3>3 DEF View
  <2> QED BY <2>2, <2>4, <2>5 DEF ViewsHave, TighterWins
<1>2. CASE AskBudget
  BY <1>2 DEF AskBudget, ViewsHave, NeverGivenUp, TighterWins, samples
<1>3. CASE HeadroomNext /\ ~AskKernel /\ ~AskBudget
  <2>1. UNCHANGED <<budget, limit, missing, told>>
    BY <1>3 DEF HeadroomNext, StatsTaken, StatsArrive, StatsFail, Halts, StopAnswers, StopGivenUp, Uses
  <2> QED BY <2>1 DEF ViewsHave, NeverGivenUp, TighterWins
<1>4. CASE UNCHANGED headroomVars
  BY <1>4 DEF headroomVars, ViewsHave, NeverGivenUp, TighterWins
<1> QED BY <1>1, <1>2, <1>3, <1>4

\* Inside a cgroup ceiling smaller than the box the daemon counts with the ceiling, and inside
\* a larger one with the machine, for as long as it runs.
THEOREM TighterAlwaysWins == HeadroomSpec => []TighterWins
<1>1. HeadroomInv => TighterWins
  BY DEF HeadroomInv
<1> QED BY HeadroomInitHolds, HeadroomStepHolds, <1>1, PTL DEF HeadroomSpec

-----------------------------------------------------------------------------
\* Sums, by induction on the size of what is summed.

\* The least of some numbers.
LEMMA Least == ASSUME NEW T, T \subseteq Nat, T # {} PROVE \E x \in T : \A y \in T : x <= y
<1> DEFINE R == {p \in Nat \X Nat : p[1] < p[2]}
<1>0. OpToRel(<, Nat) = R
  BY Zenon DEF OpToRel
<1>1. IsWellFoundedOn(R, Nat)
  BY <1>0, NatLessThanWellFounded
<1>2. PICK x \in T : \A y \in T : <<y, x>> \notin R
  <2> HIDE DEF R
  <2> QED BY <1>1, WFMin
<1>3. ASSUME NEW y \in T PROVE x <= y
  <2>1. <<y, x>> \notin R /\ <<y, x>> \in Nat \X Nat
    BY <1>2
  <2>2. ~(y < x)
    BY <2>1
  <2> QED BY <2>2
<1> QED BY <1>3

\* The sum of a function over the subsets of a finite set, as SumFunction makes it.
Any(s) == CHOOSE x \in s : TRUE
Partial(f, g, S) == g = [s \in S |-> IF s = {} THEN 0 ELSE f[Any(s)] + g[s \ {Any(s)}]]
Sums(f) == CHOOSE g : Partial(f, g, SUBSET DOMAIN f)

LEMMA SumUnfolds == ASSUME NEW f PROVE SumFunction(f) = Sums(f)[DOMAIN f]
  BY DEF SumFunction, SumFunctionOnSet, FoldFunctionOnSet, MapThenFoldSet, Sums, Partial, Any

\* The subsets of so many elements.
UpTo(D, n) == {s \in SUBSET D : Cardinality(s) <= n}

\* Taking the element that SumFunction takes.
LEMMA AnyOne ==
    ASSUME NEW D, IsFiniteSet(D), NEW s \in SUBSET D, s # {}
    PROVE  /\ Any(s) \in s /\ s \ {Any(s)} \in SUBSET D
           /\ Cardinality(s) \in Nat \ {0} /\ Cardinality(s \ {Any(s)}) = Cardinality(s) - 1
<1>1. Any(s) \in s
  BY DEF Any
<1>2. IsFiniteSet(s)
  BY FS_Subset
<1>3. Cardinality(s) \in Nat /\ Cardinality(s) # 0
  BY <1>2, FS_CardinalityType, FS_EmptySet
<1> QED BY <1>1, <1>2, <1>3, FS_RemoveElement

\* There is such a function: it is built up one size of subsets at a time.
LEMMA SumsAtSize ==
    ASSUME NEW D, IsFiniteSet(D), NEW f
    PROVE  \A n \in Nat : \E g : Partial(f, g, UpTo(D, n))
<1> DEFINE T == {n \in Nat : ~ \E g : Partial(f, g, UpTo(D, n))}
<1> SUFFICES ASSUME T # {} PROVE FALSE
  OBVIOUS
<1>1. PICK m \in T : \A y \in T : m <= y
  <2> HIDE DEF T
  <2>1. T \subseteq Nat
    BY DEF T
  <2> QED BY <2>1, Least
<1>2. m \in Nat /\ ~ \E g : Partial(f, g, UpTo(D, m))
  BY DEF T
<1>3. CASE m = 0
  <2>1. ASSUME NEW s \in UpTo(D, m) PROVE s = {}
    <3>1. IsFiniteSet(s) /\ Cardinality(s) <= 0
      BY <1>3, <2>1, FS_Subset DEF UpTo
    <3>2. Cardinality(s) \in Nat
      BY <3>1, FS_CardinalityType
    <3> QED BY <3>1, <3>2, FS_EmptySet
  <2> DEFINE g == [s \in UpTo(D, m) |-> 0]
  <2>2. Partial(f, g, UpTo(D, m))
    BY <2>1 DEF Partial
  <2> HIDE DEF g
  <2> QED BY <1>2, <2>2
<1>4. CASE m # 0
  <2>1. m - 1 \in Nat /\ m - 1 \notin T
    BY <1>1, <1>2, <1>4
  <2>2. PICK g : Partial(f, g, UpTo(D, m - 1))
    BY <2>1 DEF T
  <2> DEFINE h == [s \in UpTo(D, m) |-> IF s = {} THEN 0 ELSE f[Any(s)] + g[s \ {Any(s)}]]
  <2>3. ASSUME NEW s \in UpTo(D, m), s # {} PROVE h[s \ {Any(s)}] = g[s \ {Any(s)}]
    <3>1. s \ {Any(s)} \in UpTo(D, m - 1) /\ s \ {Any(s)} \in UpTo(D, m)
      BY <1>2, <2>3, AnyOne DEF UpTo
    <3> QED BY <2>2, <3>1 DEF Partial
  <2>4. h = [s \in UpTo(D, m) |-> IF s = {} THEN 0 ELSE f[Any(s)] + h[s \ {Any(s)}]]
    <3> DEFINE k == [s \in UpTo(D, m) |-> IF s = {} THEN 0 ELSE f[Any(s)] + h[s \ {Any(s)}]]
    <3>1. ASSUME NEW s \in UpTo(D, m) PROVE h[s] = k[s]
      <4>1. h[s] = IF s = {} THEN 0 ELSE f[Any(s)] + g[s \ {Any(s)}]
        OBVIOUS
      <4> HIDE DEF h
      <4>2. k[s] = IF s = {} THEN 0 ELSE f[Any(s)] + h[s \ {Any(s)}]
        OBVIOUS
      <4> QED BY <4>1, <4>2, <2>3
    <3>2. DOMAIN h = UpTo(D, m) /\ h = [s \in UpTo(D, m) |-> h[s]]
      OBVIOUS
    <3> HIDE DEF h
    <3> QED BY <3>1, <3>2
  <2>5. Partial(f, h, UpTo(D, m))
    BY ONLY <2>4 DEF Partial
  <2> HIDE DEF h
  <2> QED BY <1>2, <2>5
<1> QED BY <1>3, <1>4

LEMMA SumsIs ==
    ASSUME NEW f, IsFiniteSet(DOMAIN f)
    PROVE  Partial(f, Sums(f), SUBSET DOMAIN f)
<1>1. Cardinality(DOMAIN f) \in Nat
  BY FS_CardinalityType
<1>2. UpTo(DOMAIN f, Cardinality(DOMAIN f)) = SUBSET DOMAIN f
  BY FS_Subset DEF UpTo
<1>3. \E g : Partial(f, g, SUBSET DOMAIN f)
  BY <1>1, <1>2, SumsAtSize
<1> QED BY <1>3 DEF Sums

LEMMA SumsAt ==
    ASSUME NEW f, IsFiniteSet(DOMAIN f)
    PROVE  /\ Sums(f)[{}] = 0
           /\ \A s \in SUBSET DOMAIN f : s # {} => Sums(f)[s] = f[Any(s)] + Sums(f)[s \ {Any(s)}]
<1> DEFINE g == Sums(f)
<1>1. g = [s \in SUBSET DOMAIN f |-> IF s = {} THEN 0 ELSE f[Any(s)] + g[s \ {Any(s)}]]
  BY SumsIs DEF Partial
<1> HIDE DEF g
<1>2. /\ g[{}] = 0
      /\ \A s \in SUBSET DOMAIN f : s # {} => g[s] = f[Any(s)] + g[s \ {Any(s)}]
  BY <1>1
<1> QED BY <1>2 DEF g

\* Whatever holds of a subset as soon as it holds of the smaller ones holds of all.
LEMMA BySize ==
    ASSUME NEW D, IsFiniteSet(D), NEW G,
           \A s \in SUBSET D : (\A t \in SUBSET D : Cardinality(t) < Cardinality(s) => t \in G) => s \in G
    PROVE  SUBSET D \subseteq G
<1> DEFINE T == {Cardinality(s) : s \in (SUBSET D) \ G}
<1>1. \A s \in SUBSET D : Cardinality(s) \in Nat
  BY FS_Subset, FS_CardinalityType
<1> SUFFICES ASSUME NEW x \in SUBSET D, x \notin G PROVE FALSE
  OBVIOUS
<1>2. T \subseteq Nat /\ T # {}
  BY <1>1
<1>3. PICK m \in T : \A y \in T : m <= y
  <2> HIDE DEF T
  <2> QED BY <1>2, Least
<1>4. PICK s \in (SUBSET D) \ G : m = Cardinality(s)
  BY <1>3
<1>5. ASSUME NEW t \in SUBSET D, Cardinality(t) < Cardinality(s) PROVE t \in G
  <2>1. t \notin G => Cardinality(t) \in T
    OBVIOUS
  <2>2. t \notin G => m <= Cardinality(t)
    BY <1>3, <2>1
  <2>3. m \in Nat /\ Cardinality(t) \in Nat
    BY <1>1, <1>4
  <2> HIDE DEF T
  <2> QED BY <1>4, <1>5, <2>2, <2>3
<1> QED BY <1>4, <1>5

LEMMA SumsType ==
    ASSUME NEW D, IsFiniteSet(D), NEW f \in [D -> Nat], NEW s \in SUBSET D
    PROVE  Sums(f)[s] \in Nat
<1> DEFINE G == {t \in SUBSET D : Sums(f)[t] \in Nat}
<1>1. ASSUME NEW t \in SUBSET D, \A u \in SUBSET D : Cardinality(u) < Cardinality(t) => u \in G
      PROVE  t \in G
  <2>1. CASE t = {}
    BY <2>1, SumsAt
  <2>2. CASE t # {}
    <3>1. t \ {Any(t)} \in G /\ Any(t) \in D
      BY <1>1, <2>2, AnyOne
    <3>2. Sums(f)[t] = f[Any(t)] + Sums(f)[t \ {Any(t)}]
      BY <2>2, SumsAt
    <3> QED BY <3>1, <3>2
  <2> QED BY <2>1, <2>2
<1>2. SUBSET D \subseteq G
  <2> HIDE DEF G
  <2> QED BY <1>1, BySize
<1> QED BY <1>2

\* The sum does not depend on what is taken first.
LEMMA SumsTake ==
    ASSUME NEW D, IsFiniteSet(D), NEW f \in [D -> Nat]
    PROVE  \A s \in SUBSET D : \A x \in s : Sums(f)[s] = f[x] + Sums(f)[s \ {x}]
<1> DEFINE G == {s \in SUBSET D : \A x \in s : Sums(f)[s] = f[x] + Sums(f)[s \ {x}]}
<1>1. ASSUME NEW s \in SUBSET D, \A u \in SUBSET D : Cardinality(u) < Cardinality(s) => u \in G,
             NEW x \in s
      PROVE  Sums(f)[s] = f[x] + Sums(f)[s \ {x}]
  <2> DEFINE c == Any(s)
  <2>1. /\ c \in s /\ IsFiniteSet(s) /\ Cardinality(s) \in Nat
        /\ Cardinality(s \ {c}) < Cardinality(s) /\ Cardinality(s \ {x}) < Cardinality(s)
    <3>1. IsFiniteSet(s)
      BY FS_Subset
    <3> QED BY <3>1, AnyOne, FS_RemoveElement, FS_CardinalityType
  <2>2. Sums(f)[s] = f[c] + Sums(f)[s \ {c}]
    BY SumsAt
  <2> HIDE DEF c
  <2>3. CASE x = c
    BY <2>2, <2>3
  <2>4. CASE x # c
    <3>1. s \ {c} \in G /\ s \ {x} \in G
      BY <1>1, <2>1
    <3>2. /\ Sums(f)[s \ {c}] = f[x] + Sums(f)[(s \ {c}) \ {x}]
          /\ Sums(f)[s \ {x}] = f[c] + Sums(f)[(s \ {x}) \ {c}]
      BY <2>1, <2>4, <3>1
    <3>3. (s \ {c}) \ {x} = (s \ {x}) \ {c} /\ (s \ {x}) \ {c} \in SUBSET D
      OBVIOUS
    <3>4. Sums(f)[(s \ {x}) \ {c}] \in Nat /\ f[x] \in Nat /\ f[c] \in Nat
      BY <2>1, <3>3, SumsType
    <3>5. Sums(f)[s] = f[c] + (f[x] + Sums(f)[(s \ {x}) \ {c}])
      BY <2>2, <3>2, <3>3
    <3>6. \A i, j, k \in Nat : i + (j + k) = j + (i + k)
      OBVIOUS
    <3> QED BY ONLY <3>2, <3>4, <3>5, <3>6
  <2> QED BY <2>3, <2>4
<1>2. SUBSET D \subseteq G
  <2>1. ASSUME NEW s \in SUBSET D, \A u \in SUBSET D : Cardinality(u) < Cardinality(s) => u \in G
        PROVE  s \in G
    BY <1>1, <2>1
  <2> HIDE DEF G
  <2> QED BY <2>1, BySize
<1> QED BY <1>2

\* What a function is elsewhere does not matter to the sum.
LEMMA SumsAgree ==
    ASSUME NEW D, IsFiniteSet(D), NEW f \in [D -> Nat], NEW g \in [D -> Nat],
           NEW r \in SUBSET D, \A x \in r : f[x] = g[x]
    PROVE  Sums(f)[r] = Sums(g)[r]
<1> DEFINE G == {s \in SUBSET D : s \subseteq r => Sums(f)[s] = Sums(g)[s]}
<1>1. ASSUME NEW s \in SUBSET D, \A u \in SUBSET D : Cardinality(u) < Cardinality(s) => u \in G
      PROVE  s \in G
  <2>1. CASE s = {}
    BY <2>1, SumsAt
  <2>2. CASE s # {}
    <3>1. s \ {Any(s)} \in G /\ Any(s) \in s
      BY <1>1, <2>2, AnyOne
    <3>2. /\ Sums(f)[s] = f[Any(s)] + Sums(f)[s \ {Any(s)}]
          /\ Sums(g)[s] = g[Any(s)] + Sums(g)[s \ {Any(s)}]
      BY <2>2, SumsAt
    <3> QED BY <3>1, <3>2
  <2> QED BY <2>1, <2>2
<1>2. SUBSET D \subseteq G
  <2> HIDE DEF G
  <2> QED BY <1>1, BySize
<1> QED BY <1>2

\* The sum of a function, and of one that has another value in one place.
LEMMA SumOf ==
    ASSUME NEW D, IsFiniteSet(D), NEW f \in [D -> Nat]
    PROVE  SumFunction(f) \in Nat
  BY SumUnfolds, SumsType

LEMMA SumChanges ==
    ASSUME NEW D, IsFiniteSet(D), NEW f \in [D -> Nat], NEW b \in D, NEW v \in Nat
    PROVE  /\ f[b] <= SumFunction(f)
           /\ SumFunction([f EXCEPT ![b] = v]) = SumFunction(f) - f[b] + v
<1> DEFINE g == [f EXCEPT ![b] = v]
<1>1. g \in [D -> Nat] /\ g[b] = v /\ \A x \in D \ {b} : f[x] = g[x]
  OBVIOUS
<1> HIDE DEF g
<1>2. Sums(f)[D \ {b}] = Sums(g)[D \ {b}]
  <2> DEFINE r == D \ {b}
  <2>1. r \in SUBSET D /\ \A x \in r : f[x] = g[x]
    BY <1>1
  <2> HIDE DEF r
  <2>2. Sums(f)[r] = Sums(g)[r]
    BY <1>1, <2>1, SumsAgree
  <2> QED BY <2>2 DEF r
<1>3. /\ Sums(f)[D] = f[b] + Sums(f)[D \ {b}]
      /\ Sums(g)[D] = v + Sums(g)[D \ {b}]
  BY <1>1, SumsTake
<1>4. Sums(f)[D \ {b}] \in Nat /\ f[b] \in Nat
  BY SumsType
<1>5. SumFunction(f) = Sums(f)[D] /\ SumFunction(g) = Sums(g)[D]
  BY <1>1, SumUnfolds
<1> QED BY <1>2, <1>3, <1>4, <1>5 DEF g

LEMMA SumZero ==
    ASSUME NEW D, IsFiniteSet(D)
    PROVE  SumFunction([x \in D |-> 0]) = 0
<1> DEFINE f == [x \in D |-> 0]
<1> DEFINE G == {s \in SUBSET D : Sums(f)[s] = 0}
<1>0. f \in [D -> Nat] /\ DOMAIN f = D /\ \A x \in D : f[x] = 0
  OBVIOUS
<1> HIDE DEF f
<1>1. ASSUME NEW s \in SUBSET D, \A u \in SUBSET D : Cardinality(u) < Cardinality(s) => u \in G
      PROVE  s \in G
  <2>1. CASE s = {}
    BY <1>0, <2>1, SumsAt
  <2>2. CASE s # {}
    <3>1. s \ {Any(s)} \in G /\ Any(s) \in s
      BY <1>1, <2>2, AnyOne
    <3>2. Sums(f)[s] = f[Any(s)] + Sums(f)[s \ {Any(s)}]
      BY <1>0, <2>2, SumsAt
    <3> QED BY <1>0, <3>1, <3>2
  <2> QED BY <2>1, <2>2
<1>2. SUBSET D \subseteq G
  <2> HIDE DEF G
  <2> QED BY <1>1, BySize
<1>3. SumFunction(f) = Sums(f)[D]
  BY <1>0, SumUnfolds
<1> QED BY <1>2, <1>3 DEF f

-----------------------------------------------------------------------------
\* What is counted against a budget.

SamplesTyped ==
    /\ budget \in Budgets \cup {Absent}
    /\ uses \in [Box -> Nat] /\ sampled \in [Box -> Nat]
    /\ reading \in [Box -> Nat] \cup {Absent}

\* A sample on its way that has a container which stopped meanwhile is known for it.
Overtook ==
    reading # Absent =>
        \A b \in Box : reading[b] # 0 /\ uses[b] = 0 => b \in halted \cup overtaken

SamplesInv == SamplesTyped /\ CountedIsSampled /\ Overtook /\ StoppedIsFreed /\ AnswerIsBounded

\* The total of the samples is a number that covers each of them.
LEMMA CountedCovers ==
    ASSUME SamplesTyped, CountedIsSampled
    PROVE  /\ counted \in Nat
           /\ \A b \in Box : sampled[b] <= counted
           /\ \A b \in Box : SumFunction([sampled EXCEPT ![b] = 0]) = counted - sampled[b]
<1>1. IsFiniteSet(Box) /\ sampled \in [Box -> Nat] /\ counted = SumFunction(sampled)
  BY HeadroomAssumption DEF SamplesTyped, CountedIsSampled
<1>2. counted \in Nat
  BY <1>1, SumOf
<1>3. ASSUME NEW b \in Box
      PROVE  sampled[b] <= counted /\ SumFunction([sampled EXCEPT ![b] = 0]) = counted - sampled[b]
  <2>1. ASSUME NEW f, f \in [Box -> Nat], NEW v, v = 0
        PROVE  f[b] <= SumFunction(f) /\ SumFunction([f EXCEPT ![b] = v]) = SumFunction(f) - f[b] + v
    <3>1. v \in Nat
      BY <2>1
    <3> HIDE <2>1
    <3> QED BY <1>1, <2>1, <3>1, SumChanges
  <2>2. /\ sampled[b] <= SumFunction(sampled)
        /\ SumFunction([sampled EXCEPT ![b] = 0]) = SumFunction(sampled) - sampled[b] + 0
    BY <1>1, <2>1
  <2> QED BY <1>1, <1>2, <2>2
<1> QED BY <1>2, <1>3

LEMMA SamplesInitHold == HeadroomInit => SamplesInv
<1> SUFFICES ASSUME HeadroomInit PROVE SamplesInv
  OBVIOUS
<1>1. CountedIsSampled
  <2>1. IsFiniteSet(Box)
    BY HeadroomAssumption
  <2>2. SumFunction([x \in Box |-> 0]) = 0
    BY <2>1, SumZero
  <2> QED BY <2>2 DEF HeadroomInit, Down, CountedIsSampled
<1> QED BY <1>1 DEF HeadroomInit, Down, SamplesInv, SamplesTyped, Overtook, StoppedIsFreed, AnswerIsBounded

\* What the two views say is bounded by what they have in total.
LEMMA ViewsBounded ==
    \A v \in Hosts \cup Cgroups : 0 <= v.available /\ v.available <= v.total
<1>1. ASSUME NEW m \in Machines
      PROVE  0 <= HostMemory(m).available /\ HostMemory(m).available <= HostMemory(m).total
  <2>1. m.total \in Nat /\ m.available \in Nat /\ m.arc \in Nat /\ m.floor \in Nat
    BY HeadroomAssumption
  <2> QED BY <2>1 DEF HostMemory, Memory, ArcReclaimable, Larger, Smaller
<1>2. ASSUME NEW c \in Ceilings
      PROVE  0 <= CgroupMemory(c).available /\ CgroupMemory(c).available <= CgroupMemory(c).total
  <2>1. c.total \in Nat /\ c.current \in Nat /\ c.reclaimable \in Nat
    BY HeadroomAssumption
  <2> QED BY <2>1 DEF CgroupMemory, Memory, Larger, Smaller
<1> QED BY <1>1, <1>2 DEF Hosts, Cgroups

LEMMA SamplesStepHolds == SamplesInv /\ [HeadroomNext]_headroomVars => SamplesInv'
<1> SUFFICES ASSUME SamplesInv, [HeadroomNext]_headroomVars PROVE SamplesInv'
  OBVIOUS
<1>0. /\ budget \in Budgets \cup {Absent} /\ uses \in [Box -> Nat] /\ sampled \in [Box -> Nat]
      /\ reading \in [Box -> Nat] \cup {Absent}
      /\ Absent \notin Nat \cup [Box -> Nat]
  BY HeadroomAssumption DEF SamplesInv, SamplesTyped
<1>1. CASE AskKernel
  <2>1. AnswerIsBounded'
    <3>1. PICK host \in {Absent} \cup Hosts, ceiling \in {Absent} \cup Cgroups :
             told' = Tighter(host, ceiling)
      BY <1>1 DEF AskKernel
    <3>2. told' = Absent \/ told' \in Hosts \cup Cgroups
      BY <3>1 DEF Tighter
    <3> QED BY <3>2, ViewsBounded DEF AnswerIsBounded
  <2> QED BY <1>1, <2>1 DEF AskKernel, samples, SamplesInv, SamplesTyped, CountedIsSampled, Overtook,
                            StoppedIsFreed
<1>2. CASE AskBudget
  <2>1. AnswerIsBounded'
    <3>1. counted \in Nat
      BY CountedCovers DEF SamplesInv
    <3>2. budget \in Nat
      BY <1>0, <1>2, HeadroomAssumption DEF AskBudget
    <3> QED BY <1>2, <3>1, <3>2 DEF AskBudget, Memory, Larger, AnswerIsBounded
  <2> QED BY <1>2, <2>1 DEF AskBudget, samples, SamplesInv, SamplesTyped, CountedIsSampled, Overtook,
                            StoppedIsFreed
<1>3. CASE StatsTaken
  BY <1>0, <1>3 DEF StatsTaken, SamplesInv, SamplesTyped, CountedIsSampled, Overtook, StoppedIsFreed,
                    AnswerIsBounded
<1>4. CASE StatsArrive
  BY <1>0, <1>4 DEF StatsArrive, SamplesInv, SamplesTyped, CountedIsSampled, Overtook, StoppedIsFreed,
                    AnswerIsBounded
<1>5. CASE StatsFail
  BY <1>0, <1>5 DEF StatsFail, SamplesInv, SamplesTyped, CountedIsSampled, Overtook, StoppedIsFreed,
                    AnswerIsBounded
<1>6. ASSUME NEW b \in Box, Halts(b) PROVE SamplesInv'
  BY <1>0, <1>6 DEF Halts, SamplesInv, SamplesTyped, CountedIsSampled, Overtook, StoppedIsFreed,
                    AnswerIsBounded
<1>7. ASSUME NEW b \in Box, StopAnswers(b) PROVE SamplesInv'
  <2>1. CountedIsSampled'
    <3>1. /\ counted \in Nat /\ sampled[b] <= counted /\ sampled[b] \in Nat
          /\ SumFunction([sampled EXCEPT ![b] = 0]) = counted - sampled[b]
      BY <1>0, CountedCovers DEF SamplesInv
    <3>2. counted' = Larger(0, counted - sampled[b]) /\ sampled' = [sampled EXCEPT ![b] = 0]
      BY <1>7 DEF StopAnswers, Stopped
    <3> QED BY <3>1, <3>2 DEF Larger, CountedIsSampled
  <2> QED BY <1>0, <1>7, <2>1 DEF StopAnswers, Stopped, SamplesInv, SamplesTyped, Overtook, StoppedIsFreed,
                                  AnswerIsBounded
<1>8. ASSUME NEW b \in Box, StopGivenUp(b) PROVE SamplesInv'
  BY <1>0, <1>8 DEF StopGivenUp, SamplesInv, SamplesTyped, CountedIsSampled, Overtook, StoppedIsFreed,
                    AnswerIsBounded
<1>9. ASSUME NEW b \in Box, NEW n \in 1 .. MaxUse, Uses(b, n) PROVE SamplesInv'
  BY <1>0, <1>9, HeadroomAssumption DEF Uses, SamplesInv, SamplesTyped, CountedIsSampled, Overtook,
                    StoppedIsFreed, AnswerIsBounded
<1>10. CASE UNCHANGED headroomVars
  BY <1>10 DEF headroomVars, samples, SamplesInv, SamplesTyped, CountedIsSampled, Overtook, StoppedIsFreed,
               AnswerIsBounded
<1> QED BY <1>1, <1>2, <1>3, <1>4, <1>5, <1>6, <1>7, <1>8, <1>9, <1>10 DEF HeadroomNext

\* For any containers, ceilings and readings: an answer is some of what there is, the tighter
\* view wins, the total is that of the samples, and what was stopped is not counted
\* (scheduler.ts, memory(), sampleRss, stop()).
THEOREM HeadroomTheorem == HeadroomSpec => []HeadroomHolds
<1>1. HeadroomInv /\ SamplesInv => HeadroomHolds
  BY DEF HeadroomInv, SamplesInv, HeadroomHolds
<1> QED BY HeadroomInitHolds, HeadroomStepHolds, SamplesInitHold, SamplesStepHolds, <1>1, PTL DEF HeadroomSpec

-------------------------------------------------------------------------------
\* Connections

PC == {"idle", "hello", "look", "looked", "wake", "relook", "relooked", "probe", "gate", "dial",
       "sent", "spliced", "done"}

Connection == [pc : PC, up : 0..MaxStarts, read : 0..MaxStarts, since : 0..MaxStarts,
               woke : BOOLEAN, forced : BOOLEAN, tries : 0..Tries, sent : Nat,
               held : BOOLEAN, gone : BOOLEAN]

\* Whether a connection has its hold shows in where it is and whether its client is there.
HasHold(r) == r.held <=> r.pc \notin {"idle", "done", "hello"} /\ ~r.gone

\* What was read since the last wake is no older than the container that the wake left, and
\* nobody remembers a start that has not been.
ReadSince(r, n) ==
    /\ r.since <= n
    /\ r.pc \in {"look", "looked"} => r.since = 0
    /\ r.pc = "relooked" => r.read = 0 \/ r.read >= r.since
    /\ r.pc \in {"probe", "gate", "dial", "sent"} => r.up >= r.since

\* A body is out only where the answer is awaited: nothing leads back from there.
SentSince(k, r) == k = "post" /\ ~Silent => r.sent <= 1 /\ (r.pc # "sent" => r.sent = 0)

Good(k, r, n) == r \in Connection /\ HasHold(r) /\ ReadSince(r, n) /\ SentSince(k, r)

\* The container that runs is the latest there was.
BoxIsLatest ==
    /\ starts \in 1..MaxStarts /\ running \in {0, starts}
    /\ believed \in BOOLEAN /\ wanted \in BOOLEAN /\ known \in 0..MaxStarts

Holders == {c \in Conn : conn[c].held}

ConnInv ==
    /\ kind \in Kinds
    /\ BoxIsLatest
    /\ conn \in [Conn -> Connection]
    /\ \A c \in Conn : Good(kind[c], conn[c], starts)
    /\ holds = Cardinality(Holders)

USE ConnectionsAssumption

-----------------------------------------------------------------------------
\* The hold a step takes or gives is the one its connection has or had.
LEMMA Counting ==
    ASSUME ConnInv, NEW c \in Conn, NEW r \in Connection, Become(c, r)
    PROVE  /\ holds \in Nat
           /\ r.held = conn[c].held => Cardinality(Holders') = holds
           /\ r.held /\ ~conn[c].held => Cardinality(Holders') = holds + 1
           /\ ~r.held /\ conn[c].held => Cardinality(Holders') = holds - 1
<1>1. IsFiniteSet(Holders) /\ Cardinality(Holders) \in Nat
  BY FS_Subset, FS_CardinalityType DEF Holders
<1>2. conn[c].held \in BOOLEAN /\ r.held \in BOOLEAN
  BY DEF ConnInv, Good, Connection
<1>3. Holders' = IF r.held THEN Holders \cup {c} ELSE Holders \ {c}
  BY DEF Holders, ConnInv, Become
<1>4. c \in Holders <=> conn[c].held
  BY DEF Holders
<1>5. /\ r.held = conn[c].held => Holders' = Holders
      /\ r.held /\ ~conn[c].held => Holders' = Holders \cup {c}
      /\ ~r.held /\ conn[c].held => Holders' = Holders \ {c}
  BY <1>2, <1>3, <1>4
<1>6. holds = Cardinality(Holders)
  BY DEF ConnInv
<1>7. /\ ~conn[c].held => Cardinality(Holders \cup {c}) = holds + 1
      /\ conn[c].held => Cardinality(Holders \ {c}) = holds - 1
  BY ONLY <1>1, <1>4, <1>6, FS_AddElement, FS_RemoveElement
<1> QED BY ONLY <1>1, <1>5, <1>6, <1>7

\* A step that leaves one connection good, and counts its hold, keeps the invariant.
LEMMA Becomes ==
    ASSUME ConnInv, NEW c \in Conn, NEW r, Become(c, r),
           kind' = kind, BoxIsLatest', starts' >= starts, Good(kind[c], r, starts'),
           \/ r.held = conn[c].held /\ holds' = holds
           \/ r.held /\ ~conn[c].held /\ holds' = holds + 1
           \/ ~r.held /\ conn[c].held /\ holds' = holds - 1
    PROVE  ConnInv'
<1>1. r \in Connection /\ r.held \in BOOLEAN /\ conn' = [conn EXCEPT ![c] = r]
  BY DEF Good, Connection, Become
<1>2. holds' = Cardinality(Holders')
  <2>1. conn[c].held \in BOOLEAN
    BY DEF ConnInv, Connection
  <2>2. /\ r.held = conn[c].held => Cardinality(Holders') = holds
        /\ r.held /\ ~conn[c].held => Cardinality(Holders') = holds + 1
        /\ ~r.held /\ conn[c].held => Cardinality(Holders') = holds - 1
    BY <1>1, Counting
  <2> QED BY <2>1, <2>2
<1>3. ASSUME NEW d \in Conn PROVE Good(kind'[d], conn'[d], starts')
  <2>1. CASE d = c
    BY <1>1, <2>1 DEF ConnInv
  <2>2. CASE d # c
    <3>1. conn'[d] = conn[d] /\ Good(kind[d], conn[d], starts)
      BY <1>1, <2>2 DEF ConnInv
    <3>2. conn[d].since \in 0..MaxStarts
      BY <3>1 DEF Good, Connection
    <3> QED BY <3>1, <3>2 DEF Good, ReadSince, ConnInv, BoxIsLatest
  <2> QED BY <2>1, <2>2
<1>4. conn' \in [Conn -> Connection]
  BY <1>1 DEF ConnInv, Good
<1> QED BY <1>2, <1>3, <1>4 DEF ConnInv

LEMMA FreshIsTyped == Fresh \in Connection
<1> 0 \in 0..MaxStarts /\ 0 \in 0..Tries /\ 0 \in Nat
  OBVIOUS
<1> QED BY DEF Fresh, Connection, PC

LEMMA FreshIsGood ==
    ASSUME ConnInv, NEW k, NEW pc \in {"done", "hello"}
    PROVE  /\ Good(k, [Fresh EXCEPT !.pc = pc], starts)
           /\ [Fresh EXCEPT !.pc = pc].held = FALSE
<1> DEFINE r == [Fresh EXCEPT !.pc = pc]
<1>1. /\ r.pc = pc /\ ~r.held /\ ~r.gone
      /\ r.since = 0 /\ r.up = 0 /\ r.read = 0 /\ r.sent = 0
  BY DEF Fresh
<1>2. r \in Connection
  <2> pc \in PC
    BY DEF PC
  <2> QED BY FreshIsTyped DEF Connection
<1>3. HasHold(r) /\ ReadSince(r, starts) /\ SentSince(k, r)
  BY <1>1 DEF HasHold, ReadSince, SentSince, ConnInv, BoxIsLatest
<1> QED BY <1>1, <1>2, <1>3 DEF Good

\* The end of a connection releases its hold once.
LEMMA EndHolds ==
    ASSUME ConnInv, NEW c \in Conn, End(c), kind' = kind, BoxIsLatest', starts' = starts
    PROVE  ConnInv'
<1>1. conn[c].held \in BOOLEAN
  BY DEF ConnInv, Good, Connection
<1>2. PICK r : r = [Fresh EXCEPT !.pc = "done"]
  OBVIOUS
<1>3. Good(kind[c], r, starts') /\ r.held = FALSE
  BY <1>2, FreshIsGood
<1>4. Become(c, r) /\ holds' = IF conn[c].held THEN holds - 1 ELSE holds
  BY <1>2 DEF End, Releasing
<1>5. starts' >= starts
  BY DEF ConnInv, BoxIsLatest
<1> QED BY <1>1, <1>3, <1>4, <1>5, Becomes

-----------------------------------------------------------------------------
LEMMA InitHolds == ConnInit => ConnInv
<1> SUFFICES ASSUME ConnInit PROVE ConnInv
  OBVIOUS
<1>1. kind \in Kinds /\ BoxIsLatest
  BY DEF ConnInit, BoxIsLatest
<1>2. Fresh \in Connection
  BY FreshIsTyped
<1>3. ASSUME NEW k PROVE Good(k, Fresh, starts)
  BY <1>2 DEF Good, Fresh, HasHold, ReadSince, SentSince, ConnInit
<1>4. Holders = {}
  BY DEF Holders, ConnInit, Fresh
<1> QED BY <1>1, <1>2, <1>3, <1>4, FS_EmptySet DEF ConnInv, ConnInit

\* What a connection step leaves alone.
Still == UNCHANGED <<kind, box>>

LEMMA StillBox == ASSUME ConnInv, Still, known' \in 0..MaxStarts
                  PROVE  BoxIsLatest' /\ starts' = starts /\ starts' >= starts /\ kind' = kind
BY DEF ConnInv, Still, box, BoxIsLatest

LEMMA NegotiateHolds == ASSUME ConnInv, NEW c \in Conn, Negotiate(c) PROVE ConnInv'
<1>1. Still /\ known' \in 0..MaxStarts /\ holds' = holds
  BY DEF Negotiate, Still, ConnInv, BoxIsLatest, box
<1>2. conn[c].held = FALSE
  BY DEF Negotiate, In, ConnInv, Good, HasHold, Connection
<1>3. PICK r : r = [Fresh EXCEPT !.pc = "hello"]
  OBVIOUS
<1>4. Good(kind[c], r, starts') /\ r.held = FALSE
  BY <1>1, <1>3, StillBox, FreshIsGood
<1>5. Become(c, r)
  BY <1>3 DEF Negotiate
<1> QED BY <1>1, <1>2, <1>4, <1>5, StillBox, Becomes

LEMMA EndsHold ==
    ASSUME ConnInv, NEW c \in Conn, End(c), Still, known' \in 0..MaxStarts
    PROVE  ConnInv'
BY StillBox, EndHolds

LEMMA Stays ==
    ASSUME ConnInv, NEW c \in Conn, NEW r, Become(c, r), Still, known' \in 0..MaxStarts,
           holds' = holds, r.held = conn[c].held, Good(kind[c], r, starts)
    PROVE  ConnInv'
BY StillBox, Becomes

LEMMA Was == ASSUME ConnInv, NEW c \in Conn
             PROVE  /\ conn[c] \in Connection /\ HasHold(conn[c])
                    /\ ReadSince(conn[c], starts) /\ SentSince(kind[c], conn[c])
BY DEF ConnInv, Good

LEMMA TurnAwayHolds == ASSUME ConnInv, NEW c \in Conn, TurnAway(c) PROVE ConnInv'
<1>1. Still /\ known' \in 0..MaxStarts /\ holds' = holds
  BY DEF TurnAway, Still, ConnInv, BoxIsLatest, box
<1>2. conn[c].held = FALSE
  BY Was DEF TurnAway, In, HasHold, Connection
<1>3. PICK r : r = [Fresh EXCEPT !.pc = "done"]
  OBVIOUS
<1> QED BY <1>1, <1>2, <1>3, FreshIsGood, Stays DEF TurnAway

LEMMA ArriveHolds == ASSUME ConnInv, NEW c \in Conn, Arrive(c) PROVE ConnInv'
<1>1. Still /\ known \in 0..MaxStarts /\ known' \in 0..MaxStarts /\ holds' = holds + 1
  BY DEF Arrive, Still, ConnInv, BoxIsLatest, box
<1>2. conn[c].held = FALSE
  BY Was DEF Arrive, In, HasHold, Connection
<1> DEFINE u == IF believed THEN known ELSE 0
           w == known # 0 /\ ~believed
           p == IF known = 0 THEN "look" ELSE IF believed THEN "dial" ELSE "wake"
<1>3. PICK r : r = [Fresh EXCEPT !.held = TRUE, !.up = u, !.woke = w, !.pc = p]
  OBVIOUS
<1>4. /\ r.held = TRUE /\ r.gone = FALSE /\ r.since = 0 /\ r.read = 0 /\ r.sent = 0
      /\ r.up \in 0..MaxStarts /\ r.pc \in {"look", "dial", "wake"}
  BY <1>1, <1>3 DEF Fresh
<1>5. r \in Connection
  <2>1. u \in 0..MaxStarts /\ w \in BOOLEAN /\ p \in PC
    BY <1>1 DEF PC
  <2> HIDE DEF u, w, p
  <2> QED BY <1>3, <2>1, FreshIsTyped DEF Connection
<1>6. Good(kind[c], r, starts)
  BY <1>4, <1>5 DEF Good, HasHold, ReadSince, SentSince, ConnInv, BoxIsLatest
<1>7. Become(c, r)
  BY <1>3 DEF Arrive
<1> QED BY <1>1, <1>2, <1>4, <1>6, <1>7, StillBox, Becomes

LEMMA InspectHolds == ASSUME ConnInv, NEW c \in Conn, Inspect(c) PROVE ConnInv'
<1>1. Still /\ known' \in 0..MaxStarts /\ holds' = holds
  BY DEF Inspect, Still, ConnInv, BoxIsLatest, box
<1>2. PICK r : r = [conn[c] EXCEPT !.read = running,
                      !.pc = IF In(c, "look") THEN "looked" ELSE "relooked"]
  OBVIOUS
<1>3. running \in 0..MaxStarts /\ running \in {0, starts} /\ starts \in Nat
  BY DEF ConnInv, BoxIsLatest
<1>4. r \in Connection /\ r.held = conn[c].held
  <2>1. PICK p \in PC : r = [conn[c] EXCEPT !.read = running, !.pc = p]
    BY <1>2 DEF PC
  <2> QED BY <1>3, <2>1, Was DEF Connection
<1>5. /\ r.gone = conn[c].gone /\ r.since = conn[c].since /\ r.sent = conn[c].sent
      /\ r.read = running /\ r.pc = IF conn[c].pc = "look" THEN "looked" ELSE "relooked"
  BY <1>2, Was DEF In, Connection
<1>6. HasHold(r) /\ ReadSince(r, starts) /\ SentSince(kind[c], r)
  BY <1>3, <1>4, <1>5, Was DEF Inspect, In, HasHold, ReadSince, SentSince, Connection
<1> QED BY <1>1, <1>2, <1>4, <1>6, Stays DEF Inspect, Good

LEMMA LookedHolds == ASSUME ConnInv, NEW c \in Conn, Looked(c) PROVE ConnInv'
<1>1. Still /\ known' \in 0..MaxStarts
  BY Was DEF Looked, Still, Connection
<1>2. CASE End(c)
  BY <1>1, <1>2, EndsHold
<1>3. CASE ~End(c)
  <2> DEFINE wake == conn[c].read = 0 \/ ~believed
  <2> DEFINE u == IF wake THEN 0 ELSE conn[c].read
             p == IF wake THEN "wake" ELSE "dial"
  <2>1. PICK r : r = [conn[c] EXCEPT !.read = 0, !.woke = wake, !.up = u, !.pc = p]
    OBVIOUS
  <2>2. Become(c, r) /\ holds' = holds
    BY <1>3, <2>1 DEF Looked
  <2>3. r \in Connection /\ r.held = conn[c].held
    <3>1. wake \in BOOLEAN /\ u \in 0..MaxStarts /\ 0 \in 0..MaxStarts /\ p \in PC
      BY Was DEF PC, Connection
    <3> HIDE DEF wake, u, p
    <3> QED BY <2>1, <3>1, Was DEF Connection
  <2>4. /\ r.gone = conn[c].gone /\ r.since = conn[c].since /\ r.sent = conn[c].sent
        /\ r.read = 0 /\ r.pc \in {"wake", "dial"} /\ r.up \in Nat
    BY <2>1, Was DEF Connection
  <2>5. HasHold(r) /\ ReadSince(r, starts) /\ SentSince(kind[c], r)
    BY <2>3, <2>4, Was DEF Looked, In, HasHold, ReadSince, SentSince, Connection
  <2> QED BY <1>1, <2>2, <2>3, <2>5, Stays DEF Good
<1> QED BY <1>2, <1>3

LEMMA WakeHolds == ASSUME ConnInv, NEW c \in Conn, Wake(c) PROVE ConnInv'
<1>1. /\ BoxIsLatest' /\ kind' = kind /\ holds' = holds /\ starts' >= starts
      /\ running' \in 1..MaxStarts /\ running' <= starts' /\ starts' \in Nat
  BY DEF Wake, Afresh, ConnInv, BoxIsLatest
<1>2. PICK r : r = [conn[c] EXCEPT !.since = running', !.up = 0, !.pc = "relook"]
  OBVIOUS
<1>3. r \in Connection /\ r.held = conn[c].held
  <2> running' \in 0..MaxStarts /\ 0 \in 0..MaxStarts /\ "relook" \in PC
    BY <1>1 DEF PC
  <2> QED BY <1>2, Was DEF Connection
<1>4. /\ r.gone = conn[c].gone /\ r.since = running' /\ r.sent = conn[c].sent
      /\ r.pc = "relook"
  BY <1>2, Was DEF Connection
<1>5. HasHold(r) /\ ReadSince(r, starts') /\ SentSince(kind[c], r)
  BY <1>1, <1>3, <1>4, Was DEF Wake, In, HasHold, ReadSince, SentSince, Connection
<1>6. Become(c, r)
  BY <1>2 DEF Wake, Afresh
<1> QED BY <1>1, <1>3, <1>5, <1>6, Becomes DEF Good

LEMMA RelookedHolds == ASSUME ConnInv, NEW c \in Conn, Relooked(c) PROVE ConnInv'
<1>1. Still /\ known' \in 0..MaxStarts
  BY Was DEF Relooked, Still, Connection
<1>2. CASE conn[c].read = 0
  BY <1>1, <1>2, EndsHold DEF Relooked
<1>3. CASE conn[c].read # 0
  <2>1. PICK r : r = [conn[c] EXCEPT !.up = conn[c].read, !.read = 0, !.pc = "probe"]
    OBVIOUS
  <2>2. Become(c, r) /\ holds' = holds
    BY <1>3, <2>1 DEF Relooked
  <2>3. r \in Connection /\ r.held = conn[c].held
    <3> 0 \in 0..MaxStarts /\ "probe" \in PC
      BY DEF PC
    <3> QED BY <2>1, Was DEF Connection
  <2>4. /\ r.gone = conn[c].gone /\ r.since = conn[c].since /\ r.sent = conn[c].sent
        /\ r.pc = "probe" /\ r.up = conn[c].read
    BY <2>1, Was DEF Connection
  <2>5. HasHold(r) /\ ReadSince(r, starts) /\ SentSince(kind[c], r)
    BY <1>3, <2>3, <2>4, Was DEF Relooked, In, HasHold, ReadSince, SentSince, Connection
  <2> QED BY <1>1, <2>2, <2>3, <2>5, Stays DEF Good
<1> QED BY <1>2, <1>3

\* A connection that goes on to dial or to the gate with the address it has.
LEMMA GoesOn ==
    ASSUME ConnInv, NEW c \in Conn, NEW p \in {"gate", "dial"}, NEW t \in 0..Tries,
           conn[c].pc \in {"probe", "gate", "sent"}, conn[c].pc = "sent" => kind[c] # "post",
           Become(c, [conn[c] EXCEPT !.pc = p, !.tries = t]),
           Still, known' = known, holds' = holds
    PROVE  ConnInv'
<1>1. known' \in 0..MaxStarts
  BY DEF ConnInv, BoxIsLatest
<1>2. PICK r : r = [conn[c] EXCEPT !.pc = p, !.tries = t]
  OBVIOUS
<1>3. r \in Connection /\ r.held = conn[c].held
  <2> p \in PC
    BY DEF PC
  <2> QED BY <1>2, Was DEF Connection
<1>4. /\ r.gone = conn[c].gone /\ r.since = conn[c].since /\ r.sent = conn[c].sent
      /\ r.pc = p /\ r.up = conn[c].up
  BY <1>2, Was DEF Connection
<1>5. HasHold(r) /\ ReadSince(r, starts) /\ SentSince(kind[c], r)
  BY <1>3, <1>4, Was DEF HasHold, ReadSince, SentSince, Connection
<1> QED BY <1>1, <1>2, <1>3, <1>5, Stays DEF Good

LEMMA ProbeHolds == ASSUME ConnInv, NEW c \in Conn, Probe(c) PROVE ConnInv'
<1>1. Still /\ known' = known /\ known' \in 0..MaxStarts
  BY DEF Probe, Still, box, ConnInv, BoxIsLatest
<1>2. CASE End(c)
  BY <1>1, <1>2, EndsHold
<1>3. CASE ~End(c)
  <2>1. PICK p \in {"gate", "dial"} : Become(c, [conn[c] EXCEPT !.pc = p])
    BY <1>3 DEF Probe
  <2>2. [conn[c] EXCEPT !.pc = p] = [conn[c] EXCEPT !.pc = p, !.tries = conn[c].tries]
    BY Was DEF Connection
  <2>3. conn[c].tries \in 0..Tries /\ conn[c].pc = "probe" /\ holds' = holds
    BY <1>3, Was DEF Probe, In, Connection
  <2> QED BY <1>1, <2>1, <2>2, <2>3, GoesOn
<1> QED BY <1>2, <1>3

LEMMA GateHolds == ASSUME ConnInv, NEW c \in Conn, Gate(c) PROVE ConnInv'
<1>1. Still /\ known' = known /\ holds' = holds /\ conn[c].pc = "gate"
  BY DEF Gate, Still, box, In
<1>2. [conn[c] EXCEPT !.pc = "dial"] = [conn[c] EXCEPT !.pc = "dial", !.tries = conn[c].tries]
  BY Was DEF Connection
<1>3. conn[c].tries \in 0..Tries
  BY Was DEF Connection
<1> QED BY <1>1, <1>2, <1>3, GoesOn DEF Gate

LEMMA Answered5xxHolds == ASSUME ConnInv, NEW c \in Conn, Answered5xx(c) PROVE ConnInv'
<1>1. Still /\ known' = known /\ known' \in 0..MaxStarts /\ conn[c].pc = "sent" /\ kind[c] # "post"
  BY DEF Answered5xx, Still, box, ConnInv, BoxIsLatest, In
<1>2. CASE conn[c].gone
  BY <1>1, <1>2, EndsHold DEF Answered5xx
<1>3. CASE ~conn[c].gone
  <2>1. conn[c].tries + 1 \in 0..Tries
    BY Was DEF Answered5xx, Connection
  <2>2. Become(c, [conn[c] EXCEPT !.pc = "dial", !.tries = conn[c].tries + 1]) /\ holds' = holds
    BY <1>3 DEF Answered5xx
  <2> QED BY <1>1, <2>1, <2>2, GoesOn
<1> QED BY <1>2, <1>3

\* Bytes that flow are under the hold and the client the connection had.
LEMMA SplicesHold ==
    ASSUME ConnInv, NEW c \in Conn, conn[c].pc \in {"dial", "sent"}, Become(c, Spliced(c)),
           Still, known' = known, holds' = holds
    PROVE  ConnInv'
<1>1. known' \in 0..MaxStarts
  BY DEF ConnInv, BoxIsLatest
<1>2. PICK r : r = Spliced(c)
  OBVIOUS
<1>3. r \in Connection /\ r.held = conn[c].held
  <2>1. conn[c].up \in 0..MaxStarts /\ conn[c].held \in BOOLEAN /\ conn[c].gone \in BOOLEAN
        /\ "spliced" \in PC
    BY Was DEF Connection, PC
  <2>2. r.held = conn[c].held
    BY <1>2 DEF Spliced, Fresh
  <2> QED BY <1>2, <2>1, <2>2, FreshIsTyped DEF Spliced, Connection
<1>4. r.gone = conn[c].gone /\ r.since = 0 /\ r.sent = 0 /\ r.pc = "spliced"
  BY <1>2 DEF Spliced, Fresh
<1>5. starts \in Nat
  BY DEF ConnInv, BoxIsLatest
<1>6. HasHold(r) /\ ReadSince(r, starts) /\ SentSince(kind[c], r)
  BY <1>3, <1>4, <1>5, Was DEF HasHold, ReadSince, SentSince, Connection
<1> QED BY <1>1, <1>2, <1>3, <1>6, Stays DEF Good

LEMMA ConnectedHolds == ASSUME ConnInv, NEW c \in Conn, Connected(c) PROVE ConnInv'
<1>1. Still /\ known' = known /\ known' \in 0..MaxStarts /\ conn[c].pc = "dial"
  BY DEF Connected, Still, box, ConnInv, BoxIsLatest, In
<1>2. CASE Become(c, [conn[c] EXCEPT !.pc = "sent", !.sent = conn[c].sent + 1]) /\ holds' = holds
  <2>1. PICK r : r = [conn[c] EXCEPT !.pc = "sent", !.sent = conn[c].sent + 1]
    OBVIOUS
  <2>2. r \in Connection /\ r.held = conn[c].held
    <3> conn[c].sent + 1 \in Nat /\ "sent" \in PC
      BY Was DEF Connection, PC
    <3> QED BY <2>1, Was DEF Connection
  <2>3. /\ r.gone = conn[c].gone /\ r.since = conn[c].since /\ r.sent = conn[c].sent + 1
        /\ r.pc = "sent" /\ r.up = conn[c].up
    BY <2>1, Was DEF Connection
  <2>4. HasHold(r) /\ ReadSince(r, starts) /\ SentSince(kind[c], r)
    BY <1>1, <2>2, <2>3, Was DEF HasHold, ReadSince, SentSince, Connection
  <2> QED BY <1>1, <1>2, <2>1, <2>2, <2>4, Stays DEF Good
<1>3. CASE Become(c, Spliced(c)) /\ holds' = holds
  BY <1>1, <1>3, SplicesHold
<1>4. CASE End(c)
  BY <1>1, <1>4, EndsHold
<1> QED BY <1>2, <1>3, <1>4 DEF Connected

LEMMA AnsweredHolds == ASSUME ConnInv, NEW c \in Conn, Answered(c) PROVE ConnInv'
<1>1. Still /\ known' = known /\ known' \in 0..MaxStarts /\ conn[c].pc = "sent"
  BY DEF Answered, Still, box, ConnInv, BoxIsLatest, In
<1> QED BY <1>1, SplicesHold, EndsHold DEF Answered

\* A retry starts over but for the body, which only a container that fell silent may have.
LEMMA RetryHolds ==
    ASSUME ConnInv, NEW c \in Conn, conn[c].pc \in {"dial", "sent"},
           conn[c].pc = "sent" /\ kind[c] = "post" => Silent,
           Retry(c), Still, known' \in 0..MaxStarts
    PROVE  ConnInv'
<1>1. PICK r : r = [conn[c] EXCEPT !.pc = "wake", !.forced = TRUE, !.up = 0, !.since = 0]
  OBVIOUS
<1>2. r \in Connection /\ r.held = conn[c].held
  <2> 0 \in 0..MaxStarts /\ TRUE \in BOOLEAN /\ "wake" \in PC
    BY DEF PC
  <2> QED BY <1>1, Was DEF Connection
<1>3. /\ r.gone = conn[c].gone /\ r.since = 0 /\ r.sent = conn[c].sent /\ r.pc = "wake"
  BY <1>1, Was DEF Connection
<1>4. starts \in Nat
  BY DEF ConnInv, BoxIsLatest
<1>5. HasHold(r) /\ ReadSince(r, starts) /\ SentSince(kind[c], r)
  BY <1>2, <1>3, <1>4, Was DEF HasHold, ReadSince, SentSince, Connection
<1>6. Become(c, r) /\ holds' = holds
  BY <1>1 DEF Retry
<1> QED BY <1>2, <1>5, <1>6, Stays DEF Good

LEMMA RefusedHolds == ASSUME ConnInv, NEW c \in Conn, Refused(c) PROVE ConnInv'
<1>1. Still /\ known' \in 0..MaxStarts /\ conn[c].pc = "dial"
  BY DEF Refused, Still, box, ConnInv, BoxIsLatest, In
<1> QED BY <1>1, RetryHolds, EndsHold DEF Refused

LEMMA CutOffHolds == ASSUME ConnInv, NEW c \in Conn, CutOff(c) PROVE ConnInv'
<1>1. Still /\ known' \in 0..MaxStarts /\ conn[c].pc = "sent"
  BY DEF CutOff, Still, box, In
<1>2. Again(c) /\ kind[c] = "post" => Silent
  BY <1>1 DEF Again, In, Http
<1> QED BY <1>1, <1>2, RetryHolds, EndsHold DEF CutOff

\* The client that goes takes the hold with it, wherever its connection is.
LEMMA GoneIsGood ==
    ASSUME ConnInv, NEW c \in Conn, Open(c)
    PROVE  Good(kind[c], Gone(c), starts) /\ Gone(c).held = FALSE
<1>1. CASE conn[c].pc \in {"hello", "spliced"}
  BY <1>1, FreshIsGood DEF Gone
<1>2. CASE conn[c].pc \notin {"hello", "spliced"}
  <2>1. PICK r : r = [conn[c] EXCEPT !.gone = TRUE, !.held = FALSE]
    OBVIOUS
  <2>2. Gone(c) = r
    BY <1>2, <2>1 DEF Gone
  <2>3. r \in Connection /\ r.held = FALSE
    BY <2>1, Was DEF Connection
  <2>4. /\ r.gone = TRUE /\ r.since = conn[c].since /\ r.sent = conn[c].sent
        /\ r.pc = conn[c].pc /\ r.up = conn[c].up /\ r.read = conn[c].read
    BY <2>1, Was DEF Connection
  <2>5. HasHold(r) /\ ReadSince(r, starts) /\ SentSince(kind[c], r)
    BY <2>3, <2>4, Was DEF HasHold, ReadSince, SentSince, Connection
  <2> QED BY <2>2, <2>3, <2>5 DEF Good
<1> QED BY <1>1, <1>2

LEMMA LeaveHolds == ASSUME ConnInv, NEW c \in Conn, Leave(c) PROVE ConnInv'
<1>1. Still /\ known' \in 0..MaxStarts /\ Open(c)
  BY DEF Leave, Still, box, ConnInv, BoxIsLatest, Held
<1>2. conn[c].held = TRUE
  BY Was DEF Leave, Held, Open, In, HasHold, Connection
<1> QED BY <1>1, <1>2, GoneIsGood, StillBox, Becomes DEF Leave, Releasing

LEMMA StopRouterHolds == ASSUME ConnInv, StopRouter PROVE ConnInv'
<1>1. Still /\ known' \in 0..MaxStarts
  BY DEF StopRouter, Still, box, ConnInv, BoxIsLatest
<1>2. ASSUME NEW c \in Conn
      PROVE  Good(kind[c], conn'[c], starts) /\ conn'[c].held = FALSE
  <2>1. CASE Open(c)
    BY <2>1, GoneIsGood DEF StopRouter
  <2>2. CASE ~Open(c)
    <3>1. PICK r : r = [conn[c] EXCEPT !.pc = "done"]
      OBVIOUS
    <3>2. conn'[c] = r
      BY <2>2, <3>1 DEF StopRouter
    <3>3. r \in Connection /\ r.held = FALSE
      <4> conn[c].held = FALSE /\ "done" \in PC
        BY <2>2, Was DEF Open, HasHold, Connection, PC
      <4> QED BY <3>1, Was DEF Connection
    <3>4. r.pc = "done" /\ r.since = conn[c].since /\ r.sent = conn[c].sent
      BY <3>1, Was DEF Connection
    <3>5. HasHold(r) /\ ReadSince(r, starts) /\ SentSince(kind[c], r)
      BY <2>2, <3>3, <3>4, Was DEF Open, HasHold, ReadSince, SentSince, Connection
    <3> QED BY <3>2, <3>3, <3>5 DEF Good
  <2> QED BY <2>1, <2>2
<1>3. conn' \in [Conn -> Connection]
  BY <1>2 DEF StopRouter, Good
<1>4. Holders' = {}
  BY <1>2 DEF Holders
<1>5. holds' = 0
  BY FS_Subset, FS_CardinalityType DEF StopRouter, ConnInv, Holders
<1> QED BY <1>1, <1>2, <1>3, <1>4, <1>5, StillBox, FS_EmptySet DEF ConnInv

\* What happens to the container leaves the connections alone, and starts only grow.
LEMMA BoxHolds ==
    ASSUME ConnInv, \/ Restart \/ Crash \/ Sleep \/ Suspend \/ Bring \/ Sweep \/ Expire
    PROVE  ConnInv'
<1>1. kind' = kind /\ conn' = conn /\ holds' = holds
  BY DEF Restart, Crash, Sleep, Suspend, Bring, Sweep, Expire
<1>2. BoxIsLatest' /\ starts' >= starts /\ starts \in Nat /\ starts' \in Nat
  <2> BoxIsLatest
    BY DEF ConnInv
  <2> USE DEF BoxIsLatest
  <2>1. CASE Restart
    BY <2>1 DEF Restart
  <2>2. CASE Bring
    BY <2>2 DEF Bring
  <2>3. CASE Sweep
    BY <2>3 DEF Sweep
  <2>4. CASE Crash
    BY <2>4 DEF Crash
  <2>5. CASE Sleep \/ Suspend
    <3>1. starts' = starts /\ running' = 0 /\ known' = 0 /\ believed' = FALSE
      BY <2>5 DEF Sleep, Suspend
    <3>2. wanted' \in BOOLEAN
      BY <2>5 DEF Sleep, Suspend
    <3>3. starts \in Nat /\ 0 \in 0..MaxStarts
      OBVIOUS
    <3>4. believed' \in BOOLEAN
      BY <3>1
    <3>5. starts' \in 1..MaxStarts /\ known' \in 0..MaxStarts
      BY <3>1, <3>3 DEF BoxIsLatest
    <3>6. running' \in {0, starts'}
      BY <3>1
    <3>7. BoxIsLatest'
      BY <3>2, <3>4, <3>5, <3>6 DEF BoxIsLatest
    <3>8. starts' >= starts /\ starts \in Nat /\ starts' \in Nat
      BY <3>1, <3>3
    <3> QED BY <3>7, <3>8
  <2>6. CASE Expire
    BY <2>6 DEF Expire, box
  <2> QED BY <2>1, <2>2, <2>3, <2>4, <2>5, <2>6
<1>3. ASSUME NEW c \in Conn PROVE Good(kind[c], conn[c], starts')
  <2> conn[c].since \in Nat
    BY Was DEF Connection
  <2> QED BY <1>2, Was DEF Good, ReadSince
<1>4. Holders' = Holders
  BY <1>1 DEF Holders
<1> QED BY <1>1, <1>2, <1>3, <1>4 DEF ConnInv

LEMMA StepHolds == ConnInv /\ [ConnNext]_connVars => ConnInv'
<1> SUFFICES ASSUME ConnInv, [ConnNext]_connVars PROVE ConnInv'
  OBVIOUS
<1>1. ASSUME NEW c \in Conn, Step(c) PROVE ConnInv'
  <2>1. CASE Decline(c) \/ WakeFails(c) \/ ProbeFails(c)
    <3> Still /\ known' \in 0..MaxStarts /\ End(c)
      BY <2>1 DEF Decline, WakeFails, ProbeFails, Still, box, ConnInv, BoxIsLatest
    <3> QED BY EndsHold
  <2> QED BY <1>1, <2>1, InspectHolds, LookedHolds, WakeHolds, RelookedHolds, ProbeHolds,
             GateHolds, ConnectedHolds, RefusedHolds, AnsweredHolds, Answered5xxHolds,
             CutOffHolds DEF Step
<1>2. ASSUME NEW c \in Conn, Finish(c) PROVE ConnInv'
  <2> Still /\ known' \in 0..MaxStarts /\ End(c)
    BY <1>2 DEF Finish, Still, box, ConnInv, BoxIsLatest
  <2> QED BY EndsHold
<1>3. CASE UNCHANGED connVars
  BY <1>3 DEF connVars, box, ConnInv, BoxIsLatest, Holders
<1> QED BY <1>1, <1>2, <1>3, NegotiateHolds, ArriveHolds, TurnAwayHolds, LeaveHolds,
           StopRouterHolds, BoxHolds DEF ConnNext

-----------------------------------------------------------------------------
LEMMA InvIsEnough == ConnInv => AddressesHold
<1> SUFFICES ASSUME ConnInv PROVE AddressesHold
  OBVIOUS
<1>1. {c \in Conn : Held(c)} = Holders
  BY Was DEF Held, Open, In, Holders, HasHold, Connection
<1>2. HoldsMatch
  BY <1>1 DEF HoldsMatch, ConnInv
<1>3. WokenIsCurrent
  BY Was DEF WokenIsCurrent, ReadSince
<1>4. SentOnce
  BY Was DEF SentOnce, SentSince
<1> QED BY <1>2, <1>3, <1>4 DEF AddressesHold

\* Every hold is released once and none is lost, what woke a container dials that start of it
\* or a later one, and a body goes out once: for any connections to the service, whatever the
\* container does meanwhile (the lanes of src/src/router over wake.ts and upstream.ts).
THEOREM AddressesTheorem == ConnSpec => []AddressesHold
<1>1. ConnInit => ConnInv
  BY InitHolds
<1>2. ConnInv /\ [ConnNext]_connVars => ConnInv'
  BY StepHolds
<1>3. ConnInv => AddressesHold
  BY InvIsEnough
<1> QED BY <1>1, <1>2, <1>3, PTL DEF ConnSpec
===============================================================================
