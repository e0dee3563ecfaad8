---------------------------- MODULE LlmClientProofs ----------------------------
(***************************************************************************)
(* Proofs about LlmClient for any number of tasks, prompts, prices, retries *)
(* and entries: types, how far calls in flight together can take the       *)
(* spending past the ceiling, and that the cache is least-recently-used    *)
(* across restarts.                                                        *)
(***************************************************************************)
EXTENDS MCLlmClient, FiniteSetTheorems, WellFoundedInduction, TLAPS

\* The tasks whose call may still be charged.
Busy == {t \in Tasks : call[t] # Idle}

\* Were every call in flight to cost as much as it can, the bound would hold.
BudgetInv ==
    /\ spent \in Nat
    /\ call = [t \in Tasks |-> call[t]]
    /\ spent + Cardinality(Busy) * MaxCost < Ceiling + Cardinality(Tasks) * MaxCost

--------------------------------------------------------------------------------

LEMMA TasksAreCounted ==
    ASSUME NEW S, S \subseteq Tasks
    PROVE  /\ IsFiniteSet(S) /\ Cardinality(S) \in Nat
           /\ Cardinality(S) <= Cardinality(Tasks)
           /\ Cardinality(Tasks) \in Nat
           /\ \A T \in SUBSET S : Cardinality(T) <= Cardinality(S)
  BY LlmAssumption, FS_Subset, FS_CardinalityType

\* Products by a price are monotone.
LEMMA CostsAreMonotone ==
    ASSUME NEW a \in Nat, NEW b \in Nat, a <= b
    PROVE  /\ a * MaxCost \in Nat /\ b * MaxCost \in Nat
           /\ a * MaxCost <= b * MaxCost
           /\ (a + 1) * MaxCost = a * MaxCost + MaxCost
<1>1. MaxCost \in Nat /\ b - a \in Nat
  BY LlmAssumption
<1>2. PICK d \in Nat : b = a + d
  BY <1>1
<1>3. b * MaxCost = a * MaxCost + d * MaxCost /\ d * MaxCost \in Nat /\ a * MaxCost \in Nat
  BY <1>1, <1>2
<1>4. QED BY <1>1, <1>3

\* A step that charges nothing and starts no call.
LEMMA QuietStep ==
    ASSUME BudgetInv, UNCHANGED spent, call' = [t \in Tasks |-> call'[t]], Busy' \subseteq Busy
    PROVE  BudgetInv'
<1>1. /\ Cardinality(Busy) \in Nat /\ Cardinality(Busy') \in Nat
      /\ Cardinality(Busy') <= Cardinality(Busy) /\ Cardinality(Tasks) \in Nat
  BY TasksAreCounted DEF Busy
<1>2. /\ Cardinality(Busy') * MaxCost <= Cardinality(Busy) * MaxCost
      /\ Cardinality(Busy') * MaxCost \in Nat /\ Cardinality(Busy) * MaxCost \in Nat
      /\ Cardinality(Tasks) * MaxCost \in Nat /\ Ceiling \in Nat
  BY <1>1, CostsAreMonotone, LlmAssumption
<1>3. QED BY <1>2 DEF BudgetInv

LEMMA InitBudget == Init => BudgetInv
<1> SUFFICES ASSUME Init PROVE BudgetInv
  OBVIOUS
<1>1. Busy = {} /\ call = [t \in Tasks |-> call[t]]
  BY DEF Init, Busy
<1>2. Cardinality(Busy) = 0 /\ Cardinality(Tasks) \in Nat
  BY <1>1, FS_EmptySet, TasksAreCounted
<1>3. Cardinality(Tasks) * MaxCost \in Nat /\ 0 * MaxCost = 0 /\ Ceiling \in Nat \ {0}
  BY <1>2, CostsAreMonotone, LlmAssumption
<1>4. QED BY <1>1, <1>2, <1>3 DEF Init, BudgetInv

LEMMA NextBudget == BudgetInv /\ [Next]_vars => BudgetInv'
<1> SUFFICES ASSUME BudgetInv, [Next]_vars PROVE BudgetInv'
  OBVIOUS
<1>1. ASSUME NEW t \in Tasks, NEW k \in Prompts \cup {NoKey}, Complete(t, k)
      PROVE  BudgetInv'
  <2>1. call' = [u \in Tasks |-> call'[u]] /\ UNCHANGED spent
    BY <1>1 DEF Complete, BudgetInv
  <2>2. CASE Hit(k) \/ ~Available
    <3>1. Busy' \subseteq Busy
      BY <1>1, <2>2 DEF Complete, Busy, BudgetInv
    <3>2. QED BY <2>1, <3>1, QuietStep
  <2>3. CASE Available
    <3>1. Cardinality(Busy') \in Nat /\ Cardinality(Busy') <= Cardinality(Tasks)
          /\ Cardinality(Tasks) \in Nat
      BY TasksAreCounted DEF Busy
    <3>2. /\ Cardinality(Busy') * MaxCost <= Cardinality(Tasks) * MaxCost
          /\ Cardinality(Busy') * MaxCost \in Nat /\ Cardinality(Tasks) * MaxCost \in Nat
      BY <3>1, CostsAreMonotone
    <3>3. spent < Ceiling /\ spent \in Nat /\ Ceiling \in Nat
      BY <2>3, LlmAssumption DEF Available, BudgetInv
    <3>4. QED BY <2>1, <3>2, <3>3 DEF BudgetInv
  <2>4. QED BY <2>2, <2>3
<1>2. ASSUME NEW t \in Tasks, NEW cost \in 0..MaxCost, NEW clean \in BOOLEAN, Answer(t, cost, clean)
      PROVE  BudgetInv'
  <2>1. call' = [call EXCEPT ![t] = Idle] /\ spent' = spent + cost /\ call[t].pc = "calling"
    BY <1>2 DEF Answer, Charge
  <2>2. t \in Busy /\ Busy' = Busy \ {t} /\ call' = [u \in Tasks |-> call'[u]]
    <3>1. t \in Busy
      BY <2>1 DEF Busy, Idle
    <3>2. call' = [u \in Tasks |-> IF u = t THEN Idle ELSE call[u]]
      BY <2>1 DEF BudgetInv
    <3>3. Busy' = Busy \ {t}
      BY <3>2 DEF Busy
    <3>4. QED BY <3>1, <3>2, <3>3
  <2>3. Cardinality(Busy') \in Nat /\ Cardinality(Busy') + 1 = Cardinality(Busy)
        /\ Cardinality(Tasks) \in Nat /\ Cardinality(Busy) \in Nat
    <3>1. IsFiniteSet(Busy) /\ Cardinality(Busy) \in Nat /\ Cardinality(Tasks) \in Nat
          /\ Cardinality(Busy') \in Nat
      BY TasksAreCounted DEF Busy
    <3>2. Cardinality(Busy \ {t}) = Cardinality(Busy) - 1
      BY <2>2, <3>1, FS_RemoveElement
    <3>3. QED BY <2>2, <3>1, <3>2
  <2>4. Cardinality(Busy) * MaxCost = Cardinality(Busy') * MaxCost + MaxCost
        /\ Cardinality(Busy') * MaxCost \in Nat /\ Cardinality(Tasks) * MaxCost \in Nat
    BY <2>3, CostsAreMonotone
  <2>5. MaxCost \in Nat /\ Ceiling \in Nat /\ cost \in Nat /\ cost <= MaxCost /\ spent \in Nat
    BY LlmAssumption DEF BudgetInv
  <2>6. QED BY <2>1, <2>2, <2>4, <2>5 DEF BudgetInv
<1>3. ASSUME NEW t \in Tasks, NEW permanent \in BOOLEAN, Fail(t, permanent)
      PROVE  BudgetInv'
  <2>1. /\ UNCHANGED spent /\ call' = [u \in Tasks |-> call'[u]]
        /\ \A u \in Tasks \ {t} : call'[u] = call[u]
    BY <1>3 DEF Fail, BudgetInv
  <2>2. t \in Busy
    BY <1>3 DEF Fail, Busy, Idle
  <2>3. QED BY <2>1, <2>2, QuietStep DEF Busy
<1>4. ASSUME NEW t \in Tasks, Retry(t)
      PROVE  BudgetInv'
  <2>1. /\ UNCHANGED spent /\ call' = [u \in Tasks |-> call'[u]]
        /\ \A u \in Tasks \ {t} : call'[u] = call[u]
    BY <1>4 DEF Retry, BudgetInv
  <2>2. t \in Busy
    BY <1>4 DEF Retry, Busy, Idle
  <2>3. QED BY <2>1, <2>2, QuietStep DEF Busy
<1>5. ASSUME UNCHANGED spent, call' = [t \in Tasks |-> Idle]
      PROVE  BudgetInv'
  BY <1>5, QuietStep DEF Busy
<1>6. ASSUME UNCHANGED <<spent, call>>
      PROVE  BudgetInv'
  BY <1>6, QuietStep DEF Busy, BudgetInv
<1>7. ASSUME Start
      PROVE  BudgetInv'
  <2>1. CASE spent \in Nat
    <3>1. UNCHANGED call /\ spent' = 0 /\ Busy' = Busy
      BY <1>7 DEF Start, Busy
    <3>2. Cardinality(Busy) \in Nat /\ Cardinality(Tasks) \in Nat
      BY TasksAreCounted DEF Busy
    <3>3. Cardinality(Busy) * MaxCost \in Nat /\ Cardinality(Tasks) * MaxCost \in Nat
      BY <3>2, CostsAreMonotone
    <3>4. Ceiling \in Nat
      BY LlmAssumption
    <3>5. QED BY <2>1, <3>1, <3>3, <3>4 DEF BudgetInv
  <2>2. QED BY <2>1 DEF BudgetInv
<1>8. CASE \E t \in Tasks :
          \/ \E k \in Prompts \cup {NoKey} : Complete(t, k)
          \/ Returns(t)
          \/ Retry(t)
  BY <1>1, <1>2, <1>3, <1>4, <1>8 DEF Returns
<1>9. CASE \E t \in Tasks : \E cost \in 0..MaxCost : CrashInPut(t, cost)
  BY <1>5, <1>9 DEF CrashInPut, Halt
<1>10. CASE (\E p \in Prompts : Delete(p)) \/ Clear \/ Crash \/ Start \/ UNCHANGED vars
  BY <1>5, <1>6, <1>7, <1>10 DEF Delete, Clear, Crash, Halt, vars
<1>11. QED BY <1>8, <1>9, <1>10 DEF Next

\* No call begins on a spent budget, so the spending passes the ceiling by no
\* more than the calls in flight can cost (BudgetGuard.ensure_available and
\* charge around the await of LLMClient.complete).
THEOREM BoundedOverspend == Spec => []OverspendIsBounded
<1>1. BudgetInv => OverspendIsBounded
  <2> SUFFICES ASSUME BudgetInv PROVE OverspendIsBounded
    OBVIOUS
  <2>1. Cardinality(Busy) \in Nat /\ Cardinality(Tasks) \in Nat
    BY TasksAreCounted DEF Busy
  <2>2. Cardinality(Busy) * MaxCost \in Nat /\ Cardinality(Tasks) * MaxCost \in Nat
    BY <2>1, CostsAreMonotone
  <2>3. Ceiling \in Nat
    BY LlmAssumption
  <2>4. QED BY <2>2, <2>3 DEF BudgetInv, OverspendIsBounded
<1>2. QED BY <1>1, InitBudget, NextBudget, PTL DEF Spec

--------------------------------------------------------------------------------
(* Types *)

LEMMA IndexFacts ==
    ASSUME NEW i \in Indexes
    PROVE  /\ DOMAIN i \subseteq Prompts
           /\ i \in [DOMAIN i -> 0..MaxTick]
  BY DEF Indexes

LEMMA EmptyIndex == [p \in {} |-> 0] \in Indexes
<1>1. [p \in {} |-> 0] \in [{} -> 0..MaxTick]
  OBVIOUS
<1>2. QED BY <1>1 DEF Indexes

LEMMA WithoutType ==
    ASSUME NEW i \in Indexes, NEW S
    PROVE  Without(i, S) \in Indexes /\ DOMAIN Without(i, S) = DOMAIN i \ S
<1>1. Without(i, S) \in [DOMAIN i \ S -> 0..MaxTick]
  BY IndexFacts DEF Without
<1>2. DOMAIN i \ S \in SUBSET Prompts
  BY IndexFacts
<1>3. QED BY <1>1, <1>2 DEF Indexes, Without

LEMMA EvictionsType ==
    ASSUME NEW i \in Indexes, NEW j \in Evictions(i)
    PROVE  j \in Indexes /\ DOMAIN j \subseteq DOMAIN i
  BY WithoutType DEF Evictions

LEMMA TouchedType ==
    ASSUME NEW i \in Indexes, NEW p \in Prompts, counter \in 0..MaxTick, counter < MaxTick
    PROVE  Touched(i, p) \in Indexes /\ DOMAIN Touched(i, p) = DOMAIN i \cup {p}
<1>1. counter + 1 \in 0..MaxTick
  BY LlmAssumption
<1>2. Touched(i, p) \in [DOMAIN i \cup {p} -> 0..MaxTick]
  BY <1>1, IndexFacts DEF Touched
<1>3. DOMAIN i \cup {p} \in SUBSET Prompts
  BY IndexFacts
<1>4. QED BY <1>2, <1>3 DEF Indexes, Touched

Before == {pair \in Nat \X Nat : pair[1] < pair[2]}

\* A nonempty set of numbers up to a bound has a greatest one.
LEMMA GreatestExists ==
    ASSUME NEW bound \in Nat, NEW S \in SUBSET (0..bound), S # {}
    PROVE  \E n \in S : \A m \in S : m <= n
<1> DEFINE Gaps == {g \in Nat : bound - g \in S}
<1>1. Gaps # {}
  <2>1. PICK m \in S : TRUE
    OBVIOUS
  <2>2. bound - m \in Nat /\ bound - (bound - m) = m
    OBVIOUS
  <2>3. QED BY <2>1, <2>2
<1>2. IsWellFoundedOn(Before, Nat)
  BY NatLessThanWellFounded DEF OpToRel, Before
<1>3. PICK g \in Gaps : \A h \in Gaps : <<h, g>> \notin Before
  BY <1>1, <1>2, WFMin
<1>4. ASSUME NEW m \in S PROVE m <= bound - g
  <2>1. bound - m \in Gaps
    <3>1. bound - m \in Nat /\ bound - (bound - m) = m
      OBVIOUS
    <3>2. QED BY <3>1
  <2>2. ~(bound - m < g)
    BY <1>3, <2>1 DEF Before
  <2>3. bound \in Nat /\ m \in Nat /\ g \in Nat
    OBVIOUS
  <2>4. QED BY <2>2, <2>3
<1>5. QED BY <1>4

LEMMA NewestIsGreatest ==
    ASSUME NEW i \in Indexes, DOMAIN i # {}
    PROVE  /\ Newest(i) \in {i[p] : p \in DOMAIN i}
           /\ \A p \in DOMAIN i : i[p] <= Newest(i)
<1> DEFINE S == {i[p] : p \in DOMAIN i}
<1>1. S \in SUBSET (0..MaxTick) /\ S # {} /\ MaxTick \in Nat
  BY IndexFacts, LlmAssumption
<1>2. \E n \in S : \A m \in S : m <= n
  BY <1>1, GreatestExists
<1>3. \E n \in S : \A p \in DOMAIN i : i[p] <= n
  BY <1>2
<1>4. QED BY <1>3 DEF Newest

LEMMA ReconciledType ==
    ASSUME TypeOK
    PROVE  Reconciled \in Indexes /\ DOMAIN Reconciled = OnDisk(file)
<1>1. 0 \in 0..MaxTick /\ OnDisk(file) \in SUBSET Prompts
  BY LlmAssumption DEF OnDisk
<1>2. \A p \in DOMAIN saved.entries : saved.entries[p] \in 0..MaxTick
  BY IndexFacts DEF TypeOK
<1>3. Reconciled \in [OnDisk(file) -> 0..MaxTick]
  BY <1>1, <1>2 DEF Reconciled
<1>4. QED BY <1>1, <1>3 DEF Indexes, Reconciled

LEMMA LoadedCounterType ==
    ASSUME TypeOK, NEW i \in Indexes
    PROVE  LoadedCounter(i) \in 0..MaxTick
<1>1. DOMAIN i # {} => Newest(i) \in 0..MaxTick
  BY NewestIsGreatest, IndexFacts
<1>2. QED BY <1>1 DEF LoadedCounter, TypeOK

LEMMA InitTypeOK == Init => TypeOK
<1> SUFFICES ASSUME Init PROVE TypeOK
  OBVIOUS
<1>1. 0 \in 0..MaxTick
  BY LlmAssumption
<1>2. index \in Indexes /\ saved = [counter |-> 0, entries |-> index]
  BY EmptyIndex DEF Init
<1>3. QED BY <1>1, <1>2 DEF Init, TypeOK, Call

LEMMA LookupType ==
    ASSUME TypeOK, NEW p \in Prompts, Lookup(p)
    PROVE  /\ counter' \in 0..MaxTick /\ index' \in Indexes
           /\ file' \in [Prompts -> {"none", "torn", "whole"}]
           /\ saved' \in [counter : 0..MaxTick, entries : Indexes]
<1>1. CASE file[p] = "whole"
  <2>1. counter + 1 \in 0..MaxTick
    BY <1>1, LlmAssumption DEF TypeOK, Lookup
  <2>2. Touched(index, p) \in Indexes
    BY <1>1, TouchedType DEF TypeOK, Lookup
  <2>3. QED BY <1>1, <2>1, <2>2 DEF TypeOK, Lookup
<1>2. CASE file[p] # "whole"
  <2>1. Without(index, {p}) \in Indexes
    BY WithoutType DEF TypeOK
  <2>2. QED BY <1>2, <2>1 DEF TypeOK, Lookup
<1>3. QED BY <1>1, <1>2

LEMMA PutType ==
    ASSUME TypeOK, NEW p \in Prompts, Put(p)
    PROVE  /\ counter' \in 0..MaxTick /\ index' \in Indexes
           /\ file' \in [Prompts -> {"none", "torn", "whole"}]
           /\ saved' \in [counter : 0..MaxTick, entries : Indexes]
<1>1. counter + 1 \in 0..MaxTick
  BY LlmAssumption DEF TypeOK, Put
<1>2. Touched(index, p) \in Indexes
  BY TouchedType DEF TypeOK, Put
<1>3. index' \in Indexes
  BY <1>2, EvictionsType DEF Put
<1>4. QED BY <1>1, <1>3 DEF TypeOK, Put

LEMMA NextTypeOK == TypeOK /\ [Next]_vars => TypeOK'
<1> SUFFICES ASSUME TypeOK, [Next]_vars PROVE TypeOK'
  OBVIOUS
<1>1. ASSUME NEW t \in Tasks, NEW k \in Prompts \cup {NoKey}, Complete(t, k)
      PROVE  TypeOK'
  <2>1. InFlight(k) \in Call
    BY LlmAssumption DEF InFlight, Call
  <2>2. call' \in [Tasks -> Call]
    BY <1>1, <2>1 DEF Complete, TypeOK, Call
  <2>3. CASE k = NoKey
    BY <1>1, <2>2, <2>3 DEF Complete, TypeOK
  <2>4. CASE k # NoKey
    <3>1. k \in Prompts /\ Lookup(k) /\ UNCHANGED <<up, spent>>
      BY <1>1, <2>4 DEF Complete
    <3>2. QED BY <2>2, <3>1, LookupType DEF TypeOK
  <2>5. QED BY <2>3, <2>4
<1>2. ASSUME NEW t \in Tasks, NEW cost \in 0..MaxCost, NEW clean \in BOOLEAN, Answer(t, cost, clean)
      PROVE  TypeOK'
  <2>1. /\ call' \in [Tasks -> Call] /\ spent' \in Nat /\ up' = up
        /\ call[t].pc = "calling"
    BY <1>2, LlmAssumption DEF Answer, Charge, TypeOK, Call
  <2>2. CASE Caches(t, cost, clean)
    <3>1. call[t].key \in Prompts
      BY <2>1, <2>2 DEF Caches, TypeOK, Call, Idle
    <3>2. QED BY <1>2, <2>1, <2>2, <3>1, PutType DEF Answer, TypeOK
  <2>3. CASE ~Caches(t, cost, clean)
    BY <1>2, <2>1, <2>3 DEF Answer, TypeOK
  <2>4. QED BY <2>2, <2>3
<1>3. ASSUME NEW t \in Tasks, NEW permanent \in BOOLEAN, Fail(t, permanent)
      PROVE  TypeOK'
  <2>1. call[t] \in [pc : {"calling", "sleeping"}, key : Prompts \cup {NoKey},
                     attempt : 0..(MaxRetries - 1)]
    BY <1>3 DEF Fail, TypeOK, Call, Idle
  <2>2. ASSUME ~GivesUp(t) PROVE Sleeping(call[t]) \in Call
    <3>1. call[t].attempt + 1 \in 0..(MaxRetries - 1)
      BY <2>1, <2>2, LlmAssumption DEF GivesUp
    <3>2. QED BY <2>1, <3>1 DEF Sleeping, Call
  <2>3. QED BY <1>3, <2>2 DEF Fail, TypeOK, Call
<1>4. ASSUME NEW t \in Tasks, Retry(t)
      PROVE  TypeOK'
  <2>1. call[t] \in [pc : {"calling", "sleeping"}, key : Prompts \cup {NoKey},
                     attempt : 0..(MaxRetries - 1)]
    BY <1>4 DEF Retry, TypeOK, Call, Idle
  <2>2. [call[t] EXCEPT !.pc = "calling"] \in Call
    BY <2>1 DEF Call
  <2>3. QED BY <1>4, <2>2 DEF Retry, TypeOK
<1>5. ASSUME NEW t \in Tasks, NEW cost \in 0..MaxCost, CrashInPut(t, cost)
      PROVE  TypeOK'
  <2>1. file' \in [Prompts -> {"none", "torn", "whole"}]
    BY <1>5 DEF CrashInPut, TypeOK
  <2>2. QED BY <1>5, <2>1 DEF CrashInPut, Halt, TypeOK, Call
<1>6. CASE Start
  <2>1. PICK i \in Evictions(Reconciled) :
            /\ index' = i
            /\ counter' = LoadedCounter(Reconciled)
            /\ file' = [p \in Prompts |-> IF p \in DOMAIN Reconciled \ DOMAIN i
                                          THEN "none" ELSE file[p]]
            /\ saved' = [counter |-> counter', entries |-> i]
    BY <1>6 DEF Start
  <2>2. i \in Indexes /\ counter' \in 0..MaxTick
    BY <2>1, ReconciledType, EvictionsType, LoadedCounterType
  <2>3. file' \in [Prompts -> {"none", "torn", "whole"}]
    BY <2>1 DEF TypeOK
  <2>4. QED BY <1>6, <2>1, <2>2, <2>3 DEF Start, TypeOK
<1>7. CASE Clear
  <2>1. index \in Indexes /\ 0 \in 0..MaxTick
    BY LlmAssumption DEF TypeOK
  <2>2. Without(index, DOMAIN index) \in Indexes
    BY <2>1, WithoutType
  <2>3. QED BY <1>7, <2>1, <2>2 DEF Clear, TypeOK
<1>8. CASE (\E p \in Prompts : Delete(p)) \/ Crash \/ UNCHANGED vars
  BY <1>8 DEF Delete, Crash, Halt, TypeOK, Call, vars
<1>9. QED BY <1>1, <1>2, <1>3, <1>4, <1>5, <1>6, <1>7, <1>8 DEF Next, Returns

\* Every state of the client, the cache and its files is well-typed.
THEOREM TypeCorrect == Spec => []TypeOK
<1>1. QED BY InitTypeOK, NextTypeOK, PTL DEF Spec

--------------------------------------------------------------------------------
(* The cache keeps the prompts used last *)

\* The prompts after which fewer others were used than fit.
Kept == {p \in DOMAIN since : Cardinality(since[p]) < MaxEntries}

\* The history orders the prompts it knows.
HistoryOK ==
    /\ IsFiniteSet(DOMAIN since) /\ DOMAIN since \subseteq Prompts
    /\ \A p \in DOMAIN since : since[p] \subseteq DOMAIN since /\ p \notin since[p]
    /\ \A p, q \in DOMAIN since : p # q => p \in since[q] \/ q \in since[p]
    /\ \A p, q \in DOMAIN since : q \in since[p] => since[q] \subseteq since[p]

\* Ticks follow the order of use, and none is ahead of the counter.
Ordered(entries, tick) ==
    /\ DOMAIN entries = Kept
    /\ \A p \in Kept : entries[p] <= tick
    /\ \A p, q \in Kept : q \in since[p] => entries[p] < entries[q]

\* Files, saved index and index in memory agree with the history.
CacheInv ==
    /\ HistoryOK
    /\ OnDisk(file) = Kept /\ \A p \in Prompts : file[p] # "torn"
    /\ Ordered(saved.entries, saved.counter)
    /\ up => index = saved.entries /\ counter = saved.counter

NobodyCallsDown == up \/ \A t \in Tasks : call[t] = Idle

RInv == TypeOK /\ NobodyCallsDown /\ (disturbed \/ CacheInv)

\* What was used after a prompt that is kept is kept too.
LEMMA LaterIsKept ==
    ASSUME HistoryOK
    PROVE  /\ IsFiniteSet(Kept) /\ Cardinality(Kept) \in Nat
           /\ \A p \in DOMAIN since :
                 IsFiniteSet(since[p]) /\ Cardinality(since[p]) \in 0..Cardinality(DOMAIN since)
           /\ Cardinality(DOMAIN since) \in Nat
           /\ \A p \in Kept : since[p] \subseteq Kept \ {p}
<1>1. /\ IsFiniteSet(DOMAIN since) /\ Cardinality(DOMAIN since) \in Nat
      /\ \A p \in DOMAIN since : since[p] \subseteq DOMAIN since
  BY FS_CardinalityType DEF HistoryOK
<1>2. \A S \in SUBSET (DOMAIN since) :
          IsFiniteSet(S) /\ Cardinality(S) \in Nat /\ Cardinality(S) <= Cardinality(DOMAIN since)
  BY <1>1, FS_Subset, FS_CardinalityType
<1>3. \A p \in DOMAIN since :
          IsFiniteSet(since[p]) /\ Cardinality(since[p]) \in 0..Cardinality(DOMAIN since)
  BY <1>1, <1>2
<1>4. Kept \subseteq DOMAIN since
  BY DEF Kept
<1>5. ASSUME NEW p \in Kept, NEW q \in since[p] PROVE q \in Kept \ {p}
  <2>1. p \in DOMAIN since /\ q \in DOMAIN since /\ q # p /\ since[q] \subseteq since[p]
    BY <1>4, <1>5 DEF HistoryOK
  <2>2. Cardinality(since[q]) <= Cardinality(since[p])
    BY <2>1, <1>3, FS_Subset
  <2>3. Cardinality(since[q]) \in Nat /\ Cardinality(since[p]) \in Nat /\ MaxEntries \in Nat
        /\ Cardinality(since[p]) < MaxEntries
    BY <2>1, <1>3, LlmAssumption DEF Kept
  <2>4. QED BY <2>1, <2>2, <2>3 DEF Kept
<1>6. QED BY <1>1, <1>2, <1>3, <1>4, <1>5

\* One prompt of any that were used was used before all the others.
LEMMA OldestExists ==
    ASSUME HistoryOK, NEW K \in SUBSET (DOMAIN since), K # {}
    PROVE  \E m \in K : K \ {m} \subseteq since[m]
<1> DEFINE Sizes == {Cardinality(since[p]) : p \in K}
<1>1. Sizes \in SUBSET (0..Cardinality(DOMAIN since)) /\ Sizes # {}
      /\ Cardinality(DOMAIN since) \in Nat
  BY LaterIsKept
<1>2. \E n \in Sizes : \A k \in Sizes : k <= n
  BY <1>1, GreatestExists
<1>3. PICK m \in K : \A q \in K : Cardinality(since[q]) <= Cardinality(since[m])
  BY <1>2
<1>4. ASSUME NEW q \in K, q # m PROVE q \in since[m]
  <2>1. SUFFICES ASSUME m \in since[q] PROVE FALSE
    BY <1>4 DEF HistoryOK
  <2>2. since[m] \subseteq since[q] /\ m \notin since[m]
    BY <2>1 DEF HistoryOK
  <2>3. IsFiniteSet(since[q]) /\ Cardinality(since[q]) \in Nat /\ Cardinality(since[m]) \in Nat
    BY LaterIsKept
  <2>4. Cardinality(since[q] \ {m}) = Cardinality(since[q]) - 1 /\ IsFiniteSet(since[q] \ {m})
    BY <2>1, <2>3, FS_RemoveElement
  <2>5. since[m] \subseteq since[q] \ {m}
    BY <2>2
  <2>6. Cardinality(since[m]) <= Cardinality(since[q] \ {m})
    BY <2>4, <2>5, FS_Subset
  <2>7. QED BY <1>3, <2>3, <2>4, <2>6
<1>5. QED BY <1>4

\* No more prompts are kept than fit.
LEMMA KeptFits ==
    ASSUME HistoryOK
    PROVE  Cardinality(Kept) <= MaxEntries
<1>1. CASE Kept = {}
  BY <1>1, FS_EmptySet, LlmAssumption
<1>2. CASE Kept # {}
  <2>1. Kept \in SUBSET (DOMAIN since)
    BY DEF Kept
  <2>2. PICK m \in Kept : Kept \ {m} \subseteq since[m]
    BY <1>2, <2>1, OldestExists
  <2>3. IsFiniteSet(since[m]) /\ Cardinality(since[m]) \in Nat /\ Cardinality(since[m]) < MaxEntries
    BY <2>1, LaterIsKept DEF Kept
  <2>4. Cardinality(Kept \ {m}) <= Cardinality(since[m])
    BY <2>2, <2>3, FS_Subset
  <2>5. Cardinality(Kept \ {m}) = Cardinality(Kept) - 1 /\ Cardinality(Kept) \in Nat
    BY LaterIsKept, FS_RemoveElement
  <2>6. QED BY <2>3, <2>4, <2>5, LlmAssumption
<1>3. QED BY <1>1, <1>2

\* Dropping nothing drops nothing.
LEMMA WithoutNothing ==
    ASSUME NEW i \in Indexes, NEW S, S \cap DOMAIN i = {}
    PROVE  Without(i, S) = i
<1>1. DOMAIN i \ S = DOMAIN i
  OBVIOUS
<1>2. i = [p \in DOMAIN i |-> i[p]]
  BY IndexFacts
<1>3. QED BY <1>1, <1>2 DEF Without

\* An index that fits loses nothing.
LEMMA FittingIndexStays ==
    ASSUME NEW i \in Indexes, NEW j \in Evictions(i),
           IsFiniteSet(DOMAIN i), Cardinality(DOMAIN i) <= MaxEntries
    PROVE  j = i
<1>1. Cardinality(DOMAIN i) \in Nat /\ MaxEntries \in Nat
  BY FS_CardinalityType, LlmAssumption
<1>2. PICK T \in SUBSET DOMAIN i : j = Without(i, T) /\ Cardinality(T) = 0
  BY <1>1 DEF Evictions
<1>3. T = {}
  BY <1>2, FS_EmptySet, FS_Subset
<1>4. QED BY <1>2, <1>3, WithoutNothing

LEMMA UsedFacts ==
    ASSUME NEW p \in Prompts, since' = Used(p)
    PROVE  /\ DOMAIN since' = DOMAIN since \cup {p}
           /\ since'[p] = {}
           /\ \A q \in DOMAIN since \ {p} : since'[q] = since[q] \cup {p}
  BY DEF Used

\* Using a prompt keeps the history an order.
LEMMA UsedHistory ==
    ASSUME HistoryOK, NEW p \in Prompts, since' = Used(p)
    PROVE  HistoryOK'
<1> DEFINE D == DOMAIN since
<1>0. /\ DOMAIN since' = D \cup {p} /\ since'[p] = {}
      /\ \A q \in D \ {p} : since'[q] = since[q] \cup {p}
  BY UsedFacts
<1>00. /\ IsFiniteSet(D) /\ D \subseteq Prompts
       /\ \A q \in D : since[q] \subseteq D /\ q \notin since[q]
       /\ \A q, r \in D : q # r => q \in since[r] \/ r \in since[q]
       /\ \A q, r \in D : r \in since[q] => since[r] \subseteq since[q]
  BY DEF HistoryOK
<1> HIDE DEF D
<1>1. IsFiniteSet(DOMAIN since') /\ DOMAIN since' \subseteq Prompts
  BY <1>0, <1>00, FS_AddElement
<1>2. ASSUME NEW q \in DOMAIN since'
      PROVE  since'[q] \subseteq DOMAIN since' /\ q \notin since'[q]
  <2>1. CASE q = p
    BY <1>0, <2>1
  <2>2. CASE q # p
    BY <1>0, <1>00, <2>2
  <2>3. QED BY <2>1, <2>2
<1>3. ASSUME NEW q \in DOMAIN since', NEW r \in DOMAIN since', q # r
      PROVE  q \in since'[r] \/ r \in since'[q]
  <2>1. CASE q = p
    BY <1>0, <1>3, <2>1
  <2>2. CASE r = p
    BY <1>0, <1>3, <2>2
  <2>3. CASE q # p /\ r # p
    BY <1>0, <1>00, <1>3, <2>3
  <2>4. QED BY <2>1, <2>2, <2>3
<1>4. ASSUME NEW q \in DOMAIN since', NEW r \in DOMAIN since', r \in since'[q]
      PROVE  since'[r] \subseteq since'[q]
  <2>1. q # p /\ q \in D /\ since'[q] = since[q] \cup {p}
    BY <1>0, <1>4
  <2>2. CASE r = p
    BY <1>0, <2>2
  <2>3. CASE r # p
    <3>1. r \in D /\ r \in since[q] /\ since'[r] = since[r] \cup {p}
      BY <1>0, <1>4, <2>1, <2>3
    <3>2. QED BY <1>00, <2>1, <3>1
  <2>4. QED BY <2>2, <2>3
<1>5. QED BY <1>1, <1>2, <1>3, <1>4 DEF HistoryOK

\* What is kept after a use, given a set that nothing outside of it can enter
\* and that fits.
LEMMA KeptAfter ==
    ASSUME NEW K, IsFiniteSet(K), Cardinality(K) <= MaxEntries, K \subseteq DOMAIN since',
           \A q \in K : since'[q] \subseteq K \ {q},
           \A q \in DOMAIN since' \ K : Cardinality(since'[q]) >= MaxEntries,
           \A q \in DOMAIN since' : Cardinality(since'[q]) \in Nat
    PROVE  Kept' = K
<1>1. ASSUME NEW q \in K PROVE Cardinality(since'[q]) < MaxEntries
  <2>1. Cardinality(K \ {q}) = Cardinality(K) - 1 /\ IsFiniteSet(K \ {q}) /\ Cardinality(K) \in Nat
    BY FS_RemoveElement, FS_CardinalityType
  <2>2. Cardinality(since'[q]) <= Cardinality(K \ {q})
    BY <2>1, FS_Subset
  <2>3. QED BY <2>1, <2>2, LlmAssumption
<1>2. ASSUME NEW q \in DOMAIN since' \ K PROVE ~(Cardinality(since'[q]) < MaxEntries)
  BY LlmAssumption
<1>3. QED BY <1>1, <1>2 DEF Kept

\* Forgotten prompts stay forgotten.
LEMMA ForgottenStays ==
    ASSUME HistoryOK, NEW p \in Prompts, since' = Used(p),
           NEW q \in DOMAIN since', q \notin Kept, q # p
    PROVE  Cardinality(since'[q]) >= MaxEntries
<1>1. q \in DOMAIN since /\ since'[q] = since[q] \cup {p}
  BY UsedFacts
<1>2. IsFiniteSet(since[q]) /\ Cardinality(since[q]) \in Nat /\ Cardinality(since[q]) >= MaxEntries
  BY <1>1, LaterIsKept, LlmAssumption DEF Kept
<1>3. IsFiniteSet(since[q] \cup {p}) /\ Cardinality(since[q] \cup {p}) \in Nat
  BY <1>2, FS_AddElement, FS_CardinalityType
<1>4. Cardinality(since[q]) <= Cardinality(since[q] \cup {p})
  BY <1>3, FS_Subset
<1>5. QED BY <1>1, <1>2, <1>3, <1>4, LlmAssumption

\* Evicting the least ticks of an index that follows the history, after a use
\* of a prompt, leaves what the history says is kept.
LEMMA EvictionFollowsHistory ==
    ASSUME HistoryOK, NEW p \in Prompts, since' = Used(p),
           index \in Indexes, counter \in 0..MaxTick, counter < MaxTick,
           Ordered(index, counter),
           NEW j \in Evictions(Touched(index, p))
    PROVE  Kept' = DOMAIN j
<1> DEFINE i == Touched(index, p)
           K == Kept \cup {p}
<1>1. /\ i \in Indexes /\ DOMAIN i = K
      /\ i[p] = counter + 1 /\ \A q \in Kept \ {p} : i[q] = index[q]
  BY TouchedType DEF Touched, Ordered
<1>2. /\ IsFiniteSet(Kept) /\ Cardinality(Kept) \in Nat
      /\ IsFiniteSet(K) /\ Cardinality(K) \in Nat
      /\ Cardinality(K) = IF p \in Kept THEN Cardinality(Kept) ELSE Cardinality(Kept) + 1
  BY LaterIsKept, FS_AddElement, FS_CardinalityType
<1>3. Cardinality(Kept) <= MaxEntries /\ MaxEntries \in Nat \ {0}
  BY KeptFits, LlmAssumption
<1>4. K \subseteq DOMAIN since' /\ \A q \in DOMAIN since' : Cardinality(since'[q]) \in Nat
  <2>1. HistoryOK'
    BY UsedHistory
  <2>2. \A q \in DOMAIN since' : Cardinality(since'[q]) \in Nat
    BY <2>1, FS_Subset, FS_CardinalityType DEF HistoryOK
  <2>3. QED BY <2>2, UsedFacts DEF Kept
<1>5. \A q \in DOMAIN since' \ K : Cardinality(since'[q]) >= MaxEntries
  BY ForgottenStays
<1>6. \A q \in K : since'[q] \subseteq K \ {q}
  <2>1. \A q \in Kept : q \in DOMAIN since /\ since[q] \subseteq Kept \ {q}
    BY LaterIsKept DEF Kept
  <2>2. ASSUME NEW q \in K PROVE since'[q] \subseteq K \ {q}
    <3>1. CASE q = p
      <4>1. since'[p] = {}
        BY UsedFacts
      <4>2. QED BY <3>1, <4>1
    <3>2. CASE q # p
      <4>1. q \in Kept /\ q \in DOMAIN since \ {p} /\ since[q] \subseteq Kept \ {q}
        BY <2>1, <3>2
      <4>2. since'[q] = since[q] \cup {p}
        BY <4>1, UsedFacts
      <4>3. QED BY <3>2, <4>1, <4>2
    <3>3. QED BY <3>1, <3>2
  <2>3. QED BY <2>2
<1>7. CASE Cardinality(K) <= MaxEntries
  <2>1. Kept' = K
    BY <1>2, <1>4, <1>5, <1>6, <1>7, KeptAfter
  <2>2. j = i
    BY <1>1, <1>2, <1>7, FittingIndexStays
  <2>3. QED BY <1>1, <2>1, <2>2
<1>8. CASE Cardinality(K) > MaxEntries
  <2>1. p \notin Kept /\ Cardinality(Kept) = MaxEntries /\ Cardinality(K) = MaxEntries + 1
    BY <1>2, <1>3, <1>8
  <2>2. PICK T \in SUBSET K :
            /\ j = Without(i, T) /\ Cardinality(T) = 1
            /\ \A q \in T, r \in K \ T : i[q] <= i[r]
    <3>1. Cardinality(K) - MaxEntries = 1
      BY <1>3, <2>1
    <3>2. QED BY <1>1, <1>8, <3>1 DEF Evictions
  <2>3. PICK e \in K : T = {e}
    <3>1. IsFiniteSet(T)
      BY <1>2, <2>2, FS_Subset
    <3>2. \E e : T = {e}
      BY <2>2, <3>1, FS_Singleton
    <3>3. QED BY <3>2
  <2>4. e \in Kept
    <3>1. SUFFICES ASSUME e = p PROVE FALSE
      OBVIOUS
    <3>2. Kept # {}
      BY <1>3, <2>1, FS_EmptySet
    <3>3. PICK q \in Kept : TRUE
      BY <3>2
    <3>4. q # p /\ i[p] <= i[q] /\ i[q] = index[q]
      BY <1>1, <2>1, <2>2, <2>3, <3>1
    <3>5. index[q] <= counter /\ index[q] \in Nat /\ counter \in Nat
      BY IndexFacts DEF Ordered
    <3>6. QED BY <1>1, <3>4, <3>5
  <2>5. ASSUME NEW q \in Kept, q # e PROVE e \notin since[q]
    <3>1. i[e] <= i[q] /\ i[e] = index[e] /\ i[q] = index[q]
      BY <1>1, <2>1, <2>2, <2>3, <2>4, <2>5
    <3>2. index[e] \in Nat /\ index[q] \in Nat
      BY <2>4, IndexFacts DEF Ordered
    <3>3. ~(index[q] < index[e])
      BY <3>1, <3>2
    <3>4. QED BY <2>4, <3>3 DEF Ordered
  <2>6. Kept \ {e} \subseteq since[e]
    BY <2>4, <2>5 DEF HistoryOK, Kept
  <2>7. Cardinality(since'[e]) >= MaxEntries
    <3>1. since[e] = Kept \ {e} /\ since'[e] = since[e] \cup {p} /\ p \notin since[e]
      <4>1. since[e] \subseteq Kept \ {e}
        BY <2>4, LaterIsKept
      <4>2. e \in DOMAIN since \ {p}
        BY <2>1, <2>4 DEF Kept
      <4>3. QED BY <2>1, <2>6, <4>1, <4>2, UsedFacts
    <3>2. Cardinality(Kept \ {e}) = Cardinality(Kept) - 1 /\ IsFiniteSet(Kept \ {e})
      BY <1>2, <2>4, FS_RemoveElement
    <3>3. Cardinality(since[e] \cup {p}) = Cardinality(Kept \ {e}) + 1
      BY <3>1, <3>2, FS_AddElement
    <3>4. QED BY <1>2, <1>3, <2>1, <3>1, <3>2, <3>3
  <2>8. \A q \in K \ {e} : since'[q] \subseteq (K \ {e}) \ {q}
    <3>1. ASSUME NEW q \in K \ {e} PROVE e \notin since'[q]
      <4>1. CASE q = p
        BY <4>1, UsedFacts
      <4>2. CASE q # p
        <5>1. q \in Kept /\ q \in DOMAIN since \ {p} /\ e # p
          BY <2>1, <2>4, <4>2 DEF Kept
        <5>2. since'[q] = since[q] \cup {p} /\ e \notin since[q]
          BY <2>5, <5>1, <3>1, UsedFacts
        <5>3. QED BY <5>1, <5>2
      <4>3. QED BY <4>1, <4>2
    <3>2. QED BY <1>6, <3>1
  <2>9. IsFiniteSet(K \ {e}) /\ Cardinality(K \ {e}) <= MaxEntries
    <3>1. IsFiniteSet(K \ {e}) /\ Cardinality(K \ {e}) = Cardinality(K) - 1
      BY <1>2, FS_RemoveElement
    <3>2. QED BY <1>3, <2>1, <3>1
  <2>10. \A q \in DOMAIN since' \ (K \ {e}) : Cardinality(since'[q]) >= MaxEntries
    BY <1>5, <2>7
  <2>11. Kept' = K \ {e}
    BY <1>4, <2>8, <2>9, <2>10, KeptAfter
  <2>12. DOMAIN j = K \ {e}
    BY <1>1, <2>2, <2>3, WithoutType
  <2>13. QED BY <2>11, <2>12
<1>9. QED BY <1>2, <1>3, <1>7, <1>8

\* Ticks keep following the order of use after a prompt is used.
LEMMA TicksFollow ==
    ASSUME HistoryOK, NEW p \in Prompts, since' = Used(p),
           index \in Indexes, counter \in 0..MaxTick, counter < MaxTick,
           Ordered(index, counter),
           NEW j \in Evictions(Touched(index, p)),
           saved' = [counter |-> counter + 1, entries |-> j]
    PROVE  Ordered(saved.entries, saved.counter)'
<1> DEFINE i == Touched(index, p)
<1>1. Kept' = DOMAIN j /\ saved'.entries = j /\ saved'.counter = counter + 1
  BY EvictionFollowsHistory
<1>2. /\ i \in Indexes /\ DOMAIN i = Kept \cup {p}
      /\ i[p] = counter + 1 /\ \A q \in Kept \ {p} : i[q] = index[q]
  BY TouchedType DEF Touched, Ordered
<1>3. DOMAIN j \subseteq Kept \cup {p} /\ \A q \in DOMAIN j : j[q] = i[q]
  <2>1. PICK T : j = Without(i, T)
    BY DEF Evictions
  <2>2. QED BY <1>2, <2>1 DEF Without
<1>4. counter \in Nat /\ \A q \in Kept : index[q] \in Nat /\ index[q] <= counter
  BY IndexFacts DEF Ordered
<1>5. ASSUME NEW q \in DOMAIN j PROVE j[q] <= counter + 1
  <2>1. CASE q = p
    BY <1>2, <1>3, <1>4, <2>1
  <2>2. CASE q # p
    <3>1. q \in Kept /\ j[q] = index[q]
      BY <1>2, <1>3, <2>2
    <3>2. QED BY <1>4, <3>1
  <2>3. QED BY <2>1, <2>2
<1>6. ASSUME NEW q \in DOMAIN j, NEW r \in DOMAIN j, r \in since'[q]
      PROVE  j[q] < j[r]
  <2>1. q # p
    <3>1. since'[p] = {}
      BY UsedFacts
    <3>2. QED BY <1>6, <3>1
  <2>2. q \in Kept /\ q \in DOMAIN since \ {p} /\ j[q] = index[q]
    BY <1>2, <1>3, <2>1 DEF Kept
  <2>3. CASE r = p
    <3>1. j[r] = counter + 1
      BY <1>2, <1>3, <2>3
    <3>2. QED BY <1>4, <2>2, <3>1
  <2>4. CASE r # p
    <3>1. r \in Kept /\ j[r] = index[r]
      BY <1>2, <1>3, <2>4
    <3>2. since'[q] = since[q] \cup {p}
      BY <2>2, UsedFacts
    <3>3. r \in since[q]
      BY <1>6, <2>4, <3>2
    <3>4. QED BY <2>2, <3>1, <3>3 DEF Ordered
  <2>5. QED BY <2>3, <2>4
<1>7. QED BY <1>1, <1>5, <1>6 DEF Ordered

\* A hit and an answer that is cached both make the prompt the one used last.
LEMMA UseStep ==
    ASSUME TypeOK, up, CacheInv, NEW p \in Prompts, since' = Used(p),
           UNCHANGED up, Put(p) \/ (file[p] = "whole" /\ Lookup(p))
    PROVE  CacheInv'
<1>1. /\ HistoryOK /\ index \in Indexes /\ counter \in 0..MaxTick
      /\ Ordered(index, counter) /\ OnDisk(file) = Kept
      /\ \A q \in Prompts : file[q] # "torn"
  BY DEF TypeOK, CacheInv
<1>2. /\ counter < MaxTick /\ counter' = counter + 1
      /\ saved' = [counter |-> counter + 1, entries |-> index']
  BY DEF Put, Lookup
<1>3. HistoryOK'
  BY <1>1, UsedHistory
<1>4. index' \in Evictions(Touched(index, p))
  <2>1. CASE Put(p)
    BY <2>1 DEF Put
  <2>2. CASE file[p] = "whole" /\ Lookup(p)
    <3>1. index' = Touched(index, p) /\ p \in Kept
      BY <1>1, <2>2 DEF Lookup, OnDisk
    <3>2. index' \in Indexes /\ DOMAIN index' = Kept
      BY <1>1, <1>2, <3>1, TouchedType DEF Ordered
    <3>3. Cardinality(Kept) <= MaxEntries /\ Cardinality(Kept) \in Nat /\ MaxEntries \in Nat
      BY <1>1, KeptFits, LaterIsKept, LlmAssumption
    <3>4. Without(index', {}) = index' /\ Cardinality({}) = 0
      BY <3>2, WithoutNothing, FS_EmptySet
    <3>5. {} \in {T \in SUBSET DOMAIN index' :
              /\ Cardinality(T) = IF Cardinality(DOMAIN index') > MaxEntries
                                  THEN Cardinality(DOMAIN index') - MaxEntries ELSE 0
              /\ \A q \in T, r \in DOMAIN index' \ T : index'[q] <= index'[r]}
      BY <3>2, <3>3, <3>4
    <3>6. QED BY <3>1, <3>4, <3>5 DEF Evictions
  <2>3. QED BY <2>1, <2>2
<1>5. Ordered(saved.entries, saved.counter)'
  BY <1>1, <1>2, <1>4, TicksFollow
<1>6. Kept' = DOMAIN index'
  BY <1>1, <1>2, <1>4, EvictionFollowsHistory
<1>7. /\ DOMAIN index' \subseteq Kept \cup {p} /\ DOMAIN index = Kept
  <2>1. Touched(index, p) \in Indexes /\ DOMAIN Touched(index, p) = Kept \cup {p}
    BY <1>1, <1>2, TouchedType DEF Ordered
  <2>2. QED BY <1>1, <1>4, <2>1, EvictionsType DEF Ordered
<1>8. OnDisk(file') = Kept' /\ \A q \in Prompts : file'[q] # "torn"
  <2>1. CASE Put(p)
    <3>1. file' = [q \in Prompts |-> IF q \in DOMAIN index' THEN IF q = p THEN "whole" ELSE file[q]
                                     ELSE IF q \in DOMAIN index \cup {p} THEN "none" ELSE file[q]]
      BY <2>1 DEF Put
    <3>2. \A q \in Prompts : file[q] # "none" <=> q \in Kept
      BY <1>1 DEF OnDisk
    <3>3. \A q \in Prompts : file'[q] # "none" <=> q \in DOMAIN index'
      BY <1>7, <3>1, <3>2
    <3>4. \A q \in Prompts : file'[q] # "torn"
      BY <1>1, <3>1
    <3>5. DOMAIN index' \subseteq Prompts
      BY <1>3, <1>6 DEF HistoryOK, Kept
    <3>6. QED BY <1>6, <3>3, <3>4, <3>5 DEF OnDisk
  <2>2. CASE file[p] = "whole" /\ Lookup(p)
    <3>1. file' = file /\ index' = Touched(index, p) /\ p \in Kept
      BY <1>1, <2>2 DEF Lookup, OnDisk
    <3>2. DOMAIN index' = Kept
      BY <1>7, <3>1 DEF Touched
    <3>3. QED BY <1>1, <1>6, <3>1, <3>2 DEF OnDisk
  <2>3. QED BY <2>1, <2>2
<1>9. QED BY <1>2, <1>3, <1>5, <1>8 DEF CacheInv

\* A step that changes neither the cache nor what was used.
LEMMA CacheStep ==
    ASSUME CacheInv, UNCHANGED <<file, index, counter, saved, since>>, up' => up
    PROVE  CacheInv'
  BY DEF CacheInv, HistoryOK, Ordered, Kept, OnDisk

\* A restart finds the cache as it was left.
LEMMA StartStep ==
    ASSUME TypeOK, CacheInv, Start, UNCHANGED since
    PROVE  CacheInv'
<1>1. PICK i \in Evictions(Reconciled) :
          /\ index' = i
          /\ counter' = LoadedCounter(Reconciled)
          /\ file' = [p \in Prompts |-> IF p \in DOMAIN Reconciled \ DOMAIN i
                                        THEN "none" ELSE file[p]]
          /\ saved' = [counter |-> counter', entries |-> i]
  BY DEF Start
<1>2. /\ HistoryOK /\ OnDisk(file) = Kept /\ DOMAIN saved.entries = Kept
      /\ saved.entries \in Indexes /\ saved.counter \in 0..MaxTick
      /\ saved = [counter |-> saved.counter, entries |-> saved.entries]
  BY DEF TypeOK, CacheInv, Ordered
<1>3. Reconciled = saved.entries
  <2>1. saved.entries = [p \in Kept |-> saved.entries[p]]
    BY <1>2, IndexFacts
  <2>2. QED BY <1>2, <2>1 DEF Reconciled
<1>4. i = saved.entries
  BY <1>1, <1>2, <1>3, KeptFits, LaterIsKept, FittingIndexStays
<1>5. LoadedCounter(Reconciled) = saved.counter
  <2>1. CASE DOMAIN saved.entries = {}
    BY <1>3, <2>1 DEF LoadedCounter
  <2>2. CASE DOMAIN saved.entries # {}
    <3>1. PICK p \in DOMAIN saved.entries : Newest(saved.entries) = saved.entries[p]
      BY <1>2, <2>2, NewestIsGreatest
    <3>2. Newest(saved.entries) <= saved.counter
      BY <1>2, <3>1 DEF CacheInv, Ordered
    <3>3. QED BY <1>3, <3>2 DEF LoadedCounter
  <2>3. QED BY <2>1, <2>2
<1>6. saved' = saved /\ index' = saved'.entries /\ counter' = saved'.counter
  BY <1>1, <1>2, <1>4, <1>5
<1>7. file' = file
  <2>1. file = [p \in Prompts |-> file[p]]
    BY DEF TypeOK
  <2>2. file' = [p \in Prompts |-> file[p]]
    BY <1>1, <1>3, <1>4
  <2>3. QED BY <2>1, <2>2
<1>8. QED BY <1>6, <1>7 DEF CacheInv, HistoryOK, Ordered, Kept, OnDisk

\* After clear nothing is kept, in the files, the index or the history.
LEMMA ClearStep ==
    ASSUME Clear, since' = NothingUsed
    PROVE  CacheInv'
<1>1. DOMAIN since' = {} /\ Kept' = {}
  BY DEF NothingUsed, Kept
<1>2. /\ file' = [p \in Prompts |-> "none"] /\ DOMAIN index' = {} /\ UNCHANGED up
      /\ saved'.entries = index' /\ saved'.counter = counter'
  BY DEF Clear, Without
<1>3. HistoryOK'
  BY <1>1, FS_EmptySet DEF HistoryOK
<1>4. OnDisk(file') = {} /\ \A p \in Prompts : file'[p] # "torn"
  BY <1>2 DEF OnDisk
<1>5. Ordered(saved.entries, saved.counter)'
  BY <1>1, <1>2 DEF Ordered
<1>6. QED BY <1>1, <1>2, <1>3, <1>4, <1>5 DEF CacheInv

\* A step that uses no prompt, clears nothing and disturbs nothing.
LEMMA OtherStep ==
    ASSUME TypeOK, NobodyCallsDown, CacheInv, Next, ~Disturbs, ~Clear,
           ~\E p \in Prompts : Uses(p), UNCHANGED since
    PROVE  CacheInv'
<1>1. ASSUME NEW t \in Tasks, NEW k \in Prompts \cup {NoKey}, Complete(t, k)
      PROVE  CacheInv'
  <2>1. CASE k = NoKey
    BY <1>1, <2>1, CacheStep DEF Complete
  <2>2. CASE k \in Prompts
    <3>1. k # NoKey /\ ~Hit(k) /\ UNCHANGED up
      BY <1>1, <2>2, LlmAssumption DEF Uses, Complete
    <3>2. file[k] = "none"
      BY <2>2, <3>1 DEF Hit, TypeOK, CacheInv
    <3>3. Lookup(k)
      BY <1>1, <3>1 DEF Complete
    <3>4. index \in Indexes /\ k \notin DOMAIN index
      BY <1>1, <3>2 DEF Complete, CacheInv, Ordered, OnDisk, TypeOK
    <3>5. Without(index, {k}) = index
      BY <3>4, WithoutNothing
    <3>6. [file EXCEPT ![k] = "none"] = file
      BY <3>2 DEF TypeOK
    <3>7. UNCHANGED <<file, index, counter, saved>>
      BY <3>2, <3>3, <3>5, <3>6 DEF Lookup
    <3>8. QED BY <3>1, <3>7, CacheStep
  <2>3. QED BY <2>1, <2>2
<1>2. ASSUME NEW t \in Tasks, NEW cost \in 0..MaxCost, NEW clean \in BOOLEAN, Answer(t, cost, clean)
      PROVE  CacheInv'
  <2>1. ~Caches(t, cost, clean)
    <3>1. SUFFICES ASSUME Caches(t, cost, clean) PROVE FALSE
      OBVIOUS
    <3>2. clean = TRUE /\ call[t].key \in Prompts
      BY <1>2, <3>1 DEF Caches, Answer, Charge, TypeOK, Call, Idle
    <3>3. QED BY <1>2, <3>1, <3>2 DEF Uses
  <2>2. QED BY <1>2, <2>1, CacheStep DEF Answer, Charge
<1>3. ASSUME NEW t \in Tasks, NEW permanent \in BOOLEAN, Fail(t, permanent)
      PROVE  CacheInv'
  BY <1>3, CacheStep DEF Fail
<1>4. ASSUME NEW t \in Tasks, Retry(t)
      PROVE  CacheInv'
  BY <1>4, CacheStep DEF Retry
<1>5. ASSUME NEW t \in Tasks, NEW cost \in 0..MaxCost, CrashInPut(t, cost)
      PROVE  CacheInv'
  <2>1. up /\ ~up'
    BY <1>5 DEF CrashInPut, Halt, NobodyCallsDown, Idle
  <2>2. UNCHANGED <<file, index, counter, saved>>
    BY <1>5, <2>1 DEF CrashInPut, Disturbs
  <2>3. QED BY <2>1, <2>2, CacheStep
<1>6. CASE Crash
  BY <1>6, CacheStep DEF Crash, Halt
<1>7. CASE Start
  BY <1>7, StartStep
<1>8. CASE \E p \in Prompts : Delete(p)
  BY <1>8 DEF Disturbs
<1>9. QED BY <1>1, <1>2, <1>3, <1>4, <1>5, <1>6, <1>7, <1>8 DEF Next, Returns

\* Calls are in flight only while the process runs.
LEMMA NextNobody == TypeOK /\ NobodyCallsDown /\ [Next]_vars => NobodyCallsDown'
<1> SUFFICES ASSUME TypeOK, NobodyCallsDown, [Next]_vars PROVE NobodyCallsDown'
  OBVIOUS
<1>1. CASE \E t \in Tasks :
          \/ \E k \in Prompts \cup {NoKey} : Complete(t, k)
          \/ Returns(t)
          \/ Retry(t)
  BY <1>1 DEF Complete, Returns, Answer, Charge, Fail, Retry, NobodyCallsDown, Idle
<1>2. CASE \E t \in Tasks : \E cost \in 0..MaxCost : CrashInPut(t, cost)
  BY <1>2 DEF CrashInPut, Halt, NobodyCallsDown
<1>3. CASE (\E p \in Prompts : Delete(p)) \/ Clear \/ Crash \/ Start \/ UNCHANGED vars
  BY <1>3 DEF Delete, Clear, Crash, Start, Halt, NobodyCallsDown, vars
<1>4. QED BY <1>1, <1>2, <1>3 DEF Next

LEMMA InitRInv == MCInit => RInv
<1> SUFFICES ASSUME MCInit PROVE RInv
  OBVIOUS
<1>1. TypeOK /\ NobodyCallsDown
  BY InitTypeOK DEF MCInit, Init, NobodyCallsDown
<1>2. DOMAIN since = {} /\ Kept = {}
  BY DEF MCInit, NothingUsed, Kept
<1>3. HistoryOK
  BY <1>2, FS_EmptySet DEF HistoryOK
<1>4. OnDisk(file) = {} /\ \A p \in Prompts : file[p] # "torn"
  BY DEF MCInit, Init, OnDisk
<1>5. DOMAIN index = {} /\ saved.entries = index /\ saved.counter = counter
  BY DEF MCInit, Init
<1>6. QED BY <1>1, <1>2, <1>3, <1>4, <1>5 DEF RInv, CacheInv, Ordered

LEMMA NextRInv == RInv /\ [MCNext]_<<vars, since, disturbed>> => RInv'
<1> SUFFICES ASSUME RInv, [MCNext]_<<vars, since, disturbed>> PROVE RInv'
  OBVIOUS
<1>1. TypeOK' /\ NobodyCallsDown'
  BY NextTypeOK, NextNobody DEF RInv, MCNext
<1>2. CASE UNCHANGED <<vars, since, disturbed>>
  BY <1>1, <1>2, CacheStep DEF RInv, vars
<1>3. CASE MCNext /\ ~disturbed'
  <2>1. ~disturbed /\ ~Disturbs /\ CacheInv /\ TypeOK /\ NobodyCallsDown /\ Next
    BY <1>3 DEF MCNext, RInv
  <2>2. CASE Clear
    BY <1>1, <1>3, <2>2, ClearStep DEF MCNext, RInv
  <2>3. CASE ~Clear /\ \E p \in Prompts : Uses(p)
    <3>1. PICK p \in Prompts : Uses(p) /\ since' = Used(p)
      BY <1>3, <2>3 DEF MCNext
    <3>2. up /\ UNCHANGED up /\ (Put(p) \/ (file[p] = "whole" /\ Lookup(p)))
      <4>1. PICK t \in Tasks :
                \/ Complete(t, p) /\ Hit(p)
                \/ \E cost \in 0..MaxCost :
                      Answer(t, cost, TRUE) /\ Caches(t, cost, TRUE) /\ call[t].key = p
        BY <3>1 DEF Uses
      <4>2. CASE Complete(t, p) /\ Hit(p)
        BY <4>2 DEF Complete, Hit
      <4>3. ASSUME NEW cost \in 0..MaxCost,
                   Answer(t, cost, TRUE), Caches(t, cost, TRUE), call[t].key = p
            PROVE  up /\ UNCHANGED up /\ Put(p)
        <5>1. call[t] # Idle /\ UNCHANGED up
          BY <4>3 DEF Answer, Charge, Idle
        <5>2. up
          BY <2>1, <5>1 DEF NobodyCallsDown
        <5>3. Put(call[t].key)
          BY <4>3 DEF Answer
        <5>4. QED BY <4>3, <5>1, <5>2, <5>3 DEF Put
      <4>4. QED BY <4>1, <4>2, <4>3
    <3>3. QED BY <1>1, <2>1, <3>1, <3>2, UseStep DEF RInv
  <2>4. CASE ~Clear /\ ~\E p \in Prompts : Uses(p)
    BY <1>1, <1>3, <2>1, <2>4, OtherStep DEF MCNext, RInv
  <2>5. QED BY <2>2, <2>3, <2>4
<1>4. QED BY <1>1, <1>2, <1>3 DEF RInv

\* Unless an entry was lost or left unindexed, the files are those of exactly
\* the prompts used last, whatever hits, answers, crashes and restarts came
\* between (ResponseCache's ticks, eviction and persisted index).
THEOREM RecentIsKept == MCSpec => []CacheKeepsRecent
<1>1. RInv => CacheKeepsRecent
  BY DEF RInv, CacheInv, CacheKeepsRecent, Kept
<1>2. QED BY <1>1, InitRInv, NextRInv, PTL DEF MCSpec

================================================================================
