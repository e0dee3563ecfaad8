------------------------------ MODULE CasesProofs ------------------------------
(***************************************************************************)
(* Theorems about Cases, as evaluations open and close its cases: however   *)
(* the desks of a wave interleave or fail, each step of the plan runs once  *)
(* and after what it depends on, and a case that closes without a human     *)
(* heard every desk and no concern.  And about the evaluations themselves:  *)
(* what a gate blocks opens on evidence only.  They hold for any number of  *)
(* objectives, plans, steps, suites and cases.                              *)
(***************************************************************************)
EXTENDS FiniteSetTheorems, Evaluation, TLAPS

StepType == [owner : Owners, deps : SUBSET Nat, urgent : BOOLEAN, acts : BOOLEAN]

OutputType ==
    [step : Nat, ok : BOOLEAN, rehearsed : BOOLEAN, tier : Tiers, acts : BOOLEAN,
     routed : BOOLEAN, claims : BOOLEAN]

DeskType ==
    [at : {"observe"}]
    \union [at : {"simulate"}, observed : BOOLEAN]
    \union [at : {"propose"}, observed : BOOLEAN, simulation : {"none", "odd", "bare", "ci"}]
    \union [at : {"done"}, output : OutputType]

TypeOK ==
    /\ objective \in ObjectiveType
    /\ plan \in Seq(StepType)
    /\ waves \in Seq(SUBSET DOMAIN plan)
    /\ \A i \in DOMAIN desk : desk[i] \in DeskType
    /\ outputs \in Seq(OutputType)
    /\ status \in {"none", "opened", "planned", "sensed", "abandoned", "blocked", "awaiting_human",
                  "complete"}

\* The steps whose outputs have been folded.
Ran == {outputs[k].step : k \in DOMAIN outputs}

\* A plan that refers to earlier steps only.
Ordered(steps) == \A i \in DOMAIN steps : steps[i].deps \subseteq 1..(i - 1)

Unstarted ==
    status \in {"none", "opened", "planned", "abandoned"} =>
        waves = <<>> /\ DOMAIN desk = {} /\ outputs = <<>>

PlanOK ==
    status \notin {"none", "opened", "abandoned"} =>
        /\ plan # <<>> /\ Ordered(plan)
        /\ {objective.mentions[k] : k \in DOMAIN objective.mentions} \subseteq OwnersOf(plan)

\* What is to run is what the waves of the plan leave after what has run, and
\* the desks at work are those of the next wave.
Scheduled ==
    status \notin {"none", "opened", "planned", "abandoned"} =>
        /\ Ran \subseteq DOMAIN plan
        /\ waves = waves_after(plan)[Ran]
        /\ DOMAIN desk = IF waves = <<>> THEN {} ELSE Head(waves)
        /\ status # "sensed" => waves = <<>>

DesksAnswer == \A i \in DOMAIN desk : desk[i].at = "done" => desk[i].output.step = i

OutputsInOrder ==
    /\ \A k, l \in DOMAIN outputs : outputs[k].step = outputs[l].step => k = l
    /\ \A k \in DOMAIN outputs :
           plan[outputs[k].step].deps \subseteq {outputs[l].step : l \in 1..(k - 1)}

IInv ==
    /\ TypeOK
    /\ Unstarted
    /\ PlanOK
    /\ Scheduled
    /\ DesksAnswer
    /\ OutputsInOrder
    /\ CompleteMeansClear

-----------------------------------------------------------------------------
(* Sequences, numbers, and the steps of a wave in order *)

LEMMA ElementType ==
    ASSUME NEW S, NEW s \in Seq(S), NEW i \in DOMAIN s
    PROVE  s[i] \in S
  OBVIOUS

LEMMA HeadType ==
    ASSUME NEW S, NEW s \in Seq(S), s # <<>>
    PROVE  Head(s) \in S /\ Tail(s) \in Seq(S)
  OBVIOUS

\* What two sequences in a row hold.
LEMMA InARow ==
    ASSUME NEW S, NEW s \in Seq(S), NEW t \in Seq(S)
    PROVE  /\ s \o t \in Seq(S)
           /\ DOMAIN (s \o t) = 1..(Len(s) + Len(t))
           /\ \A k \in 1..Len(s) : (s \o t)[k] = s[k]
           /\ \A k \in (Len(s) + 1)..(Len(s) + Len(t)) :
                  k - Len(s) \in 1..Len(t) /\ (s \o t)[k] = t[k - Len(s)]
  OBVIOUS

Before == {pair \in Nat \X Nat : pair[1] < pair[2]}

\* A nonempty set of numbers has a least one.
LEMMA LeastExists ==
    ASSUME NEW S \in SUBSET Nat, S # {}
    PROVE  \E n \in S : \A m \in S : n <= m
<1>1. IsWellFoundedOn(Before, Nat)
  BY NatLessThanWellFounded DEF OpToRel, Before
<1>2. PICK n \in S : \A m \in S : <<m, n>> \notin Before
  BY <1>1, WFMin
<1>3. \A m \in S : ~(m < n) /\ m \in Nat /\ n \in Nat
  BY <1>2 DEF Before
<1>4. QED BY <1>3

LEMMA Inductive ==
    ASSUME NEW S \in SUBSET Nat, 0 \in S, \A n \in S : n + 1 \in S
    PROVE  S = Nat
<1> SUFFICES ASSUME Nat \ S # {} PROVE FALSE
  OBVIOUS
<1>1. PICK n \in Nat \ S : \A m \in Nat \ S : n <= m
  BY LeastExists
<1>2. n - 1 \in Nat /\ ~(n <= n - 1) /\ (n - 1) + 1 = n
  BY <1>1
<1>3. QED BY <1>1, <1>2

Ascending(order) == \A k, l \in DOMAIN order : k < l => order[k] < order[l]

\* One more number, less than all others, goes to the front.
LEMMA OneMore ==
    ASSUME NEW n \in Nat, NEW S \in SUBSET Nat, NEW least \in Nat,
           \A m \in S : least < m,
           NEW order \in Bijection(1..n, S), Ascending(order)
    PROVE  \E longer \in Bijection(1..(n + 1), S \union {least}) : Ascending(longer)
<1> DEFINE longer == [k \in 1..(n + 1) |-> IF k = 1 THEN least ELSE order[k - 1]]
<1>1. /\ order \in [1..n -> S]
      /\ \A k, l \in 1..n : order[k] = order[l] => k = l
      /\ \A m \in S : \E k \in 1..n : order[k] = m
      /\ \A k, l \in 1..n : k < l => order[k] < order[l]
  BY DEF Bijection, Injection, Surjection, IsInjective, Ascending
<1>2. \A k \in 2..(n + 1) : k - 1 \in 1..n /\ longer[k] = order[k - 1] /\ longer[k] \in S
  BY <1>1
<1>3. longer[1] = least /\ 1 \in 1..(n + 1)
  OBVIOUS
<1>4. longer \in [1..(n + 1) -> S \union {least}]
  BY <1>1, <1>2, <1>3
<1>5. ASSUME NEW k \in 1..(n + 1), NEW l \in 1..(n + 1), k < l PROVE longer[k] < longer[l]
  <2>1. l \in 2..(n + 1)
    BY <1>5
  <2>2. CASE k = 1
    BY <1>2, <1>3, <2>1, <2>2
  <2>3. CASE k # 1
    <3>1. k \in 2..(n + 1) /\ k - 1 < l - 1
      BY <1>5, <2>3
    <3>2. QED BY <1>1, <1>2, <2>1, <3>1
  <2>4. QED BY <2>2, <2>3
<1>6. ASSUME NEW k \in 1..(n + 1), NEW l \in 1..(n + 1), longer[k] = longer[l] PROVE k = l
  <2>1. longer[k] \in Nat /\ longer[l] \in Nat
    BY <1>4
  <2>2. ~(k < l) /\ ~(l < k)
    BY <1>5, <1>6, <2>1
  <2>3. QED BY <2>2
<1>7. ASSUME NEW m \in S \union {least} PROVE \E k \in 1..(n + 1) : longer[k] = m
  <2>1. CASE m = least
    BY <1>3, <2>1
  <2>2. CASE m \in S
    <3>1. PICK k \in 1..n : order[k] = m
      BY <1>1, <2>2
    <3>2. k + 1 \in 2..(n + 1) /\ (k + 1) - 1 = k
      OBVIOUS
    <3>3. longer[k + 1] = order[(k + 1) - 1]
      BY <1>2, <3>2
    <3>4. longer[k + 1] = m
      BY <3>1, <3>2, <3>3
    <3>5. k + 1 \in 1..(n + 1)
      OBVIOUS
    <3>6. QED BY <3>4, <3>5
  <2>3. QED BY <2>1, <2>2
<1>8. DOMAIN longer = 1..(n + 1)
  OBVIOUS
<1> HIDE DEF longer
<1>9. longer \in Bijection(1..(n + 1), S \union {least}) /\ Ascending(longer)
  BY <1>4, <1>5, <1>6, <1>7, <1>8 DEF Bijection, Injection, Surjection, IsInjective, Ascending
<1>10. QED BY <1>9

LEMMA OrderExists ==
    ASSUME NEW S \in SUBSET Nat, IsFiniteSet(S)
    PROVE  \E order \in Bijection(1..Cardinality(S), S) : Ascending(order)
<1> DEFINE Sized(n) == {R \in SUBSET Nat : IsFiniteSet(R) /\ Cardinality(R) = n}
           Good == {n \in Nat : \A R \in Sized(n) :
                        \E order \in Bijection(1..n, R) : Ascending(order)}
<1>1. 0 \in Good
  <2> SUFFICES ASSUME NEW R \in Sized(0)
               PROVE  \E order \in Bijection(1..0, R) : Ascending(order)
    OBVIOUS
  <2>1. R = {}
    BY FS_EmptySet
  <2>2. <<>> \in Bijection(1..0, R)
    BY <2>1 DEF Bijection, Injection, Surjection, IsInjective
  <2>3. Ascending(<<>>)
    BY DEF Ascending
  <2>4. QED BY <2>2, <2>3
<1>2. ASSUME NEW n \in Good PROVE n + 1 \in Good
  <2> SUFFICES ASSUME NEW R \in Sized(n + 1)
               PROVE  \E order \in Bijection(1..(n + 1), R) : Ascending(order)
    BY <1>2
  <2>1. R # {} /\ R \in SUBSET Nat /\ IsFiniteSet(R) /\ Cardinality(R) = n + 1 /\ n \in Nat
    BY FS_EmptySet
  <2>2. PICK least \in R : \A m \in R : least <= m
    BY <2>1, LeastExists
  <2>3. IsFiniteSet(R \ {least}) /\ Cardinality(R \ {least}) = n
    <3>1. Cardinality(R \ {least}) = Cardinality(R) - 1 /\ IsFiniteSet(R \ {least})
      BY <2>1, FS_RemoveElement
    <3>2. QED BY <2>1, <3>1
  <2>4. PICK order \in Bijection(1..n, R \ {least}) : Ascending(order)
    BY <1>2, <2>1, <2>3
  <2>5. \A m \in R \ {least} : least < m
    BY <2>1, <2>2
  <2>6. (R \ {least}) \union {least} = R
    OBVIOUS
  <2>7. least \in Nat /\ R \ {least} \in SUBSET Nat
    BY <2>1
  <2> HIDE DEF Sized, Good
  <2>8. QED BY <2>1, <2>4, <2>5, <2>6, <2>7, OneMore
<1>3. Good = Nat
  <2>1. Good \in SUBSET Nat
    OBVIOUS
  <2> HIDE DEF Good
  <2>2. QED BY <1>1, <1>2, <2>1, Inductive
<1>4. Cardinality(S) \in Nat /\ S \in Sized(Cardinality(S))
  BY FS_CardinalityType
<1>5. QED BY <1>3, <1>4

\* The wave as it is folded: each of its steps once.
LEMMA InOrderFacts ==
    ASSUME NEW S \in SUBSET Nat, IsFiniteSet(S)
    PROVE  /\ Cardinality(S) \in Nat
           /\ InOrder(S) \in [1..Cardinality(S) -> S]
           /\ \A k, l \in 1..Cardinality(S) : InOrder(S)[k] = InOrder(S)[l] => k = l
           /\ \A i \in S : \E k \in 1..Cardinality(S) : InOrder(S)[k] = i
<1>1. InOrder(S) \in Bijection(1..Cardinality(S), S)
  BY OrderExists DEF InOrder, Ascending
<1>2. QED BY <1>1, FS_CardinalityType DEF Bijection, Injection, Surjection, IsInjective

-----------------------------------------------------------------------------
(* The waves of a plan *)

LEMMA WaveType ==
    ASSUME NEW steps, NEW done \in SUBSET DOMAIN steps
    PROVE  Wave(steps, done) \subseteq DOMAIN steps \ done
  BY DEF Wave, Ready

\* The sets of steps done that leave at most n.
Late(steps, n) == {done \in SUBSET DOMAIN steps : Cardinality(DOMAIN steps \ done) <= n}

\* A wave leaves fewer steps; when none is left there is no wave.
LEMMA WaveProgress ==
    ASSUME NEW steps, IsFiniteSet(DOMAIN steps)
    PROVE  /\ \A done \in Late(steps, 0) : Wave(steps, done) = {}
           /\ \A n \in Nat : \A done \in Late(steps, n + 1) :
                  Wave(steps, done) # {} => done \union Wave(steps, done) \in Late(steps, n)
           /\ \A n \in Nat : Late(steps, n) \subseteq Late(steps, n + 1)
           /\ \E n \in Nat : Late(steps, n) = SUBSET DOMAIN steps
<1> DEFINE D == DOMAIN steps
<1>0. \A done \in SUBSET D : IsFiniteSet(D \ done) /\ Cardinality(D \ done) \in Nat
  <2> TAKE done \in SUBSET D
  <2>1. IsFiniteSet(D \ done)
    BY FS_Difference
  <2>2. QED BY <2>1, FS_CardinalityType
<1>1. ASSUME NEW n \in Nat, NEW done \in Late(steps, n + 1), Wave(steps, done) # {}
      PROVE  done \union Wave(steps, done) \in Late(steps, n)
  <2> DEFINE w == Wave(steps, done)
  <2>1. w \subseteq D \ done /\ done \in SUBSET D
    BY WaveType DEF Late
  <2>2. PICK i \in w : TRUE
    BY <1>1
  <2>3. D \ (done \union w) \in SUBSET ((D \ done) \ {i})
    BY <2>2
  <2>4. /\ IsFiniteSet((D \ done) \ {i})
        /\ Cardinality((D \ done) \ {i}) = Cardinality(D \ done) - 1
    <3>1. i \in D \ done /\ IsFiniteSet(D \ done)
      BY <1>0, <2>1, <2>2
    <3>2. QED BY <3>1, FS_RemoveElement
  <2>5. Cardinality(D \ (done \union w)) <= Cardinality((D \ done) \ {i})
    BY <2>3, <2>4, FS_Subset
  <2>6. done \union w \in SUBSET D
    BY <2>1
  <2>7. /\ Cardinality(D \ done) <= n + 1 /\ Cardinality(D \ done) \in Nat
        /\ Cardinality(D \ (done \union w)) \in Nat
    BY <1>0, <2>1, <2>6 DEF Late
  <2>8. Cardinality(D \ (done \union w)) <= n
    BY <2>4, <2>5, <2>7
  <2>9. QED BY <2>6, <2>8 DEF Late
<1>2. ASSUME NEW done \in Late(steps, 0) PROVE Wave(steps, done) = {}
  <2>1. Cardinality(D \ done) = 0 /\ IsFiniteSet(D \ done) /\ done \in SUBSET D
    BY <1>0 DEF Late
  <2>2. D \ done = {}
    BY <2>1, FS_EmptySet
  <2>3. QED BY <2>1, <2>2, WaveType
<1>3. ASSUME NEW n \in Nat PROVE Late(steps, n) \subseteq Late(steps, n + 1)
  <2>1. \A done \in SUBSET D : Cardinality(D \ done) <= n => Cardinality(D \ done) <= n + 1
    BY <1>0
  <2>2. QED BY <2>1 DEF Late
<1>4. Cardinality(D) \in Nat
  BY FS_CardinalityType
<1>5. Late(steps, Cardinality(D)) = SUBSET D
  <2>1. ASSUME NEW done \in SUBSET D PROVE Cardinality(D \ done) <= Cardinality(D)
    <3>1. D \ done \in SUBSET D
      OBVIOUS
    <3>2. QED BY <3>1, FS_Subset
  <2>2. QED BY <2>1 DEF Late
<1>6. QED BY <1>1, <1>2, <1>3, <1>4, <1>5

After(steps, f, done) ==
    IF Wave(steps, done) = {} THEN <<>>
    ELSE <<Wave(steps, done)>> \o f[done \union Wave(steps, done)]

\* waves_after is defined by recursion on the steps that are left: functions that
\* know what is left when that is at most n steps exist for each n.
LEMMA WavesExist ==
    ASSUME NEW steps, IsFiniteSet(DOMAIN steps)
    PROVE  \E f : f = [done \in SUBSET DOMAIN steps |-> After(steps, f, done)]
<1> DEFINE Knows(f, n) == f = [done \in Late(steps, n) |-> After(steps, f, done)]
           Known == {n \in Nat : \E f : Knows(f, n)}
<1>1. 0 \in Known
  <2> DEFINE f == [done \in Late(steps, 0) |-> <<>>]
  <2>1. \A done \in Late(steps, 0) : After(steps, f, done) = <<>>
    BY WaveProgress DEF After
  <2>2. f = [done \in Late(steps, 0) |-> After(steps, f, done)]
    BY <2>1
  <2> HIDE DEF f
  <2>3. QED BY <2>2
<1>2. ASSUME NEW n \in Known PROVE n + 1 \in Known
  <2>0. n \in Nat
    OBVIOUS
  <2>1. PICK f : Knows(f, n)
    BY <1>2
  <2> DEFINE g == [done \in Late(steps, n + 1) |-> After(steps, f, done)]
  <2>2. \A done \in Late(steps, n) : done \in Late(steps, n + 1)
    BY <2>0, WaveProgress
  <2>3. \A done \in Late(steps, n) : g[done] = f[done]
    BY <2>1, <2>2
  <2>4. ASSUME NEW done \in Late(steps, n + 1)
        PROVE  After(steps, g, done) = After(steps, f, done)
    <3>1. CASE Wave(steps, done) = {}
      BY <3>1 DEF After
    <3>2. CASE Wave(steps, done) # {}
      <4>1. done \union Wave(steps, done) \in Late(steps, n)
        BY <2>0, <3>2, WaveProgress
      <4>2. g[done \union Wave(steps, done)] = f[done \union Wave(steps, done)]
        BY <2>3, <4>1
      <4> HIDE DEF g
      <4>3. QED BY <4>2 DEF After
    <3>3. QED BY <3>1, <3>2
  <2>5. g = [done \in Late(steps, n + 1) |-> After(steps, g, done)]
    BY <2>4
  <2> HIDE DEF g
  <2>6. QED BY <2>0, <2>5
<1>3. Known = Nat
  <2>1. Known \in SUBSET Nat
    OBVIOUS
  <2> HIDE DEF Known
  <2>2. QED BY <1>1, <1>2, <2>1, Inductive
<1>4. PICK n \in Nat : Late(steps, n) = SUBSET DOMAIN steps
  BY WaveProgress
<1>5. PICK f : Knows(f, n)
  BY <1>3
<1>6. f = [done \in SUBSET DOMAIN steps |-> After(steps, f, done)]
  BY <1>4, <1>5
<1>7. QED BY <1>6

\* What is left is nothing, or a wave and what is left after it.
LEMMA WavesAfter ==
    ASSUME NEW steps, IsFiniteSet(DOMAIN steps), NEW done \in SUBSET DOMAIN steps
    PROVE  waves_after(steps)[done] = After(steps, waves_after(steps), done)
<1> DEFINE Defines(f) == f = [rest \in SUBSET DOMAIN steps |-> After(steps, f, rest)]
<1>1. \E f : Defines(f)
  BY WavesExist
<1>2. waves_after(steps) = CHOOSE f : Defines(f)
  BY DEF waves_after, After
<1> HIDE DEF Defines
<1>3. Defines(waves_after(steps))
  BY <1>1, <1>2
<1>4. waves_after(steps) = [rest \in SUBSET DOMAIN steps |-> After(steps, waves_after(steps), rest)]
  BY <1>3 DEF Defines
<1>5. QED BY <1>4

LEMMA WavesType ==
    ASSUME NEW steps, IsFiniteSet(DOMAIN steps), NEW done \in SUBSET DOMAIN steps
    PROVE  waves_after(steps)[done] \in Seq(SUBSET DOMAIN steps)
<1> DEFINE Typed(rest) == waves_after(steps)[rest] \in Seq(SUBSET DOMAIN steps)
           Known == {n \in Nat : \A rest \in Late(steps, n) : Typed(rest)}
<1>1. ASSUME NEW rest \in SUBSET DOMAIN steps,
             Wave(steps, rest) # {} => Typed(rest \union Wave(steps, rest))
      PROVE  Typed(rest)
  <2>1. waves_after(steps)[rest] = After(steps, waves_after(steps), rest)
    BY WavesAfter
  <2>2. CASE Wave(steps, rest) = {}
    BY <2>1, <2>2 DEF After
  <2>3. CASE Wave(steps, rest) # {}
    <3>1. Wave(steps, rest) \in SUBSET DOMAIN steps
      BY WaveType
    <3>2. <<Wave(steps, rest)>> \in Seq(SUBSET DOMAIN steps)
      BY <3>1
    <3>3. <<Wave(steps, rest)>> \o waves_after(steps)[rest \union Wave(steps, rest)]
              \in Seq(SUBSET DOMAIN steps)
      BY <1>1, <2>3, <3>2
    <3>4. QED BY <2>1, <2>3, <3>3 DEF After
  <2>4. QED BY <2>2, <2>3
<1> HIDE DEF Typed
<1>2. 0 \in Known
  <2>1. \A rest \in Late(steps, 0) : Wave(steps, rest) = {} /\ rest \in SUBSET DOMAIN steps
    BY WaveProgress DEF Late
  <2>2. QED BY <1>1, <2>1
<1>3. ASSUME NEW n \in Known PROVE n + 1 \in Known
  <2> SUFFICES ASSUME NEW rest \in Late(steps, n + 1) PROVE Typed(rest)
    OBVIOUS
  <2>1. rest \in SUBSET DOMAIN steps
    BY DEF Late
  <2>2. Wave(steps, rest) # {} => rest \union Wave(steps, rest) \in Late(steps, n)
    BY WaveProgress
  <2>3. QED BY <1>1, <1>3, <2>1, <2>2
<1>4. Known = Nat
  <2>1. Known \in SUBSET Nat
    OBVIOUS
  <2> HIDE DEF Known
  <2>2. QED BY <1>2, <1>3, <2>1, Inductive
<1>5. PICK n \in Nat : Late(steps, n) = SUBSET DOMAIN steps
  BY WaveProgress
<1>6. Typed(done)
  BY <1>4, <1>5
<1>7. QED BY <1>6 DEF Typed

\* In a plan that refers to earlier steps only, some step that is left is ready:
\* the first one.
LEMMA WaveIsReady ==
    ASSUME NEW steps \in Seq(StepType), Ordered(steps), NEW done \in SUBSET DOMAIN steps
    PROVE  /\ Wave(steps, done) = Ready(steps, done)
           /\ Wave(steps, done) = {} => done = DOMAIN steps
<1>1. DOMAIN steps \in SUBSET Nat
  OBVIOUS
<1>2. CASE DOMAIN steps \ done = {}
  BY <1>2 DEF Wave, Ready
<1>3. CASE DOMAIN steps \ done # {}
  <2>1. PICK i \in DOMAIN steps \ done : \A j \in DOMAIN steps \ done : i <= j
    BY <1>1, <1>3, LeastExists
  <2>2. \A j \in 1..(i - 1) : j \in DOMAIN steps /\ ~(i <= j)
    BY <2>1
  <2>3. steps[i].deps \subseteq done
    BY <2>1, <2>2 DEF Ordered
  <2>4. i \in Ready(steps, done)
    BY <2>1, <2>3 DEF Ready
  <2>5. QED BY <2>4 DEF Wave
<1>4. QED BY <1>2, <1>3

\* What is left of a plan: nothing when all is done, otherwise the steps that are
\* ready and what is left after them.
LEMMA Left ==
    ASSUME NEW steps \in Seq(StepType), Ordered(steps)
    PROVE  \A done \in SUBSET DOMAIN steps :
               /\ waves_after(steps)[done] \in Seq(SUBSET DOMAIN steps)
               /\ waves_after(steps)[done] = <<>> => done = DOMAIN steps
               /\ waves_after(steps)[done] # <<>> =>
                      /\ Head(waves_after(steps)[done]) = Ready(steps, done)
                      /\ Tail(waves_after(steps)[done])
                             = waves_after(steps)[done \union Ready(steps, done)]
                      /\ Ready(steps, done) \subseteq DOMAIN steps \ done
<1> TAKE done \in SUBSET DOMAIN steps
<1> DEFINE ws == waves_after(steps)[done]
           w == Ready(steps, done)
<1>1. IsFiniteSet(DOMAIN steps)
  BY FS_Interval
<1>2. ws \in Seq(SUBSET DOMAIN steps)
  BY <1>1, WavesType
<1>3. ws = IF w = {} THEN <<>> ELSE <<w>> \o waves_after(steps)[done \union w]
  BY <1>1, WavesAfter, WaveIsReady DEF After
<1>4. w = {} => done = DOMAIN steps
  BY WaveIsReady
<1>5. w \in SUBSET DOMAIN steps /\ w \subseteq DOMAIN steps \ done
  BY DEF Ready
<1>6. waves_after(steps)[done \union w] \in Seq(SUBSET DOMAIN steps)
  BY <1>1, <1>5, WavesType
<1> HIDE DEF w
<1>7. ASSUME NEW rest \in Seq(SUBSET DOMAIN steps)
      PROVE  /\ <<w>> \o rest # <<>>
             /\ Head(<<w>> \o rest) = w
             /\ Tail(<<w>> \o rest) = rest
  BY <1>5
<1>8. QED BY <1>2, <1>3, <1>4, <1>5, <1>6, <1>7 DEF w

-----------------------------------------------------------------------------
(* The steps of a case *)

\* Steps that leave the case alone, and those that set it up for the next one.
LEMMA Around ==
    ASSUME IInv, UNCHANGED caseVars
    PROVE  IInv'
<1>1. Ran' = Ran
  BY DEF caseVars, Ran
<1>2. TypeOK' /\ Unstarted' /\ PlanOK'
  BY DEF IInv, TypeOK, Unstarted, PlanOK, caseVars
<1>3. Scheduled'
  BY <1>1 DEF IInv, Scheduled, caseVars
<1>4. DesksAnswer' /\ OutputsInOrder' /\ CompleteMeansClear'
  BY DEF IInv, DesksAnswer, OutputsInOrder, CompleteMeansClear, caseVars
<1>5. QED BY <1>2, <1>3, <1>4 DEF IInv

LEMMA Stands ==
    ASSUME NEW s \in {"none", "opened", "abandoned"}, NEW o \in ObjectiveType, CaseStands(s, o, <<>>)
    PROVE  IInv'
<1>1. TypeOK'
  BY DEF CaseStands, TypeOK
<1>2. QED
  BY <1>1 DEF CaseStands, IInv, Unstarted, PlanOK, Scheduled, DesksAnswer, OutputsInOrder,
              CompleteMeansClear

LEMMA InitialState == Init => IInv
<1> SUFFICES ASSUME Init PROVE IInv
  OBVIOUS
<1>1. /\ objective \in ObjectiveType /\ status \in {"none", "opened"}
      /\ plan = <<>> /\ waves = <<>> /\ desk = <<>> /\ outputs = <<>>
  <2>1. NoCase \in ObjectiveType
    BY DEF NoCase, ObjectiveType
  <2>2. QED BY <2>1, CasesAssumption DEF Init, CasesInit
<1>2. TypeOK
  BY <1>1 DEF TypeOK
<1>3. QED
  BY <1>1, <1>2 DEF IInv, Unstarted, PlanOK, Scheduled, DesksAnswer, OutputsInOrder,
                    CompleteMeansClear

\* The rule-based plan serves every desk the objective mentions.
LEMMA RuleBasedFacts ==
    ASSUME NEW mentions \in Seq(Owners)
    PROVE  /\ RuleBased(mentions) \in Seq(StepType)
           /\ RuleBased(mentions) # <<>>
           /\ Ordered(RuleBased(mentions))
           /\ {mentions[k] : k \in DOMAIN mentions} \subseteq OwnersOf(RuleBased(mentions))
           /\ OwnersOf(RuleBased(mentions)) \subseteq Owners
<1> DEFINE ordered == IF mentions = <<>> THEN <<"risk">> ELSE mentions
           base == [i \in DOMAIN ordered |->
                       [owner |-> ordered[i], deps |-> IF i = 1 THEN {} ELSE {1},
                        urgent |-> FALSE, acts |-> FALSE]]
<1>1. RuleBased(mentions) = base
  BY DEF RuleBased
<1>2. ordered \in Seq(Owners) /\ Len(ordered) \in Nat \ {0} /\ DOMAIN ordered = 1..Len(ordered)
  <2>1. CASE mentions = <<>>
    <3>1. "risk" \in Owners
      BY DEF Owners
    <3>2. ordered = <<"risk">>
      BY <2>1
    <3> HIDE DEF ordered
    <3>3. QED BY <3>1, <3>2
  <2>2. CASE mentions # <<>>
    <3>1. ordered = mentions
      BY <2>2
    <3> HIDE DEF ordered
    <3>2. Len(mentions) # 0
      BY <2>2
    <3>3. QED BY <3>1, <3>2
  <2>3. QED BY <2>1, <2>2
<1>3. {mentions[k] : k \in DOMAIN mentions} \subseteq {ordered[k] : k \in DOMAIN ordered}
  OBVIOUS
<1> HIDE DEF ordered
<1>4. ASSUME NEW i \in DOMAIN ordered
      PROVE  /\ base[i].owner = ordered[i] /\ ordered[i] \in Owners
             /\ base[i].deps \in SUBSET Nat /\ base[i].deps \subseteq 1..(i - 1)
             /\ base[i] \in StepType
  <2>1. i \in Nat \ {0} /\ ordered[i] \in Owners
    BY <1>2
  <2>2. CASE i = 1
    BY <2>1, <2>2 DEF StepType
  <2>3. CASE i # 1
    <3>1. 1 \in 1..(i - 1)
      BY <2>1, <2>3
    <3>2. QED BY <2>1, <2>3, <3>1 DEF StepType
  <2>4. QED BY <2>2, <2>3
<1>5. DOMAIN base = DOMAIN ordered
  OBVIOUS
<1> HIDE DEF base
<1>6. OwnersOf(base) = {ordered[k] : k \in DOMAIN ordered}
  BY <1>4, <1>5 DEF OwnersOf
<1>7. base \in Seq(StepType)
  <2>1. base \in [1..Len(ordered) -> StepType]
    <3>1. base = [i \in DOMAIN ordered |-> base[i]]
      BY DEF base
    <3>2. QED BY <1>2, <1>4, <3>1
  <2>2. QED BY <1>2, <2>1
<1>8. base # <<>>
  BY <1>2, <1>5
<1>9. Ordered(base)
  BY <1>4, <1>5 DEF Ordered
<1>10. QED
  BY <1>1, <1>2, <1>3, <1>4, <1>6, <1>7, <1>8, <1>9

LEMMA PlanStep ==
    ASSUME IInv, Plan
    PROVE  IInv'
<1> DEFINE base == RuleBased(objective.mentions)
<1>1. /\ objective \in ObjectiveType /\ objective.mentions \in Seq(Owners)
      /\ status = "opened" /\ status' = "planned"
      /\ objective' = objective /\ waves' = waves /\ desk' = desk /\ outputs' = outputs
  BY DEF IInv, TypeOK, ObjectiveType, Plan
<1>2. waves = <<>> /\ DOMAIN desk = {} /\ outputs = <<>>
  BY <1>1 DEF IInv, Unstarted
<1>3. /\ base \in Seq(StepType) /\ base # <<>> /\ Ordered(base)
      /\ {objective.mentions[k] : k \in DOMAIN objective.mentions} \subseteq OwnersOf(base)
      /\ OwnersOf(base) \subseteq Owners
  BY <1>1, RuleBasedFacts
<1>4. PICK refined \in Refinements :
          plan' = IF validate_refined(refined, base) THEN refined ELSE base
  BY DEF Plan
<1> HIDE DEF base
<1>5. /\ plan' \in Seq(StepType) /\ plan' # <<>> /\ Ordered(plan')
      /\ {objective.mentions[k] : k \in DOMAIN objective.mentions} \subseteq OwnersOf(plan')
  <2>1. CASE ~validate_refined(refined, base)
    BY <1>3, <1>4, <2>1
  <2>2. CASE validate_refined(refined, base)
    <3>1. refined \in Seq([owner : STRING, deps : SUBSET Nat, urgent : BOOLEAN, acts : BOOLEAN])
      BY CasesAssumption
    <3>2. Len(refined) \in 1..8 /\ Ordered(refined) /\ OwnersOf(refined) = OwnersOf(base)
      BY <2>2 DEF validate_refined, Ordered
    <3>3. ASSUME NEW i \in DOMAIN refined PROVE refined[i] \in StepType
      <4>1. refined[i] \in [owner : STRING, deps : SUBSET Nat, urgent : BOOLEAN, acts : BOOLEAN]
        BY <3>1, ElementType
      <4>2. refined[i].owner \in OwnersOf(refined)
        BY DEF OwnersOf
      <4>3. refined[i].owner \in Owners
        BY <1>3, <3>2, <4>2
      <4>4. QED BY <4>1, <4>3 DEF StepType
    <3>4. refined \in Seq(StepType)
      BY <3>1, <3>3
    <3>5. refined # <<>>
      BY <3>2
    <3>6. QED BY <1>3, <1>4, <2>2, <3>2, <3>4, <3>5
  <2>3. QED BY <2>1, <2>2
<1>6. TypeOK'
  <2>1. waves' \in Seq(SUBSET DOMAIN plan')
    BY <1>1, <1>2
  <2>2. QED BY <1>1, <1>5, <2>1 DEF IInv, TypeOK
<1>7. Unstarted'
  BY <1>1, <1>2 DEF Unstarted
<1>8. PlanOK'
  BY <1>1, <1>5 DEF PlanOK
<1>9. Scheduled' /\ CompleteMeansClear'
  BY <1>1 DEF Scheduled, CompleteMeansClear
<1>10. DesksAnswer' /\ OutputsInOrder'
  BY <1>1, <1>2 DEF DesksAnswer, OutputsInOrder
<1>11. QED BY <1>6, <1>7, <1>8, <1>9, <1>10 DEF IInv

LEMMA SenseStep ==
    ASSUME IInv, Sense
    PROVE  IInv'
<1>1. /\ status = "planned" /\ status' = "sensed" /\ waves' = plan_waves(plan)
      /\ desk' = [i \in Head(plan_waves(plan)) |-> [at |-> "observe"]]
      /\ objective' = objective /\ plan' = plan /\ outputs' = outputs
  BY DEF Sense
<1>2. outputs = <<>> /\ plan # <<>> /\ Ordered(plan) /\ plan \in Seq(StepType)
  BY <1>1 DEF IInv, Unstarted, PlanOK, TypeOK
<1>3. Ran' = {}
  BY <1>1, <1>2 DEF Ran
<1>4. plan_waves(plan) = waves_after(plan)[{}] /\ {} \in SUBSET DOMAIN plan
  BY DEF plan_waves
<1>5. DOMAIN plan # {}
  <2>1. Len(plan) \in Nat \ {0} /\ DOMAIN plan = 1..Len(plan)
    BY <1>2
  <2>2. QED BY <2>1
<1>6. waves' \in Seq(SUBSET DOMAIN plan) /\ waves' # <<>>
  <2>1. \A done \in SUBSET DOMAIN plan :
            /\ waves_after(plan)[done] \in Seq(SUBSET DOMAIN plan)
            /\ waves_after(plan)[done] = <<>> => done = DOMAIN plan
    BY <1>2, Left
  <2>2. QED BY <1>1, <1>4, <1>5, <2>1
<1>7. Scheduled'
  BY <1>1, <1>3, <1>4, <1>6 DEF Scheduled
<1>8. TypeOK'
  <2>1. \A i \in DOMAIN desk' : desk'[i] \in DeskType
    BY <1>1 DEF DeskType
  <2>2. QED BY <1>1, <1>6, <2>1 DEF IInv, TypeOK
<1>9. Unstarted' /\ PlanOK' /\ CompleteMeansClear'
  BY <1>1 DEF IInv, Unstarted, PlanOK, CompleteMeansClear
<1>10. DesksAnswer' /\ OutputsInOrder'
  BY <1>1, <1>2 DEF DesksAnswer, OutputsInOrder
<1>11. QED BY <1>7, <1>8, <1>9, <1>10 DEF IInv

\* A step of one desk, which may leave an answer there.
LEMMA DeskStep ==
    ASSUME IInv, NEW i \in DOMAIN desk, NEW entry \in DeskType,
           entry.at = "done" => entry.output.step = i,
           desk' = [desk EXCEPT ![i] = entry],
           UNCHANGED <<objective, plan, waves, outputs, status>>
    PROVE  IInv'
<1>1. DOMAIN desk' = DOMAIN desk
  OBVIOUS
<1>2. \A j \in DOMAIN desk : desk'[j] = IF j = i THEN entry ELSE desk[j]
  OBVIOUS
<1>3. TypeOK'
  BY <1>1, <1>2 DEF IInv, TypeOK
<1>4. Unstarted' /\ PlanOK'
  BY <1>1 DEF IInv, Unstarted, PlanOK
<1>5. Scheduled'
  <2>1. Ran' = Ran
    BY DEF Ran
  <2>2. QED BY <1>1, <2>1 DEF IInv, Scheduled
<1>6. DesksAnswer'
  BY <1>1, <1>2 DEF IInv, DesksAnswer
<1>7. OutputsInOrder' /\ CompleteMeansClear'
  BY DEF IInv, OutputsInOrder, CompleteMeansClear
<1>8. QED BY <1>3, <1>4, <1>5, <1>6, <1>7 DEF IInv

LEMMA DeskOwner ==
    ASSUME IInv, NEW i \in DOMAIN desk
    PROVE  /\ i \in Nat /\ plan[i].owner \in Owners
           /\ plan[i].urgent \in BOOLEAN /\ plan[i].acts \in BOOLEAN
<1>1. status \notin {"none", "opened", "planned", "abandoned"}
  BY DEF IInv, Unstarted
<1>2. waves # <<>> /\ i \in Head(waves) /\ waves \in Seq(SUBSET DOMAIN plan)
  BY <1>1 DEF IInv, Scheduled, TypeOK
<1>3. i \in DOMAIN plan /\ plan \in Seq(StepType)
  BY <1>2, HeadType DEF IInv, TypeOK
<1>4. i \in Nat /\ plan[i] \in StepType
  BY <1>3, ElementType
<1>5. QED BY <1>4 DEF StepType

LEMMA ObserveStep ==
    ASSUME IInv, NEW i \in DOMAIN desk, Observe(i)
    PROVE  IInv'
<1>1. PICK observed \in BOOLEAN :
          desk' = [desk EXCEPT ![i] = [at |-> "simulate", observed |-> observed]]
  BY DEF Observe, call_tolerant
<1>2. [at |-> "simulate", observed |-> observed] \in DeskType
  BY DEF DeskType
<1>3. UNCHANGED <<objective, plan, waves, outputs, status>>
  BY DEF Observe
<1>4. QED BY <1>1, <1>2, <1>3, DeskStep

LEMMA SimulateStep ==
    ASSUME IInv, NEW i \in DOMAIN desk, Simulate(i)
    PROVE  IInv'
<1>1. PICK simulation \in {"none", "odd", "bare", "ci"} :
          desk' = [desk EXCEPT ![i] = [at |-> "propose", observed |-> @.observed,
                                       simulation |-> simulation]]
  BY DEF Simulate
<1>2. desk[i] \in DeskType /\ desk[i].at = "simulate"
  BY DEF Simulate, IInv, TypeOK
<1>3. desk[i].observed \in BOOLEAN
  BY <1>2 DEF DeskType
<1> DEFINE entry == [at |-> "propose", observed |-> desk[i].observed, simulation |-> simulation]
<1>4. entry \in DeskType /\ entry.at # "done"
  BY <1>3 DEF DeskType
<1>5. desk' = [desk EXCEPT ![i] = entry]
  BY <1>1
<1>6. UNCHANGED <<objective, plan, waves, outputs, status>>
  BY DEF Simulate
<1> HIDE DEF entry
<1>7. QED BY <1>4, <1>5, <1>6, DeskStep

LEMMA ImpliedTierType ==
    ASSUME NEW owner \in Owners, NEW m
    PROVE  implied_tier(owner, m) \in Tiers
<1>1. /\ ImpliedRisk(m) \in Tiers /\ ImpliedTreasury(m) \in Tiers
      /\ ImpliedCompliance(m) \in Tiers /\ ImpliedCustomerOps(m) \in Tiers
  BY DEF ImpliedRisk, ImpliedTreasury, ImpliedCompliance, ImpliedCustomerOps, Tiers
<1>2. QED BY <1>1 DEF implied_tier, Owners

LEMMA ProposeStep ==
    ASSUME IInv, NEW i \in DOMAIN desk, Propose(i)
    PROVE  IInv'
<1>1. desk[i] \in DeskType /\ desk[i].at = "propose" /\ objective \in ObjectiveType
  BY DEF Propose, IInv, TypeOK
<1>2. plan[i].owner \in Owners /\ i \in Nat
  BY DeskOwner
<1>3. PICK m \in Metrics(plan[i].owner, desk[i].observed, desk[i].simulation \in {"bare", "ci"}),
           lodged \in BOOLEAN :
          desk' = [desk EXCEPT ![i] =
              [at |-> "done",
               output |-> Output(i, desk[i].observed \/ desk[i].simulation # "none" \/ lodged,
                                 desk[i].simulation = "ci",
                                 IF objective.urgent \/ plan[i].urgent
                                 THEN bump_tier(implied_tier(plan[i].owner, m), 2)
                                 ELSE implied_tier(plan[i].owner, m),
                                 objective.acts \/ plan[i].acts,
                                 candidate_actions(plan[i].owner, m)
                                     \/ (objective.acts \/ plan[i].acts))]]
  BY DEF Propose, call_tolerant
<1> DEFINE ok == desk[i].observed \/ desk[i].simulation # "none" \/ lodged
           rehearsed == desk[i].simulation = "ci"
           tier == IF objective.urgent \/ plan[i].urgent
                                 THEN bump_tier(implied_tier(plan[i].owner, m), 2)
                   ELSE implied_tier(plan[i].owner, m)
           acts == objective.acts \/ plan[i].acts
           routed == candidate_actions(plan[i].owner, m) \/ acts
           entry == [at |-> "done", output |-> Output(i, ok, rehearsed, tier, acts, routed)]
<1>4. ok \in BOOLEAN /\ rehearsed \in BOOLEAN /\ routed \in BOOLEAN
  OBVIOUS
<1>5. acts \in BOOLEAN
  OBVIOUS
<1>6. tier \in Tiers
  <2>1. implied_tier(plan[i].owner, m) \in Tiers
    BY <1>2, ImpliedTierType
  <2>2. QED BY <2>1 DEF bump_tier, Tiers
<1>7. desk' = [desk EXCEPT ![i] = entry]
  BY <1>3
<1> HIDE DEF ok, rehearsed, tier, acts, routed
<1>8. entry \in DeskType /\ entry.output.step = i
  BY <1>2, <1>4, <1>5, <1>6 DEF DeskType, OutputType, Output
<1>9. UNCHANGED <<objective, plan, waves, outputs, status>>
  BY DEF Propose
<1> HIDE DEF entry
<1>10. QED BY <1>7, <1>8, <1>9, DeskStep

LEMMA CrashStep ==
    ASSUME IInv, NEW i \in DOMAIN desk, Crash(i)
    PROVE  IInv'
<1>1. i \in Nat
  BY DeskOwner
<1> DEFINE entry == [at |-> "done", output |-> Degraded(i)]
<1>2. entry \in DeskType /\ entry.output.step = i
  BY <1>1 DEF DeskType, OutputType, Degraded, Tiers
<1>3. desk' = [desk EXCEPT ![i] = entry] /\ UNCHANGED <<objective, plan, waves, outputs, status>>
  BY DEF Crash
<1> HIDE DEF entry
<1>4. QED BY <1>2, <1>3, DeskStep

\* The wave that has settled is folded: its outputs, each once, in the order of
\* the plan; what is left after them becomes the next wave.
LEMMA FoldStep ==
    ASSUME IInv, Fold
    PROVE  IInv'
<1> DEFINE w == Head(waves)
           order == InOrder(w)
           n == Cardinality(w)
           folded == [k \in DOMAIN order |-> desk[order[k]].output]
<1>1. /\ status = "sensed" /\ status' = status /\ waves # <<>>
      /\ objective' = objective /\ plan' = plan /\ waves' = Tail(waves)
      /\ outputs' = outputs \o folded
      /\ desk' = [i \in (IF Tail(waves) = <<>> THEN {} ELSE Head(Tail(waves))) |-> [at |-> "observe"]]
      /\ \A i \in w : desk[i].at = "done"
  BY DEF Fold, Settled
<1>2. /\ plan \in Seq(StepType) /\ Ordered(plan) /\ outputs \in Seq(OutputType)
      /\ Ran \subseteq DOMAIN plan /\ waves = waves_after(plan)[Ran] /\ DOMAIN desk = w
  BY <1>1 DEF IInv, TypeOK, PlanOK, Scheduled
<1>3. /\ waves \in Seq(SUBSET DOMAIN plan)
      /\ w = Ready(plan, Ran) /\ w \subseteq DOMAIN plan \ Ran
      /\ Tail(waves) = waves_after(plan)[Ran \union w]
  <2>1. \A done \in SUBSET DOMAIN plan :
            /\ waves_after(plan)[done] \in Seq(SUBSET DOMAIN plan)
            /\ waves_after(plan)[done] # <<>> =>
                   /\ Head(waves_after(plan)[done]) = Ready(plan, done)
                   /\ Tail(waves_after(plan)[done])
                          = waves_after(plan)[done \union Ready(plan, done)]
                   /\ Ready(plan, done) \subseteq DOMAIN plan \ done
    <3>1. plan \in Seq(StepType) /\ Ordered(plan)
      BY <1>2
    <3>2. QED BY <3>1, Left
  <2>2. Ran \in SUBSET DOMAIN plan /\ waves_after(plan)[Ran] # <<>>
    BY <1>1, <1>2
  <2>3. /\ waves_after(plan)[Ran] \in Seq(SUBSET DOMAIN plan)
        /\ Head(waves_after(plan)[Ran]) = Ready(plan, Ran)
        /\ Tail(waves_after(plan)[Ran]) = waves_after(plan)[Ran \union Ready(plan, Ran)]
        /\ Ready(plan, Ran) \subseteq DOMAIN plan \ Ran
    BY <2>1, <2>2
  <2>4. w = Head(waves_after(plan)[Ran])
    BY <1>2
  <2> HIDE DEF w
  <2>5. w = Ready(plan, Ran)
    BY <2>3, <2>4
  <2>6. waves = waves_after(plan)[Ran]
    BY <1>2
  <2>7. Tail(waves) = Tail(waves_after(plan)[Ran]) /\ waves \in Seq(SUBSET DOMAIN plan)
    BY <2>3, <2>6
  <2>8. Tail(waves) = waves_after(plan)[Ran \union w]
    BY <2>3, <2>5, <2>7
  <2>9. QED BY <2>3, <2>5, <2>7, <2>8
<1>4. w \in SUBSET Nat /\ IsFiniteSet(w)
  <2>1. DOMAIN plan = 1..Len(plan) /\ Len(plan) \in Nat
    BY <1>2
  <2>2. IsFiniteSet(1..Len(plan))
    BY <2>1, FS_Interval
  <2>3. w \in SUBSET (1..Len(plan)) /\ 1..Len(plan) \in SUBSET Nat
    BY <1>3, <2>1
  <2>4. QED BY <2>2, <2>3, FS_Subset
<1>5. /\ n \in Nat /\ order \in [1..n -> w]
      /\ \A k, l \in 1..n : order[k] = order[l] => k = l
      /\ \A i \in w : \E k \in 1..n : order[k] = i
  BY <1>4, InOrderFacts
<1> HIDE DEF w, order, n
<1>6. ASSUME NEW k \in 1..n
      PROVE  folded[k] \in OutputType /\ folded[k].step = order[k] /\ order[k] \in w
  <2>1. order[k] \in w /\ order[k] \in DOMAIN desk
    BY <1>2, <1>5
  <2>2. desk[order[k]] \in DeskType /\ desk[order[k]].at = "done"
    BY <1>1, <2>1 DEF IInv, TypeOK
  <2>3. desk[order[k]].output \in OutputType
    BY <2>2 DEF DeskType
  <2>4. desk[order[k]].output.step = order[k]
    BY <2>1, <2>2 DEF IInv, DesksAnswer
  <2>5. k \in DOMAIN order
    BY <1>5
  <2>6. QED BY <2>1, <2>3, <2>4, <2>5
<1>7. folded \in Seq(OutputType) /\ Len(folded) = n
  <2>1. folded \in [1..n -> OutputType]
    <3>1. folded = [k \in 1..n |-> folded[k]]
      BY <1>5
    <3> HIDE DEF folded
    <3>2. QED BY <1>6, <3>1
  <2> HIDE DEF folded
  <2>2. QED BY <1>5, <2>1
<1> HIDE DEF folded
<1> DEFINE m == Len(outputs)
<1>8. m \in Nat /\ DOMAIN outputs = 1..m
  BY <1>2
<1>9. /\ outputs' \in Seq(OutputType) /\ DOMAIN outputs' = 1..(m + n)
      /\ \A k \in 1..m : outputs'[k] = outputs[k]
      /\ \A k \in (m + 1)..(m + n) : k - m \in 1..n /\ outputs'[k] = folded[k - m]
  BY <1>1, <1>2, <1>7, InARow
<1>10. \A k \in 1..m : outputs[k].step \in Ran
  BY <1>8 DEF Ran
<1>11. \A k \in (m + 1)..(m + n) : outputs'[k].step = order[k - m] /\ outputs'[k].step \in w
  BY <1>6, <1>9
<1> HIDE DEF m
<1>12. Ran' = Ran \union w
  <2>1. Ran' \subseteq Ran \union w
    <3> SUFFICES ASSUME NEW k \in 1..(m + n) PROVE outputs'[k].step \in Ran \union w
      BY <1>9 DEF Ran
    <3>1. k \in 1..m \/ k \in (m + 1)..(m + n)
      BY <1>5, <1>8
    <3>2. QED BY <1>9, <1>10, <1>11, <3>1
  <2>2. Ran \subseteq Ran'
    <3> SUFFICES ASSUME NEW k \in 1..m PROVE outputs[k].step \in Ran'
      BY <1>8 DEF Ran
    <3>1. k \in 1..(m + n) /\ outputs'[k] = outputs[k]
      BY <1>5, <1>8, <1>9
    <3>2. outputs[k].step = outputs'[k].step
      BY <3>1
    <3>3. QED BY <1>9, <3>1, <3>2 DEF Ran
  <2>3. w \subseteq Ran'
    <3> SUFFICES ASSUME NEW i \in w PROVE i \in Ran'
      OBVIOUS
    <3>1. PICK k \in 1..n : order[k] = i
      BY <1>5
    <3>2. k + m \in (m + 1)..(m + n) /\ (k + m) - m = k /\ k + m \in 1..(m + n)
      BY <1>5, <1>8
    <3>3. outputs'[k + m].step = i
      BY <1>11, <3>1, <3>2
    <3>4. QED BY <1>9, <3>2, <3>3 DEF Ran
  <2>4. QED BY <2>1, <2>2, <2>3
<1>13. TypeOK'
  <2>1. waves' \in Seq(SUBSET DOMAIN plan')
    BY <1>1, <1>3
  <2>2. \A i \in DOMAIN desk' : desk'[i] \in DeskType
    BY <1>1 DEF DeskType
  <2>3. QED BY <1>1, <1>9, <2>1, <2>2 DEF IInv, TypeOK
<1>14. Unstarted' /\ PlanOK' /\ CompleteMeansClear'
  BY <1>1 DEF IInv, Unstarted, PlanOK, CompleteMeansClear
<1>15. Scheduled'
  BY <1>1, <1>2, <1>3, <1>12 DEF Scheduled
<1>16. DesksAnswer'
  BY <1>1 DEF DesksAnswer
<1>17. OutputsInOrder'
  <2>1. ASSUME NEW k \in 1..(m + n), NEW l \in 1..(m + n), outputs'[k].step = outputs'[l].step
        PROVE  k = l
    <3>1. CASE k \in 1..m /\ l \in 1..m
      BY <1>8, <1>9, <2>1, <3>1 DEF IInv, OutputsInOrder
    <3>2. CASE k \in (m + 1)..(m + n) /\ l \in (m + 1)..(m + n)
      <4>1. order[k - m] = order[l - m] /\ k - m \in 1..n /\ l - m \in 1..n
        BY <1>9, <1>11, <2>1, <3>2
      <4>2. k - m = l - m
        BY <1>5, <4>1
      <4>3. QED BY <1>8, <4>2
    <3>3. CASE k \in 1..m /\ l \in (m + 1)..(m + n)
      BY <1>3, <1>9, <1>10, <1>11, <2>1, <3>3
    <3>4. CASE k \in (m + 1)..(m + n) /\ l \in 1..m
      BY <1>3, <1>9, <1>10, <1>11, <2>1, <3>4
    <3>5. QED BY <1>5, <1>8, <3>1, <3>2, <3>3, <3>4
  <2>2. ASSUME NEW k \in 1..(m + n)
        PROVE  plan[outputs'[k].step].deps \subseteq {outputs'[l].step : l \in 1..(k - 1)}
    <3>1. CASE k \in 1..m
      <4>1. plan[outputs[k].step].deps \subseteq {outputs[l].step : l \in 1..(k - 1)}
        BY <1>8, <3>1 DEF IInv, OutputsInOrder
      <4>2. \A l \in 1..(k - 1) : outputs'[l] = outputs[l]
        BY <1>8, <1>9, <3>1
      <4>3. QED BY <1>9, <3>1, <4>1, <4>2
    <3>2. CASE k \in (m + 1)..(m + n)
      <4>1. outputs'[k].step \in Ready(plan, Ran)
        BY <1>3, <1>11, <3>2
      <4>2. plan[outputs'[k].step].deps \subseteq Ran
        BY <4>1 DEF Ready
      <4>3. ASSUME NEW i \in Ran PROVE i \in {outputs'[l].step : l \in 1..(k - 1)}
        <5>1. PICK l \in 1..m : outputs[l].step = i
          BY <1>8 DEF Ran
        <5>2. l \in 1..(k - 1)
          BY <1>8, <3>2
        <5>3. outputs'[l].step = i
          BY <1>9, <5>1
        <5>4. QED BY <5>2, <5>3
      <4>4. QED BY <4>2, <4>3
    <3>3. QED BY <1>5, <1>8, <3>1, <3>2
  <2>3. QED BY <1>1, <1>9, <2>1, <2>2 DEF OutputsInOrder
<1>18. QED BY <1>13, <1>14, <1>15, <1>16, <1>17 DEF IInv

-----------------------------------------------------------------------------
(* Closing a case *)

\* Every tier is low, medium or high, so the greatest is at least each of them.
LEMMA ImpliedFacts ==
    ASSUME outputs \in Seq(OutputType)
    PROVE  /\ implied \in Tiers
           /\ \A k \in DOMAIN outputs : outputs[k].tier <= implied
<1> DEFINE S == {0} \union {outputs[k].tier : k \in DOMAIN outputs}
<1>1. \A k \in DOMAIN outputs : outputs[k].tier \in Tiers
  <2>1. \A k \in DOMAIN outputs : outputs[k] \in OutputType
    OBVIOUS
  <2>2. QED BY <2>1 DEF OutputType
<1>2. S \in SUBSET {0, 1, 2} /\ 0 \in S
  BY <1>1 DEF Tiers
<1>3. \A k \in DOMAIN outputs : outputs[k].tier \in S
  OBVIOUS
<1> HIDE DEF S
<1>4. \E x \in S : \A y \in S : x >= y
  <2>1. CASE 2 \in S
    BY <1>2, <2>1
  <2>2. CASE 2 \notin S /\ 1 \in S
    BY <1>2, <2>2
  <2>3. CASE 2 \notin S /\ 1 \notin S
    BY <1>2, <2>3
  <2>4. QED BY <2>1, <2>2, <2>3
<1>5. Max(S) \in S /\ \A y \in S : Max(S) >= y
  BY <1>4 DEF Max
<1>6. implied = Max(S)
  BY DEF implied, S
<1>7. implied \in {0, 1, 2} /\ \A y \in S : y \in {0, 1, 2} /\ implied >= y
  BY <1>2, <1>5, <1>6
<1>8. \A k \in DOMAIN outputs : outputs[k].tier <= implied
  BY <1>3, <1>7
<1>9. QED BY <1>7, <1>8 DEF Tiers

\* All steps have run when nothing is left.
LEMMA AllRan ==
    ASSUME IInv, status \notin {"none", "opened", "planned", "abandoned"}, waves = <<>>
    PROVE  Ran = DOMAIN plan
<1>1. /\ plan \in Seq(StepType) /\ Ordered(plan)
      /\ Ran \in SUBSET DOMAIN plan /\ waves_after(plan)[Ran] = <<>>
  BY DEF IInv, TypeOK, PlanOK, Scheduled
<1>2. \A done \in SUBSET DOMAIN plan : waves_after(plan)[done] = <<>> => done = DOMAIN plan
  <2>1. plan \in Seq(StepType) /\ Ordered(plan)
    BY <1>1
  <2>2. QED BY <2>1, Left
<1>3. QED BY <1>1, <1>2

\* A case is complete only when aggregation and critic found nothing.
LEMMA CloseStep ==
    ASSUME IInv, Close
    PROVE  IInv'
<1>1. /\ status = "sensed" /\ waves = <<>>
      /\ objective' = objective /\ plan' = plan /\ waves' = waves /\ desk' = desk
      /\ outputs' = outputs
      /\ status' \in {"blocked", "awaiting_human", "complete"}
      /\ status' = "complete" => ~check_decision(aggregate).review
  BY DEF Close
<1>2. outputs \in Seq(OutputType)
  BY DEF IInv, TypeOK
<1>3. Ran' = Ran
  BY <1>1 DEF Ran
<1>4. ASSUME status' = "complete"
      PROVE  CompleteMeansClear'
  <2>1. ~aggregate.execute /\ ~(aggregate.tier >= 2)
    BY <1>1, <1>4 DEF check_decision
  <2>2. \A k \in DOMAIN outputs : ~outputs[k].acts
    BY <2>1 DEF aggregate
  <2>3. ~requires_human
    BY <2>1 DEF aggregate, bump_tier
  <2>4. ~(implied >= 2)
    BY <2>1, <2>3 DEF aggregate
  <2>5. \A k \in DOMAIN outputs : outputs[k].tier < 2
    <3>1. \A k \in DOMAIN outputs : outputs[k].tier \in Tiers
      <4>1. \A k \in DOMAIN outputs : outputs[k] \in OutputType
        BY <1>2
      <4>2. QED BY <4>1 DEF OutputType
    <3>2. QED BY <1>2, <2>4, <3>1, ImpliedFacts DEF Tiers
  <2>6. \A k \in DOMAIN outputs : outputs[k].claims => outputs[k].ok /\ outputs[k].rehearsed
    BY <2>3 DEF requires_human, Challenged
  <2>7. {objective.mentions[k] : k \in DOMAIN objective.mentions}
            \subseteq {plan[outputs[k].step].owner : k \in DOMAIN outputs}
    <3>1. {objective.mentions[k] : k \in DOMAIN objective.mentions}
              \subseteq {plan[i].owner : i \in DOMAIN plan}
      BY <1>1 DEF IInv, PlanOK, OwnersOf
    <3>2. DOMAIN plan = {outputs[k].step : k \in DOMAIN outputs}
      <4>1. status \notin {"none", "opened", "planned", "abandoned"} /\ waves = <<>>
        BY <1>1
      <4>2. Ran = DOMAIN plan
        BY <4>1, AllRan
      <4>3. QED BY <4>2 DEF Ran
    <3>3. ASSUME NEW i \in DOMAIN plan
          PROVE  plan[i].owner \in {plan[outputs[k].step].owner : k \in DOMAIN outputs}
      <4>1. PICK k \in DOMAIN outputs : outputs[k].step = i
        BY <3>2
      <4>2. plan[i].owner = plan[outputs[k].step].owner
        BY <4>1
      <4>3. QED BY <4>2
    <3>4. QED BY <3>1, <3>3
  <2>8. QED BY <1>1, <2>2, <2>5, <2>6, <2>7 DEF CompleteMeansClear
<1>5. CompleteMeansClear'
  <2>1. CASE status' = "complete"
    BY <1>4, <2>1
  <2>2. CASE status' # "complete"
    BY <2>2 DEF CompleteMeansClear
  <2>3. QED BY <2>1, <2>2
<1>6. TypeOK'
  BY <1>1 DEF IInv, TypeOK
<1>7. Unstarted' /\ PlanOK'
  BY <1>1 DEF IInv, Unstarted, PlanOK
<1>8. Scheduled'
  BY <1>1, <1>3 DEF IInv, Scheduled
<1>9. DesksAnswer' /\ OutputsInOrder'
  BY <1>1 DEF IInv, DesksAnswer, OutputsInOrder
<1>10. QED BY <1>5, <1>6, <1>7, <1>8, <1>9 DEF IInv

LEMMA AbandonStep ==
    ASSUME IInv, Abandon
    PROVE  IInv'
<1>1. objective \in ObjectiveType /\ CaseStands("abandoned", objective, <<>>)
  BY DEF Abandon, CaseStands, IInv, TypeOK
<1>2. QED BY <1>1, Stands

LEMMA EveryStep == IInv /\ [Next]_evaluationVars => IInv'
<1> SUFFICES ASSUME IInv, [Next]_evaluationVars PROVE IInv'
  OBVIOUS
<1>1. CASE UNCHANGED caseVars
  BY <1>1, Around
<1>2. CASE CasesNext
  <2>1. CASE Plan
    BY <2>1, PlanStep
  <2>2. CASE Sense
    BY <2>2, SenseStep
  <2>3. CASE Fold
    BY <2>3, FoldStep
  <2>4. CASE Close
    BY <2>4, CloseStep
  <2>5. CASE Abandon
    BY <2>5, AbandonStep
  <2>6. ASSUME NEW i \in DOMAIN desk, Observe(i) \/ Simulate(i) \/ Propose(i) \/ Crash(i)
        PROVE  IInv'
    BY <2>6, ObserveStep, SimulateStep, ProposeStep, CrashStep
  <2>7. QED BY <1>2, <2>1, <2>2, <2>3, <2>4, <2>5, <2>6 DEF CasesNext, Proceed
<1>3. CASE Call
  <2>1. PICK k \in DOMAIN FixedObjectives : CaseStands("opened", FixedObjectives[k], <<>>)
    BY <1>3 DEF Call
  <2>2. FixedObjectives[k] \in ObjectiveType
    BY EvaluationAssumption, ElementType
  <2>3. QED BY <2>1, <2>2, Stands
<1>4. CASE Return
  <2>1. CaseStands("none", NoCase, <<>>)
    BY <1>4 DEF Return
  <2>2. NoCase \in ObjectiveType
    BY DEF NoCase, ObjectiveType
  <2>3. QED BY <2>1, <2>2, Stands
<1>5. ASSUME NEW s, Raise(s) PROVE IInv'
  <2>1. CaseStands("none", NoCase, <<>>)
    BY <1>5 DEF Raise
  <2>2. NoCase \in ObjectiveType
    BY DEF NoCase, ObjectiveType
  <2>3. QED BY <2>1, <2>2, Stands
<1>6. CASE Next /\ ~CasesNext /\ ~Call /\ ~Return /\ \A k \in DOMAIN suites : ~Raise(suites[k])
  <2>1. UNCHANGED caseVars
    BY <1>6 DEF Next, EvalProceed, CasesNext, Skip, Break, summarise, Summarised, evaluate_case, Agree
  <2>2. QED BY <2>1, Around
<1>7. CASE UNCHANGED evaluationVars
  BY <1>7, Around DEF evaluationVars
<1>8. QED BY <1>2, <1>3, <1>4, <1>5, <1>6, <1>7

LEMMA Invariance == Spec => []IInv
<1>1. IInv /\ [Next]_evaluationVars => IInv'
  BY EveryStep
<1>2. QED BY <1>1, InitialState, PTL DEF Spec

\* handle_case and the suites that call it: objectives, plans, waves, desks and
\* outputs are well typed, for plans of any length and any number of objectives.
THEOREM TypeCorrect == Spec => []TypeOK
<1>1. IInv => TypeOK
  BY DEF IInv
<1>2. QED BY <1>1, Invariance, PTL

\* runtime.py handle_case: a case that closes without a human heard every desk its
\* objective mentions, and none that answered raised a concern, whatever plan the
\* model offered and whichever desks raised.
THEOREM ClearWhenComplete == Spec => []CompleteMeansClear
<1>1. IInv => CompleteMeansClear
  BY DEF IInv
<1>2. QED BY <1>1, Invariance, PTL

LEMMA PlanIsFollowed ==
    ASSUME IInv
    PROVE  RunsFollowThePlan
<1>1. /\ plan \in Seq(StepType) /\ outputs \in Seq(OutputType)
      /\ \A k, l \in DOMAIN outputs : outputs[k].step = outputs[l].step => k = l
      /\ \A k \in DOMAIN outputs :
             plan[outputs[k].step].deps \subseteq {outputs[l].step : l \in 1..(k - 1)}
  BY DEF IInv, TypeOK, OutputsInOrder
<1>2. ASSUME NEW i \in DOMAIN desk
      PROVE  plan[i].deps \subseteq {outputs[k].step : k \in DOMAIN outputs}
  <2>1. status \notin {"none", "opened", "planned", "abandoned"}
    BY DEF IInv, Unstarted
  <2>2. waves # <<>> /\ i \in Head(waves) /\ waves = waves_after(plan)[Ran]
        /\ Ran \in SUBSET DOMAIN plan /\ Ordered(plan)
    BY <2>1 DEF IInv, Scheduled, PlanOK
  <2>3. \A done \in SUBSET DOMAIN plan :
            waves_after(plan)[done] # <<>> =>
                Head(waves_after(plan)[done]) = Ready(plan, done)
    <3>1. plan \in Seq(StepType) /\ Ordered(plan)
      BY <1>1, <2>2
    <3>2. \A done \in SUBSET DOMAIN plan :
              waves_after(plan)[done] # <<>> =>
                  /\ Head(waves_after(plan)[done]) = Ready(plan, done)
                  /\ Tail(waves_after(plan)[done])
                         = waves_after(plan)[done \union Ready(plan, done)]
                  /\ Ready(plan, done) \subseteq DOMAIN plan \ done
      BY <3>1, Left
    <3>3. QED BY <3>2
  <2>4. i \in Ready(plan, Ran)
    BY <2>2, <2>3
  <2>5. QED BY <2>4 DEF Ready, Ran
<1>3. ASSUME Closed
      PROVE  Len(outputs) = Len(plan)
  <2>1. status \notin {"none", "opened", "planned", "abandoned"} /\ waves = <<>>
    BY <1>3 DEF Closed, IInv, Scheduled
  <2>2. Ran = DOMAIN plan
    BY <2>1, AllRan
  <2>3. /\ Len(plan) \in Nat /\ DOMAIN plan = 1..Len(plan)
        /\ Len(outputs) \in Nat /\ DOMAIN outputs = 1..Len(outputs)
    BY <1>1
  <2> DEFINE f == [k \in 1..Len(outputs) |-> outputs[k].step]
  <2>4. f \in Bijection(1..Len(outputs), 1..Len(plan))
    <3>1. \A k \in 1..Len(outputs) : f[k] = outputs[k].step
      OBVIOUS
    <3>2. f \in [1..Len(outputs) -> 1..Len(plan)]
      BY <2>2, <2>3 DEF Ran
    <3> HIDE DEF f
    <3>3. \A i \in 1..Len(plan) : \E k \in 1..Len(outputs) : f[k] = i
      BY <2>2, <2>3, <3>1 DEF Ran
    <3>4. \A k, l \in 1..Len(outputs) : f[k] = f[l] => k = l
      BY <1>1, <2>3, <3>1
    <3>5. QED BY <3>2, <3>3, <3>4 DEF Bijection, Injection, Surjection, IsInjective
  <2> HIDE DEF f
  <2>5. ExistsBijection(1..Len(outputs), 1..Len(plan))
    BY <2>4 DEF ExistsBijection
  <2>6. /\ IsFiniteSet(1..Len(outputs)) /\ Cardinality(1..Len(outputs)) = Len(outputs)
        /\ Cardinality(1..Len(plan)) = Len(plan)
    <3>1. \A n \in Nat : IsFiniteSet(1..n) /\ Cardinality(1..n) = n
      <4> TAKE n \in Nat
      <4>1. IsFiniteSet(1..n) /\ Cardinality(1..n) = IF 1 > n THEN 0 ELSE n - 1 + 1
        BY FS_Interval
      <4>2. QED BY <4>1
    <3>2. QED BY <2>3, <3>1
  <2>7. QED BY <2>5, <2>6, FS_Bijection
<1>4. QED BY <1>1, <1>2, <1>3 DEF RunsFollowThePlan

\* runtime.py handle_case: however the desks of a wave interleave or fail, each
\* step of the plan runs once, after all it depends on, and the decision reads
\* the outputs in the plan's order, for plans of any length.
THEOREM PlansAreFollowed == Spec => []RunsFollowThePlan
<1>1. IInv => RunsFollowThePlan
  BY PlanIsFollowed
<1>2. QED BY <1>1, Invariance, PTL

-----------------------------------------------------------------------------
(* Sums over finite sets *)

Choice(S) == CHOOSE x \in S : TRUE

\* g sums f over the subsets of S, as folds do; Part(g, f, C) over those in C.
Part(g, f, C) ==
    g = [s \in C |-> IF s = {} THEN 0 ELSE f[Choice(s)] + g[s \ {Choice(s)}]]

Sums(g, f, S) == Part(g, f, SUBSET S)

SumOf(f, S) == SumFunctionOnSet(f, S)

LEMMA SumIsFold ==
    ASSUME NEW f, NEW S
    PROVE  SumOf(f, S) = (CHOOSE g : Sums(g, f, S))[S]
  BY DEF Sums, SumOf, SumFunctionOnSet, FoldFunctionOnSet, MapThenFoldSet, Part, Choice

LEMMA Chosen ==
    ASSUME NEW S, S # {}
    PROVE  Choice(S) \in S
  BY DEF Choice

\* One element less.
LEMMA OneLess ==
    ASSUME NEW S, IsFiniteSet(S), NEW x \in S
    PROVE  /\ IsFiniteSet(S \ {x}) /\ Cardinality(S) \in Nat \ {0}
           /\ Cardinality(S \ {x}) \in Nat /\ Cardinality(S) = Cardinality(S \ {x}) + 1
<1>1. Cardinality(S) \in Nat /\ S # {}
  BY FS_CardinalityType
<1>2. Cardinality(S) # 0
  BY <1>1, FS_EmptySet
<1>3. IsFiniteSet(S \ {x}) /\ Cardinality(S \ {x}) = Cardinality(S) - 1
  BY FS_RemoveElement
<1>4. Cardinality(S \ {x}) \in Nat
  BY <1>3, FS_CardinalityType
<1>5. QED BY <1>1, <1>2, <1>3, <1>4

Small(S, n) == {s \in SUBSET S : Cardinality(s) <= n}

LEMMA PartsExist ==
    ASSUME NEW f, NEW S, IsFiniteSet(S)
    PROVE  \E g : Sums(g, f, S)
<1> DEFINE Ns == {n \in Nat : \E g : Part(g, f, Small(S, n))}
<1>1. 0 \in Ns
  <2> DEFINE g == [s \in Small(S, 0) |-> 0]
  <2>1. ASSUME NEW s \in Small(S, 0) PROVE s = {}
    <3>1. IsFiniteSet(s) /\ Cardinality(s) \in Nat /\ Cardinality(s) <= 0
      BY FS_Subset, FS_CardinalityType DEF Small
    <3>2. QED BY <3>1, FS_EmptySet
  <2>2. Part(g, f, Small(S, 0))
    BY <2>1 DEF Part
  <2>3. QED BY <2>2
<1>2. ASSUME NEW n \in Ns PROVE n + 1 \in Ns
  <2>1. PICK g : Part(g, f, Small(S, n))
    BY <1>2
  <2> DEFINE h == [s \in Small(S, n + 1) |->
                      IF s = {} THEN 0 ELSE f[Choice(s)] + g[s \ {Choice(s)}]]
  <2>2. ASSUME NEW s \in Small(S, n + 1), s # {}
        PROVE  s \ {Choice(s)} \in Small(S, n)
    <3>1. s \subseteq S /\ IsFiniteSet(s) /\ Choice(s) \in s /\ Cardinality(s) <= n + 1
      BY <2>2, FS_Subset, Chosen DEF Small
    <3>2. Cardinality(s \ {Choice(s)}) \in Nat /\ Cardinality(s) = Cardinality(s \ {Choice(s)}) + 1
      BY <3>1, OneLess
    <3>3. QED BY <3>1, <3>2 DEF Small
  <2>3. ASSUME NEW t \in Small(S, n) PROVE t \in Small(S, n + 1) /\ h[t] = g[t]
    <3>1. t \in SUBSET S /\ Cardinality(t) <= n /\ IsFiniteSet(t)
      BY FS_Subset DEF Small
    <3>2. Cardinality(t) \in Nat /\ n \in Nat
      BY <3>1, FS_CardinalityType
    <3>3. t \in Small(S, n + 1)
      BY <3>1, <3>2 DEF Small
    <3>4. g[t] = IF t = {} THEN 0 ELSE f[Choice(t)] + g[t \ {Choice(t)}]
      BY <2>1 DEF Part
    <3>5. QED BY <3>3, <3>4
  <2>4. \A s \in Small(S, n + 1) :
            h[s] = IF s = {} THEN 0 ELSE f[Choice(s)] + h[s \ {Choice(s)}]
    BY <2>2, <2>3
  <2>5. Part(h, f, Small(S, n + 1))
    <3> HIDE DEF h
    <3>1. h = [s \in Small(S, n + 1) |-> h[s]]
      BY DEF h
    <3>2. QED BY <2>4, <3>1 DEF Part
  <2>6. n + 1 \in Nat
    BY <1>2
  <2>7. QED BY <2>5, <2>6
<1>3. Ns = Nat
  <2> HIDE DEF Ns
  <2>1. Ns \in SUBSET Nat
    BY DEF Ns
  <2>2. QED BY <1>1, <1>2, <2>1, Inductive
<1>4. Cardinality(S) \in Nat
  BY FS_CardinalityType
<1>5. Small(S, Cardinality(S)) = SUBSET S
  <2>1. ASSUME NEW s \in SUBSET S PROVE Cardinality(s) <= Cardinality(S)
    BY FS_Subset
  <2>2. QED BY <2>1 DEF Small
<1>6. PICK g : Part(g, f, Small(S, Cardinality(S)))
  BY <1>3, <1>4
<1>7. QED BY <1>5, <1>6 DEF Sums

\* Two sums of f agree where both are defined.
LEMMA PartsAgree ==
    ASSUME NEW f, NEW S, IsFiniteSet(S), NEW T \in SUBSET S,
           NEW g, Sums(g, f, S), NEW h, Sums(h, f, T)
    PROVE  g[T] = h[T]
<1> DEFINE Ns == {n \in Nat : \A t \in SUBSET T : Cardinality(t) <= n => g[t] = h[t]}
<1>1. ASSUME NEW t \in SUBSET T
      PROVE  IsFiniteSet(t) /\ Cardinality(t) \in Nat
  BY <1>1, FS_Subset, FS_CardinalityType
<1>2. ASSUME NEW t \in SUBSET T
      PROVE  /\ g[t] = IF t = {} THEN 0 ELSE f[Choice(t)] + g[t \ {Choice(t)}]
             /\ h[t] = IF t = {} THEN 0 ELSE f[Choice(t)] + h[t \ {Choice(t)}]
  <2>1. t \in SUBSET S /\ t \subseteq S
    OBVIOUS
  <2>2. QED BY <2>1 DEF Part, Sums
<1>3. 0 \in Ns
  <2>1. ASSUME NEW t \in SUBSET T, Cardinality(t) <= 0 PROVE g[t] = h[t]
    <3>1. Cardinality(t) = 0
      BY <1>1, <2>1
    <3>2. t = {}
      BY <1>1, <3>1, FS_EmptySet
    <3>3. QED BY <1>2, <3>2
  <2>2. QED BY <2>1
<1>4. ASSUME NEW n \in Ns PROVE n + 1 \in Ns
  <2>1. ASSUME NEW t \in SUBSET T, Cardinality(t) <= n + 1, t # {} PROVE g[t] = h[t]
    <3> DEFINE u == t \ {Choice(t)}
    <3>1. Cardinality(u) \in Nat /\ Cardinality(t) = Cardinality(u) + 1 /\ Cardinality(t) \in Nat
      BY <1>1, <2>1, Chosen, OneLess
    <3>2. u \in SUBSET T /\ Cardinality(u) <= n
      BY <2>1, <3>1
    <3>3. g[u] = h[u]
      BY <1>4, <3>2
    <3>4. QED BY <1>2, <2>1, <3>3
  <2>2. ASSUME NEW t \in SUBSET T, t = {} PROVE g[t] = h[t]
    BY <1>2, <2>2
  <2>3. QED BY <2>1, <2>2
<1>5. Ns = Nat
  <2> HIDE DEF Ns
  <2>1. Ns \in SUBSET Nat
    BY DEF Ns
  <2>2. QED BY <1>3, <1>4, <2>1, Inductive
<1>6. Cardinality(T) \in Nat /\ T \in SUBSET T
  BY <1>1
<1>7. QED BY <1>5, <1>6

LEMMA SumOfNone == \A f : SumOf(f, {}) = 0
<1> TAKE f
<1>1. IsFiniteSet({}) /\ {} \in SUBSET {}
  BY FS_EmptySet
<1>2. PICK g : Sums(g, f, {})
  BY <1>1, PartsExist
<1> DEFINE sum == CHOOSE h : Sums(h, f, {})
<1>3. Sums(sum, f, {})
  BY <1>2
<1>4. sum[{}] = 0
  <2> HIDE DEF sum
  <2>1. QED BY <1>1, <1>3 DEF Part, Sums
<1>5. QED BY <1>4, SumIsFold

LEMMA SumChosen ==
    ASSUME NEW f, NEW S, IsFiniteSet(S), S # {}
    PROVE  SumOf(f, S) = f[Choice(S)] + SumOf(f, S \ {Choice(S)})
<1> DEFINE T == S \ {Choice(S)}
           g == CHOOSE h : Sums(h, f, S)
           u == CHOOSE h : Sums(h, f, T)
<1>1. IsFiniteSet(T) /\ T \in SUBSET S
  BY FS_Subset
<1>2. (\E h : Sums(h, f, S)) /\ (\E h : Sums(h, f, T))
  BY <1>1, PartsExist
<1>3. Sums(g, f, S) /\ Sums(u, f, T)
  BY <1>2
<1>4. SumOf(f, S) = g[S] /\ SumOf(f, T) = u[T]
  BY SumIsFold
<1> HIDE DEF g, u
<1>5. g[T] = u[T]
  <2> HIDE DEF T
  <2>1. QED BY <1>1, <1>3, PartsAgree
<1>6. S \in SUBSET S
  OBVIOUS
<1>7. g[S] = f[Choice(S)] + g[T]
  BY <1>3, <1>6 DEF Part, Sums
<1>8. QED BY <1>4, <1>5, <1>7

LEMMA SumIsNatural ==
    ASSUME NEW S, IsFiniteSet(S), NEW f, \A x \in S : f[x] \in Nat
    PROVE  SumOf(f, S) \in Nat
<1> DEFINE Ns == {n \in Nat : \A T \in SUBSET S : Cardinality(T) = n => SumOf(f, T) \in Nat}
<1>1. ASSUME NEW T \in SUBSET S
      PROVE  IsFiniteSet(T) /\ Cardinality(T) \in Nat
  BY FS_Subset, FS_CardinalityType
<1>2. 0 \in Ns
  <2>1. ASSUME NEW T \in SUBSET S, Cardinality(T) = 0 PROVE SumOf(f, T) = 0
    <3>1. T = {}
      BY <1>1, <2>1, FS_EmptySet
    <3>2. QED BY <3>1, SumOfNone
  <2>2. QED BY <2>1
<1>3. ASSUME NEW n \in Ns PROVE n + 1 \in Ns
  <2>1. ASSUME NEW T \in SUBSET S, Cardinality(T) = n + 1 PROVE SumOf(f, T) \in Nat
    <3>1. IsFiniteSet(T) /\ T # {}
      BY <1>1, <1>3, <2>1, FS_EmptySet
    <3> DEFINE c == Choice(T)
    <3>2. c \in T /\ SumOf(f, T) = f[c] + SumOf(f, T \ {c})
      BY <3>1, Chosen, SumChosen
    <3>3. Cardinality(T \ {c}) = n /\ T \ {c} \in SUBSET S
      <4>1. /\ n \in Nat /\ Cardinality(T) = n + 1
            /\ Cardinality(T \ {c}) \in Nat /\ Cardinality(T) = Cardinality(T \ {c}) + 1
        BY <1>3, <2>1, <3>1, <3>2, OneLess
      <4>2. QED BY <4>1
    <3>4. SumOf(f, T \ {c}) \in Nat /\ f[c] \in Nat
      BY <1>3, <3>2, <3>3
    <3>5. QED BY <3>2, <3>4
  <2>2. QED BY <1>3, <2>1
<1>4. Ns = Nat
  <2> HIDE DEF Ns
  <2>1. Ns \in SUBSET Nat
    BY DEF Ns
  <2>2. QED BY <1>2, <1>3, <2>1, Inductive
<1>5. QED BY <1>1, <1>4

\* Any element may be taken out.
LEMMA SumRemove ==
    ASSUME NEW S, IsFiniteSet(S), NEW f, \A x \in S : f[x] \in Nat, NEW e \in S
    PROVE  SumOf(f, S) = f[e] + SumOf(f, S \ {e})
<1> DEFINE Ns == {n \in Nat : \A T \in SUBSET S : Cardinality(T) = n =>
                                  \A x \in T : SumOf(f, T) = f[x] + SumOf(f, T \ {x})}
<1>1. ASSUME NEW T \in SUBSET S
      PROVE  IsFiniteSet(T) /\ Cardinality(T) \in Nat /\ SumOf(f, T) \in Nat
  BY FS_Subset, FS_CardinalityType, SumIsNatural
<1>2. 0 \in Ns
  <2>1. ASSUME NEW T \in SUBSET S, Cardinality(T) = 0 PROVE T = {}
    BY <1>1, <2>1, FS_EmptySet
  <2>2. QED BY <2>1
<1>3. ASSUME NEW n \in Ns PROVE n + 1 \in Ns
  <2>1. ASSUME NEW T \in SUBSET S, Cardinality(T) = n + 1, NEW x \in T
        PROVE  SumOf(f, T) = f[x] + SumOf(f, T \ {x})
    <3>1. IsFiniteSet(T) /\ T # {}
      BY <1>1
    <3> DEFINE c == Choice(T)
    <3>2. c \in T /\ SumOf(f, T) = f[c] + SumOf(f, T \ {c})
      BY <3>1, Chosen, SumChosen
    <3>3. CASE x = c
      BY <3>2, <3>3
    <3>4. CASE x # c
      <4> HIDE DEF c
      <4>1. /\ Cardinality(T \ {c}) = n /\ T \ {c} \in SUBSET S /\ x \in T \ {c}
            /\ Cardinality(T \ {x}) = n /\ T \ {x} \in SUBSET S /\ c \in T \ {x}
        <5>1. /\ n \in Nat /\ Cardinality(T) = n + 1
              /\ Cardinality(T \ {c}) \in Nat /\ Cardinality(T) = Cardinality(T \ {c}) + 1
              /\ Cardinality(T \ {x}) \in Nat /\ Cardinality(T) = Cardinality(T \ {x}) + 1
          BY <1>3, <2>1, <3>1, <3>2, OneLess
        <5>2. T \ {c} \in SUBSET S /\ x \in T \ {c} /\ T \ {x} \in SUBSET S /\ c \in T \ {x}
          BY <3>2, <3>4
        <5>3. QED BY <5>1, <5>2
      <4>2. /\ SumOf(f, T \ {c}) = f[x] + SumOf(f, (T \ {c}) \ {x})
            /\ SumOf(f, T \ {x}) = f[c] + SumOf(f, (T \ {x}) \ {c})
        BY <1>3, <4>1
      <4>3. (T \ {c}) \ {x} = (T \ {x}) \ {c} /\ (T \ {x}) \ {c} \in SUBSET S
        OBVIOUS
      <4>4. SumOf(f, (T \ {x}) \ {c}) \in Nat /\ f[x] \in Nat /\ f[c] \in Nat
        <5>1. x \in S /\ c \in S
          BY <3>2
        <5>2. SumOf(f, (T \ {x}) \ {c}) \in Nat
          BY <1>1, <4>3
        <5>3. QED BY <5>1, <5>2
      <4>5. SumOf(f, (T \ {c}) \ {x}) = SumOf(f, (T \ {x}) \ {c})
        BY <4>3
      <4>6. QED BY <3>2, <4>2, <4>4, <4>5
    <3>5. QED BY <3>3, <3>4
  <2>2. n + 1 \in Nat
    BY <1>3
  <2>3. QED BY <2>1, <2>2
<1>4. Ns = Nat
  <2> HIDE DEF Ns
  <2>1. Ns \in SUBSET Nat
    BY DEF Ns
  <2>2. QED BY <1>2, <1>3, <2>1, Inductive
<1>5. S \in SUBSET S /\ Cardinality(S) \in Nat
  BY FS_CardinalityType
<1>6. QED BY <1>4, <1>5

\* A part sums up to less, unless it is the whole.
LEMMA SumOfPart ==
    ASSUME NEW S, IsFiniteSet(S), NEW f, \A x \in S : f[x] \in Nat, NEW P \in SUBSET S
    PROVE  /\ SumOf(f, P) \in Nat /\ SumOf(f, S) \in Nat /\ SumOf(f, P) <= SumOf(f, S)
           /\ (\A x \in S : f[x] > 0) /\ P # S => SumOf(f, P) < SumOf(f, S)
<1> DEFINE Ns == {n \in Nat : \A T \in SUBSET S : Cardinality(T) = n =>
                                  \A U \in SUBSET T : SumOf(f, U) <= SumOf(f, T)}
<1>1. ASSUME NEW T \in SUBSET S
      PROVE  IsFiniteSet(T) /\ Cardinality(T) \in Nat /\ SumOf(f, T) \in Nat
  BY FS_Subset, FS_CardinalityType, SumIsNatural
<1>2. 0 \in Ns
  <2>1. ASSUME NEW T \in SUBSET S, Cardinality(T) = 0, NEW U \in SUBSET T
        PROVE  SumOf(f, U) <= SumOf(f, T)
    <3>1. T = {}
      BY <1>1, <2>1, FS_EmptySet
    <3>2. U = T
      BY <3>1
    <3>3. QED BY <1>1, <3>2
  <2>2. QED BY <2>1
<1>3. ASSUME NEW n \in Ns PROVE n + 1 \in Ns
  <2>1. ASSUME NEW T \in SUBSET S, Cardinality(T) = n + 1, NEW U \in SUBSET T
        PROVE  SumOf(f, U) <= SumOf(f, T)
    <3>1. CASE U = T
      BY <1>1, <3>1
    <3>2. CASE U # T
      <4>1. PICK x \in T : x \notin U
        BY <3>2
      <4>2. Cardinality(T \ {x}) = n /\ T \ {x} \in SUBSET S /\ U \in SUBSET (T \ {x})
        BY <1>1, <1>3, <2>1, <4>1, OneLess
      <4>3. SumOf(f, U) <= SumOf(f, T \ {x})
        BY <1>3, <4>2
      <4>4. SumOf(f, T) = f[x] + SumOf(f, T \ {x}) /\ f[x] \in Nat
        <5>1. \A y \in T : f[y] \in Nat
          OBVIOUS
        <5>2. QED BY <1>1, <5>1, SumRemove
      <4>5. SumOf(f, U) \in Nat /\ SumOf(f, T \ {x}) \in Nat
        <5>1. U \in SUBSET S
          BY <2>1
        <5>2. QED BY <1>1, <4>2, <5>1
      <4>6. QED BY <4>3, <4>4, <4>5
    <3>3. QED BY <3>1, <3>2
  <2>2. n + 1 \in Nat
    BY <1>3
  <2>3. QED BY <2>1, <2>2
<1>4. Ns = Nat
  <2> HIDE DEF Ns
  <2>1. Ns \in SUBSET Nat
    BY DEF Ns
  <2>2. QED BY <1>2, <1>3, <2>1, Inductive
<1>5. \A T \in SUBSET S : \A U \in SUBSET T : SumOf(f, U) <= SumOf(f, T)
  BY <1>1, <1>4
<1>6. SumOf(f, P) \in Nat /\ SumOf(f, S) \in Nat /\ SumOf(f, P) <= SumOf(f, S)
  BY <1>1, <1>5
<1>7. ASSUME \A x \in S : f[x] > 0, P # S PROVE SumOf(f, P) < SumOf(f, S)
  <2>1. PICK x \in S : x \notin P
    BY <1>7
  <2>2. SumOf(f, S) = f[x] + SumOf(f, S \ {x})
    BY SumRemove
  <2>3. P \in SUBSET (S \ {x}) /\ S \ {x} \in SUBSET S
    BY <2>1
  <2>4. SumOf(f, P) <= SumOf(f, S \ {x}) /\ SumOf(f, S \ {x}) \in Nat
    BY <1>1, <1>5, <2>3
  <2>5. f[x] \in Nat /\ f[x] > 0
    BY <1>7
  <2>6. QED BY <1>6, <2>2, <2>4, <2>5
<1>8. QED BY <1>6, <1>7

\* What is at most ten times, or twelve times in A, f.
LEMMA SumBound ==
    ASSUME NEW S, IsFiniteSet(S), NEW f, NEW h, NEW A,
           \A x \in S : f[x] \in Nat /\ h[x] \in Nat,
           \A x \in S : h[x] <= 10 * f[x] + (IF x \in A THEN 2 * f[x] ELSE 0)
    PROVE  SumOf(h, S) <= 10 * SumOf(f, S) + 2 * SumOf(f, S \cap A)
<1> DEFINE Ns == {n \in Nat : \A T \in SUBSET S : Cardinality(T) = n =>
                                  SumOf(h, T) <= 10 * SumOf(f, T) + 2 * SumOf(f, T \cap A)}
<1>1. ASSUME NEW T \in SUBSET S
      PROVE  /\ IsFiniteSet(T) /\ Cardinality(T) \in Nat
             /\ SumOf(f, T) \in Nat /\ SumOf(h, T) \in Nat
  BY FS_Subset, FS_CardinalityType, SumIsNatural
<1>2. 0 \in Ns
  <2>1. ASSUME NEW T \in SUBSET S, Cardinality(T) = 0
        PROVE  SumOf(h, T) <= 10 * SumOf(f, T) + 2 * SumOf(f, T \cap A)
    <3>1. T = {} /\ T \cap A = {}
      BY <1>1, <2>1, FS_EmptySet
    <3>2. SumOf(h, T) = 0 /\ SumOf(f, T) = 0 /\ SumOf(f, T \cap A) = 0
      BY <3>1, SumOfNone
    <3>3. QED BY <3>2
  <2>2. QED BY <2>1
<1>3. ASSUME NEW n \in Ns PROVE n + 1 \in Ns
  <2>1. ASSUME NEW T \in SUBSET S, Cardinality(T) = n + 1
        PROVE  SumOf(h, T) <= 10 * SumOf(f, T) + 2 * SumOf(f, T \cap A)
    <3>1. T # {}
      BY <1>3, <2>1, FS_EmptySet
    <3>2. PICK x \in T : TRUE
      BY <3>1
    <3> DEFINE U == T \ {x}
    <3>3. U \in SUBSET S /\ Cardinality(U) = n
      BY <1>1, <1>3, <2>1, OneLess
    <3>4. SumOf(h, U) <= 10 * SumOf(f, U) + 2 * SumOf(f, U \cap A)
      BY <1>3, <3>3
    <3>5. SumOf(h, T) = h[x] + SumOf(h, U) /\ SumOf(f, T) = f[x] + SumOf(f, U)
      <4>1. IsFiniteSet(T) /\ (\A y \in T : f[y] \in Nat) /\ (\A y \in T : h[y] \in Nat)
        BY <1>1
      <4>2. QED BY <4>1, SumRemove
    <3>6. SumOf(f, T \cap A) = SumOf(f, U \cap A) + (IF x \in A THEN f[x] ELSE 0)
      <4>1. CASE x \in A
        <5>1. /\ T \cap A \in SUBSET S /\ x \in T \cap A
              /\ (T \cap A) \ {x} = U \cap A /\ U \cap A \in SUBSET S
          BY <4>1
        <5>2. IsFiniteSet(T \cap A) /\ \A y \in T \cap A : f[y] \in Nat
          BY <1>1, <5>1
        <5>3. SumOf(f, T \cap A) = f[x] + SumOf(f, (T \cap A) \ {x})
          BY <5>1, <5>2, SumRemove
        <5>4. f[x] \in Nat /\ SumOf(f, U \cap A) \in Nat
          BY <1>1, <5>1
        <5>5. SumOf(f, (T \cap A) \ {x}) = SumOf(f, U \cap A)
          BY <5>1
        <5> HIDE DEF U
        <5>6. QED BY <4>1, <5>3, <5>4, <5>5
      <4>2. CASE x \notin A
        <5>1. T \cap A = U \cap A /\ U \cap A \in SUBSET S
          BY <4>2
        <5>2. SumOf(f, U \cap A) \in Nat
          BY <1>1, <5>1
        <5>3. QED BY <4>2, <5>1, <5>2
      <4>3. QED BY <4>1, <4>2
    <3>7. /\ f[x] \in Nat /\ h[x] \in Nat
          /\ h[x] <= 10 * f[x] + (IF x \in A THEN 2 * f[x] ELSE 0)
      OBVIOUS
    <3>8. SumOf(h, U) \in Nat /\ SumOf(f, U) \in Nat /\ SumOf(f, U \cap A) \in Nat
      <4>1. U \cap A \in SUBSET S
        OBVIOUS
      <4>2. QED BY <1>1, <3>3, <4>1
    <3> HIDE DEF U
    <3>9. QED BY <3>4, <3>5, <3>6, <3>7, <3>8
  <2>2. n + 1 \in Nat
    BY <1>3
  <2>3. QED BY <2>1, <2>2
<1>4. Ns = Nat
  <2> HIDE DEF Ns
  <2>1. Ns \in SUBSET Nat
    BY DEF Ns
  <2>2. QED BY <1>2, <1>3, <2>1, Inductive
<1>5. S \in SUBSET S /\ Cardinality(S) \in Nat
  BY FS_CardinalityType
<1>6. QED BY <1>4, <1>5

-----------------------------------------------------------------------------
(* The evidence of an evaluation *)

RunType ==
    [status : {"complete", "awaiting_human", "blocked"}, action : {"execute", "propose_only"}]

FiniteBag(b) == IsABag(b) /\ IsFiniteSet(DOMAIN b)

RunsOK(b) == FiniteBag(b) /\ DOMAIN b \subseteq RunType

\* What a case of a suite may give, if it does not raise.
Answer(s, o) ==
    /\ s = "function_calls" => o \in [tool : {"expected", "other", "invented"}, exact : BOOLEAN]
    /\ s = "consistency" => o = [runs |-> o.runs] /\ RunsOK(o.runs) /\ Total(o.runs) = NRuns
    /\ s = "domain_risk" => o \in Coverages
    /\ s \in {"domain_treasury", "domain_compliance", "domain_customer_ops"} => o \in Levels

ResultsOK(s, b) == FiniteBag(b) /\ \A o \in DOMAIN b \ {Raised} : Answer(s, o)

\* Results are those of the suite that is running, and a suite is only ok with
\* as many as it has cases.
EvalInv ==
    /\ suites \in Seq(STRING)
    /\ RunsOK(runs)
    /\ \A s : Running(s) => ResultsOK(s, results)
    /\ \A s \in Reported : summaries[s].status = "ok" =>
           ResultsOK(s, summaries[s].results) /\ Total(summaries[s].results) = Size[s]

LEMMA BagAdd ==
    ASSUME NEW b, FiniteBag(b), NEW o
    PROVE  FiniteBag(b (+) SetToBag({o})) /\ DOMAIN (b (+) SetToBag({o})) = DOMAIN b \cup {o}
<1> DEFINE c == b (+) SetToBag({o})
<1>1. DOMAIN c = DOMAIN b \cup {o}
  BY DEF (+), SetToBag
<1>2. ASSUME NEW e \in DOMAIN c PROVE c[e] \in {n \in Nat : n > 0}
  <2>1. c[e] = (IF e \in DOMAIN b THEN b[e] ELSE 0) + (IF e = o THEN 1 ELSE 0)
    BY <1>2 DEF (+), SetToBag
  <2>2. e \in DOMAIN b => b[e] \in Nat /\ b[e] > 0
    BY DEF FiniteBag, IsABag
  <2>3. e \in DOMAIN b \/ e = o
    BY <1>1
  <2> HIDE DEF c
  <2>4. QED BY <2>1, <2>2, <2>3
<1>3. c = [e \in DOMAIN c |-> c[e]]
  BY DEF (+)
<1>4. IsFiniteSet(DOMAIN c)
  BY <1>1, FS_AddElement DEF FiniteBag
<1>5. IsABag(c)
  <2> HIDE DEF c
  <2>1. QED BY <1>2, <1>3 DEF IsABag
<1>6. QED BY <1>1, <1>4, <1>5 DEF FiniteBag

LEMMA EmptyIsFine == RunsOK(EmptyBag) /\ \A s : ResultsOK(s, EmptyBag)
<1>1. DOMAIN EmptyBag = {}
  BY DEF EmptyBag, SetToBag
<1>2. FiniteBag(EmptyBag)
  BY <1>1, FS_EmptySet DEF FiniteBag, IsABag, EmptyBag, SetToBag
<1>3. QED BY <1>1, <1>2 DEF RunsOK, ResultsOK

\* One suite at a time.
LEMMA OneRunning ==
    ASSUME suites \in Seq(STRING), NEW s, NEW t, Running(s), Running(t)
    PROVE  s = t
<1>1. PICK k \in DOMAIN suites :
          suites[k] = s /\ s \notin Reported /\ \A l \in 1..(k - 1) : suites[l] \in Reported
  BY DEF Running
<1>2. PICK m \in DOMAIN suites :
          suites[m] = t /\ t \notin Reported /\ \A l \in 1..(m - 1) : suites[l] \in Reported
  BY DEF Running
<1>3. DOMAIN suites = 1..Len(suites) /\ Len(suites) \in Nat
  OBVIOUS
<1>4. k \in Nat \ {0} /\ m \in Nat \ {0}
  BY <1>3
<1>5. ~(k < m)
  <2>1. k < m => k \in 1..(m - 1)
    BY <1>4
  <2>2. QED BY <1>1, <1>2, <2>1
<1>6. ~(m < k)
  <2>1. m < k => m \in 1..(k - 1)
    BY <1>4
  <2>2. QED BY <1>1, <1>2, <2>1
<1>7. k = m
  BY <1>4, <1>5, <1>6
<1>8. QED BY <1>1, <1>2, <1>7

LEMMA EvalInit == Init => EvalInv
<1> SUFFICES ASSUME Init PROVE EvalInv
  OBVIOUS
<1>1. suites \in Seq(STRING)
  <2>1. suites = <<>> \/ suites \in Requests
    BY DEF Init
  <2>2. <<>> \in Seq(STRING)
    OBVIOUS
  <2>3. QED BY <2>1, <2>2, EvaluationAssumption
<1>2. results = EmptyBag /\ runs = EmptyBag /\ Reported = {}
  BY DEF Init, Reported
<1>3. QED BY <1>1, <1>2, EmptyIsFine DEF EvalInv

\* A case of the running suite that gave o.
LEMMA ResultStep ==
    ASSUME EvalInv, NEW s, Running(s), NEW o, o = Raised \/ Answer(s, o), Result(o),
           UNCHANGED <<suites, summaries>>
    PROVE  EvalInv'
<1>1. /\ results' = results (+) SetToBag({o}) /\ runs' = EmptyBag
      /\ suites' = suites /\ summaries' = summaries
  BY DEF Result
<1>2. ASSUME NEW t, Running(t)' PROVE ResultsOK(t, results')
  <2>1. Running(t)
    BY <1>1, <1>2 DEF Running, Reported
  <2>2. t = s
    BY <2>1, OneRunning DEF EvalInv
  <2>3. ResultsOK(s, results)
    BY DEF EvalInv
  <2>4. FiniteBag(results') /\ DOMAIN results' = DOMAIN results \cup {o}
    BY <1>1, <2>3, BagAdd DEF ResultsOK
  <2>5. QED BY <2>2, <2>3, <2>4 DEF ResultsOK
<1>3. RunsOK(runs')
  BY <1>1, EmptyIsFine
<1>4. suites' \in Seq(STRING)
  BY <1>1 DEF EvalInv
<1>5. \A t \in DOMAIN summaries : summaries[t].status = "ok" =>
          ResultsOK(t, summaries[t].results) /\ Total(summaries[t].results) = Size[t]
  BY DEF EvalInv, Reported
<1>6. QED BY <1>1, <1>2, <1>3, <1>4, <1>5 DEF EvalInv, Reported, RunsOK, ResultsOK, Answer,
             FiniteBag, IsABag, Total, SumFunction, Coverages, Levels

\* A suite that is reported on.
LEMMA SummaryStep ==
    ASSUME EvalInv, NEW s, NEW summary, Summarised(s, summary),
           summary.status = "ok" =>
               ResultsOK(s, summary.results) /\ Total(summary.results) = Size[s]
    PROVE  EvalInv'
<1>1. /\ results' = EmptyBag /\ runs' = runs /\ suites' = suites
      /\ summaries' = [t \in Reported \union {s} |-> IF t = s THEN summary ELSE summaries[t]]
  BY DEF Summarised
<1>2. \A t : ResultsOK(t, results')
  BY <1>1, EmptyIsFine
<1>3. RunsOK(runs')
  BY <1>1 DEF EvalInv
<1>4. suites' \in Seq(STRING)
  BY <1>1 DEF EvalInv
<1>5. ASSUME NEW t \in DOMAIN summaries', summaries'[t].status = "ok"
      PROVE  ResultsOK(t, summaries'[t].results) /\ Total(summaries'[t].results) = Size[t]
  <2>1. t \in Reported \union {s} /\ summaries'[t] = IF t = s THEN summary ELSE summaries[t]
    BY <1>1
  <2>2. CASE t = s
    BY <1>5, <2>1, <2>2
  <2>3. CASE t # s
    BY <1>5, <2>1, <2>3 DEF EvalInv
  <2>4. QED BY <2>2, <2>3
<1>6. QED BY <1>2, <1>3, <1>4, <1>5 DEF EvalInv, Reported, RunsOK, ResultsOK, Answer,
             FiniteBag, IsABag, Total, SumFunction, Coverages, Levels

LEMMA EvalUnchanged ==
    ASSUME EvalInv, UNCHANGED evalVars
    PROVE  EvalInv'
<1>1. suites' = suites /\ results' = results /\ runs' = runs /\ summaries' = summaries
  BY DEF evalVars
<1>2. \A s : Running(s)' => Running(s)
  BY <1>1 DEF Running, Reported
<1>3. QED BY <1>1, <1>2 DEF EvalInv, Reported, RunsOK, ResultsOK, Answer,
             FiniteBag, IsABag, Total, SumFunction, Coverages, Levels

LEMMA OutcomeAnswers ==
    ASSUME NEW s, s # "consistency", NEW o \in Outcomes(s)
    PROVE  Answer(s, o)
<1>1. CASE s = "function_calls"
  <2>1. o \in Predictions
    BY <1>1 DEF Outcomes
  <2>2. o \in [tool : {"expected", "other", "invented"}, exact : BOOLEAN]
    BY <2>1 DEF Predictions
  <2>3. QED BY <1>1, <2>2 DEF Answer
<1>2. CASE s = "domain_risk"
  BY <1>2 DEF Outcomes, Answer
<1>3. CASE s \in {"domain_treasury", "domain_compliance", "domain_customer_ops"}
  BY <1>3 DEF Outcomes, Answer
<1>4. QED BY <1>1, <1>2, <1>3 DEF Answer

LEMMA EvalStep ==
    ASSUME TypeOK, EvalInv, [Next]_evaluationVars
    PROVE  EvalInv'
<1>1. ASSUME NEW s, Skip(s) PROVE EvalInv'
  <2>1. Summarised(s, [status |-> "skipped"])
    BY <1>1 DEF Skip
  <2>2. [status |-> "skipped"].status # "ok"
    OBVIOUS
  <2>3. QED
    <3> DEFINE summary == [status |-> "skipped"]
    <3>1. Summarised(s, summary) /\ summary.status # "ok"
      BY <2>1, <2>2
    <3> HIDE DEF summary
    <3>2. QED BY <3>1, SummaryStep
<1>2. ASSUME NEW s, Break(s) PROVE EvalInv'
  <2> DEFINE summary == [status |-> "error"]
  <2>1. Summarised(s, summary) /\ summary.status # "ok"
    BY <1>2 DEF Break
  <2> HIDE DEF summary
  <2>2. QED BY <2>1, SummaryStep
<1>3. ASSUME NEW s, summarise(s) PROVE EvalInv'
  <2> DEFINE summary == [status |-> "ok", results |-> results]
  <2>1. Running(s) /\ Total(results) = Size[s] /\ Summarised(s, summary)
    BY <1>3 DEF summarise
  <2>2. summary.results = results
    OBVIOUS
  <2>3. ResultsOK(s, results)
    BY <2>1 DEF EvalInv
  <2>4. ResultsOK(s, summary.results) /\ Total(summary.results) = Size[s]
    BY <2>1, <2>2, <2>3
  <2> HIDE DEF summary
  <2>5. QED BY <2>1, <2>4, SummaryStep
<1>4. ASSUME NEW s, evaluate_case(s) PROVE EvalInv'
  <2>1. PICK o \in Outcomes(s) : Result(o)
    BY <1>4 DEF evaluate_case
  <2>2. Running(s) /\ s # "consistency" /\ UNCHANGED <<suites, summaries>>
    BY <1>4 DEF evaluate_case, CaseIsDue
  <2>3. QED BY <2>1, <2>2, OutcomeAnswers, ResultStep
<1>5. ASSUME NEW s, Raise(s) PROVE EvalInv'
  <2>1. Running(s) /\ Result(Raised) /\ UNCHANGED <<suites, summaries>>
    BY <1>5 DEF Raise, CaseIsDue
  <2> DEFINE o == Raised
  <2>2. Result(o) /\ o = Raised
    BY <2>1
  <2> HIDE DEF o
  <2>3. QED BY <2>1, <2>2, ResultStep
<1>6. CASE Call
  BY <1>6, EvalUnchanged DEF Call
<1>7. CASE Return
  <2> DEFINE run == [status |-> status,
                     action |-> IF aggregate.execute THEN "execute" ELSE "propose_only"]
  <2>1. /\ runs' = runs (+) SetToBag({run}) /\ suites' = suites
        /\ results' = results /\ summaries' = summaries
    BY <1>7 DEF Return
  <2>2. run \in RunType
    BY <1>7 DEF Return, Closed, TypeOK, RunType
  <2> HIDE DEF run
  <2>3. FiniteBag(runs) /\ DOMAIN runs \subseteq RunType
    BY DEF EvalInv, RunsOK
  <2>4. FiniteBag(runs') /\ DOMAIN runs' = DOMAIN runs \cup {run}
    BY <2>1, <2>3, BagAdd
  <2>5. \A s : Running(s)' => Running(s)
    BY <2>1 DEF Running, Reported
  <2>6. RunsOK(runs')
    BY <2>2, <2>3, <2>4 DEF RunsOK
  <2>7. /\ suites' \in Seq(STRING)
        /\ \A s : Running(s)' => ResultsOK(s, results')
        /\ \A s \in DOMAIN summaries' : summaries'[s].status = "ok" =>
               ResultsOK(s, summaries'[s].results) /\ Total(summaries'[s].results) = Size[s]
    BY <2>1, <2>5 DEF EvalInv, Reported
  <2>8. QED BY <2>6, <2>7 DEF EvalInv, Reported, RunsOK, ResultsOK, Answer,
               FiniteBag, IsABag, Total, SumFunction, Coverages, Levels
<1>8. CASE Agree
  <2> DEFINE o == [runs |-> runs]
  <2>1. /\ Running("consistency") /\ Total(runs) = NRuns /\ Result(o)
        /\ UNCHANGED <<suites, summaries>>
    BY <1>8 DEF Agree, CaseIsDue
  <2>2. o.runs = runs /\ o = [runs |-> o.runs]
    OBVIOUS
  <2>3. RunsOK(runs)
    BY DEF EvalInv
  <2> HIDE DEF o
  <2>4. Answer("consistency", o)
    BY <2>1, <2>2, <2>3 DEF Answer
  <2>5. QED BY <2>1, <2>4, ResultStep
<1>9. CASE UNCHANGED evalVars
  BY <1>9, EvalUnchanged
<1>10. CASE UNCHANGED evaluationVars
  BY <1>9, <1>10 DEF evaluationVars
<1>11. QED
  BY <1>1, <1>2, <1>3, <1>4, <1>5, <1>6, <1>7, <1>8, <1>9, <1>10
      DEF Next, EvalProceed

LEMMA EvalInvariance == Spec => []EvalInv
<1>1. TypeOK /\ EvalInv /\ [Next]_evaluationVars => EvalInv'
  BY EvalStep
<1>2. QED BY <1>1, EvalInit, TypeCorrect, PTL DEF Spec

-----------------------------------------------------------------------------
(* What the gates measure *)

LEMMA LeastOf ==
    ASSUME NEW S \in SUBSET Nat, S # {}
    PROVE  Min(S) \in S /\ \A y \in S : Min(S) <= y
<1>1. \E x \in S : \A y \in S : x <= y
  BY LeastExists
<1>2. QED BY <1>1 DEF Min

LEMMA GreatestOf ==
    ASSUME NEW n \in Nat, NEW S \in SUBSET (0..n), S # {}
    PROVE  Max(S) \in S /\ \A y \in S : y <= Max(S)
<1> DEFINE gaps == {g \in 0..n : n - g \in S}
<1>1. PICK x \in S : TRUE
  OBVIOUS
<1>2. n - x \in 0..n /\ n - (n - x) = x
  BY <1>1
<1>3. gaps \in SUBSET Nat /\ gaps # {}
  <2>1. n - x \in gaps
    BY <1>1, <1>2
  <2>2. \A y \in 0..n : y \in Nat
    OBVIOUS
  <2>3. QED BY <2>1, <2>2
<1>4. PICK g \in gaps : \A m \in gaps : g <= m
  <2> HIDE DEF gaps
  <2>1. QED BY <1>3, LeastExists
<1>5. n - g \in S /\ g \in 0..n
  BY <1>4
<1>6. ASSUME NEW y \in S PROVE n - g >= y
  <2>1. y \in 0..n /\ n - y \in 0..n /\ n - (n - y) = y
    OBVIOUS
  <2>2. n - y \in gaps
    BY <2>1
  <2>3. g <= n - y
    BY <1>4, <2>2
  <2>4. QED BY <1>5, <2>1, <2>3
<1>7. \E z \in S : \A y \in S : z >= y
  BY <1>5, <1>6
<1>8. Max(S) \in S /\ \A y \in S : Max(S) >= y
  <2> HIDE DEF gaps
  <2>1. QED BY <1>7 DEF Max
<1>9. QED BY <1>8

\* No more copies than there are in all, and as many only of everything.
LEMMA CountOfSome ==
    ASSUME NEW b, FiniteBag(b), NEW S
    PROVE  /\ Count(b, S) \in Nat /\ Total(b) \in Nat /\ Count(b, S) <= Total(b)
           /\ Count(b, S) = Total(b) => DOMAIN b \subseteq S
<1> DEFINE D == DOMAIN b
           P == DOMAIN b \cap S
<1>1. Count(b, S) = SumOf(b, P) /\ Total(b) = SumOf(b, D)
  BY DEF Count, Total, SumFunction, SumOf
<1>2. IsFiniteSet(D) /\ (\A x \in D : b[x] \in Nat) /\ (\A x \in D : b[x] > 0)
  BY DEF FiniteBag, IsABag
<1>3. P \in SUBSET D
  OBVIOUS
<1>4. P = D => DOMAIN b \subseteq S
  OBVIOUS
<1> HIDE DEF D, P
<1>5. /\ SumOf(b, P) \in Nat /\ SumOf(b, D) \in Nat /\ SumOf(b, P) <= SumOf(b, D)
      /\ P # D => SumOf(b, P) < SumOf(b, D)
  BY <1>2, <1>3, SumOfPart
<1>6. QED BY <1>1, <1>4, <1>5

\* The modal share is the share of some value.
LEMMA ModalIsShare ==
    ASSUME NEW b, FiniteBag(b), NEW values, values # {}
    PROVE  \E v \in values : Modal(values, b) = Count(b, {p \in DOMAIN b : v \in {p.status, p.action}})
<1> DEFINE Held(v) == Count(b, {p \in DOMAIN b : v \in {p.status, p.action}})
           S == {Held(v) : v \in values}
<1>1. Modal(values, b) = Max(S)
  BY DEF Modal
<1>2. ASSUME NEW v PROVE Held(v) \in 0..Total(b) /\ Total(b) \in Nat
  <2>1. \A R : Count(b, R) \in Nat /\ Total(b) \in Nat /\ Count(b, R) <= Total(b)
    BY CountOfSome
  <2>2. QED BY <2>1
<1>3. S \in SUBSET (0..Total(b)) /\ S # {} /\ Total(b) \in Nat
  <2> HIDE DEF Held
  <2>1. QED BY <1>2
<1>4. Max(S) \in S
  <2> HIDE DEF S
  <2>1. QED BY <1>3, GreatestOf
<1>5. QED BY <1>1, <1>4

\* consistency.py, the defaults: three objectives, each run three times.
CodeSizes == NRuns = 3 /\ Size["consistency"] = 3

Statuses == {"complete", "awaiting_human", "blocked"}

Actions == {"execute", "propose_only"}

\* Runs that do not agree score five sixths at most.
LEMMA OddRunsScoreLess ==
    ASSUME CodeSizes, NEW o, RunsOK(o.runs), Total(o.runs) = NRuns
    PROVE  /\ AgreementScore(o) \in 0..12
           /\ Cardinality(DOMAIN o.runs) # 1 => AgreementScore(o) <= 10
<1> DEFINE b == o.runs
           s == Modal(Statuses, b)
           a == Modal(Actions, b)
<1>1. NRuns = 3 /\ Total(b) = 3 /\ FiniteBag(b) /\ DOMAIN b \subseteq RunType
  BY DEF CodeSizes, RunsOK
<1>2. AgreementScore(o) = (6 * (s + a)) \div 3
  BY <1>1 DEF AgreementScore, Statuses, Actions
<1>3. Statuses # {} /\ Actions # {}
  BY DEF Statuses, Actions
<1>4. PICK v \in Statuses : s = Count(b, {p \in DOMAIN b : v \in {p.status, p.action}})
  BY <1>1, <1>3, ModalIsShare
<1>5. PICK w \in Actions : a = Count(b, {p \in DOMAIN b : w \in {p.status, p.action}})
  BY <1>1, <1>3, ModalIsShare
<1> DEFINE V == {p \in DOMAIN b : v \in {p.status, p.action}}
           W == {p \in DOMAIN b : w \in {p.status, p.action}}
<1>6. /\ s \in Nat /\ s <= 3 /\ (s = 3 => DOMAIN b \subseteq V)
      /\ a \in Nat /\ a <= 3 /\ (a = 3 => DOMAIN b \subseteq W)
  <2> HIDE DEF b, s, a
  <2>1. s = Count(b, V) /\ a = Count(b, W)
    BY <1>4, <1>5
  <2> HIDE DEF V, W
  <2>2. QED BY <1>1, <2>1, CountOfSome
<1>7. ASSUME s = 3, a = 3 PROVE Cardinality(DOMAIN b) = 1
  <2>1. ASSUME NEW p \in DOMAIN b PROVE p = [status |-> v, action |-> w]
    <3>1. p \in RunType /\ v \in {p.status, p.action} /\ w \in {p.status, p.action}
      BY <1>1, <1>6, <1>7
    <3>2. p.status \in Statuses /\ p.action \in Actions /\ p = [status |-> p.status, action |-> p.action]
      BY <3>1 DEF RunType, Statuses, Actions
    <3>3. p.status = v /\ p.action = w
      BY <3>1, <3>2 DEF Statuses, Actions
    <3>4. QED BY <3>2, <3>3
  <2>2. DOMAIN b # {}
    <3>1. ASSUME DOMAIN b = {} PROVE FALSE
      <4>1. Total(b) = SumOf(b, DOMAIN b)
        BY DEF Total, SumFunction, SumOf
      <4>2. QED BY <1>1, <3>1, <4>1, SumOfNone
    <3>2. QED BY <3>1
  <2> DEFINE r == [status |-> v, action |-> w]
  <2>3. DOMAIN b = {r}
    BY <2>1, <2>2
  <2> HIDE DEF r
  <2>4. QED BY <2>3, FS_Singleton
<1> HIDE DEF b, s, a, V, W
<1>8. (6 * (s + a)) \div 3 \in 0..12 /\ (s + a < 6 => (6 * (s + a)) \div 3 <= 10)
  <2>1. s + a \in 0..6
    BY <1>6
  <2> DEFINE n == s + a
  <2>2. n \in {0, 1, 2, 3, 4, 5, 6}
    BY <2>1
  <2> HIDE DEF n
  <2>3. (6 * n) \div 3 \in 0..12 /\ (n < 6 => (6 * n) \div 3 <= 10)
    BY <2>2
  <2>4. QED BY <2>3 DEF n
<1>9. s + a < 6 \/ (s = 3 /\ a = 3)
  BY <1>6
<1>10. QED BY <1>2, <1>7, <1>8, <1>9 DEF b

\* What an evaluation has of a suite that a passed gate reads.
LEMMA PassedIsOk ==
    ASSUME EvalInv, NEW s, NEW metric, NEW blocks, Passed(Gate(s, metric, blocks))
    PROVE  /\ Clears(metric, summaries[s].results)
           /\ ResultsOK(s, summaries[s].results) /\ Total(summaries[s].results) = Size[s]
  BY DEF Passed, Gate, EvalInv

LEMMA GatesOf ==
    ASSUME NEW b \in Unlocked
    PROVE  /\ b \in {"write-enabled tools", "agent autonomy", "risk simulator",
                     "treasury recommendations", "automated alert triage", "staffing proposals"}
           /\ b = "write-enabled tools" => Passed(Gate("function_calls", "pass_rate", b))
           /\ b = "agent autonomy" => Passed(Gate("consistency", "mean_score", b))
           /\ b = "risk simulator" => Passed(Gate("domain_risk", "es_present_rate", b))
           /\ b = "treasury recommendations" => Passed(Gate("domain_treasury", "min_survival_days", b))
           /\ b = "automated alert triage" => Passed(Gate("domain_compliance", "recall", b))
           /\ b = "staffing proposals" => Passed(Gate("domain_customer_ops", "sla_breach_rate", b))
<1>1. \A g \in builtin_gates : g.blocks = b => Passed(g)
  BY DEF Unlocked
<1>2. b \in {"write-enabled tools", "agent autonomy", "risk simulator",
             "treasury recommendations", "automated alert triage", "staffing proposals"}
  <2>1. ASSUME NEW g \in builtin_gates
        PROVE  g.blocks \in {"write-enabled tools", "agent autonomy", "risk simulator",
                    "treasury recommendations", "automated alert triage", "staffing proposals"}
    <3>1. PICK s, m, c :
              /\ g = Gate(s, m, c)
              /\ c \in {"write-enabled tools", "agent autonomy", "risk simulator",
                    "treasury recommendations", "automated alert triage", "staffing proposals"}
      BY Zenon DEF builtin_gates
    <3>2. g.blocks = c
      BY <3>1 DEF Gate
    <3>3. QED BY <3>1, <3>2
  <2>2. PICK g \in builtin_gates : g.blocks = b
    BY DEF Unlocked
  <2>3. QED BY <2>1, <2>2
<1>3. \A s, m : Gate(s, m, b).blocks = b
  BY DEF Gate
<1>4. /\ b = "write-enabled tools" => Gate("function_calls", "pass_rate", b) \in builtin_gates
      /\ b = "agent autonomy" => Gate("consistency", "mean_score", b) \in builtin_gates
      /\ b = "risk simulator" => Gate("domain_risk", "es_present_rate", b) \in builtin_gates
      /\ b = "treasury recommendations" =>
             Gate("domain_treasury", "min_survival_days", b) \in builtin_gates
      /\ b = "automated alert triage" => Gate("domain_compliance", "recall", b) \in builtin_gates
      /\ b = "staffing proposals" =>
             Gate("domain_customer_ops", "sla_breach_rate", b) \in builtin_gates
  BY DEF builtin_gates
<1>5. QED BY <1>1, <1>2, <1>3, <1>4

LEMMA ToolsOnEvidence ==
    ASSUME NEW r, ResultsOK("function_calls", r), Clears("pass_rate", r), NEW size, Total(r) = size
    PROVE  100 * Count(r, {o \in DOMAIN r \ {Raised} : o = [tool |-> "expected", exact |-> TRUE]})
               >= 95 * size
<1> DEFINE A == {o \in DOMAIN r : Scored("function_calls", o) = Full}
           B == {o \in DOMAIN r \ {Raised} : o = [tool |-> "expected", exact |-> TRUE]}
<1>1. 100 * Count(r, A) >= 95 * size
  BY DEF Clears, AtLeast
<1>2. ASSUME NEW o \in A PROVE o \in B
  <2>1. o \in DOMAIN r /\ Scored("function_calls", o) = 12
    BY DEF Full
  <2>2. o # Raised
    BY <2>1 DEF Scored
  <2>3. PredictionScore(o) = 12
    BY <2>1, <2>2 DEF Scored
  <2>4. o \in [tool : {"expected", "other", "invented"}, exact : BOOLEAN]
    BY <2>1, <2>2 DEF ResultsOK, Answer
  <2>5. o.tool = "expected" /\ o.exact = TRUE
    BY <2>3, <2>4 DEF PredictionScore, Full
  <2>6. QED BY <2>1, <2>2, <2>4, <2>5
<1>3. ASSUME NEW o \in B PROVE o \in A
  <2>1. o \in DOMAIN r /\ o # Raised /\ o.tool = "expected" /\ o.exact = TRUE
    BY <1>3
  <2>2. PredictionScore(o) = Full
    BY <2>1 DEF PredictionScore
  <2>3. Scored("function_calls", o) = Full
    BY <2>1, <2>2 DEF Scored
  <2>4. QED BY <2>1, <2>3
<1>4. A = B
  <2> HIDE DEF A, B
  <2>1. QED BY <1>2, <1>3
<1>5. QED BY <1>1, <1>4

LEMMA RiskOnEvidence ==
    ASSUME NEW r, ResultsOK("domain_risk", r), Clears("es_present_rate", r), NEW size, Total(r) = size
    PROVE  100 * Count(r, {o \in DOMAIN r \ {Raised} : o = [covered |-> TRUE, es |-> TRUE]})
               >= 100 * size
<1> DEFINE A == {o \in DOMAIN r \ {Raised} : o.covered /\ o.es}
           B == {o \in DOMAIN r \ {Raised} : o = [covered |-> TRUE, es |-> TRUE]}
<1>1. 100 * Count(r, A) >= 100 * size
  BY DEF Clears, AtLeast
<1>2. \A o \in DOMAIN r \ {Raised} : o \in [covered : BOOLEAN, es : BOOLEAN]
  BY DEF ResultsOK, Answer, Coverages
<1>3. A = B
  BY <1>2
<1>4. QED BY <1>1, <1>3

LEMMA MeasuredLevels ==
    ASSUME NEW s \in {"domain_treasury", "domain_compliance", "domain_customer_ops"},
           NEW r, ResultsOK(s, r)
    PROVE  Measured(r) \in SUBSET (0..2)
<1>1. ASSUME NEW o \in DOMAIN r \ {Raised}, o.metric PROVE o.level \in 0..2
  <2>1. o \in Levels
    BY DEF ResultsOK, Answer
  <2>2. o \in [metric : {TRUE}, level : 0..2] \/ o = [metric |-> FALSE]
    BY <2>1 DEF Levels
  <2>3. o # [metric |-> FALSE]
    <3>1. [metric |-> FALSE].metric = FALSE
      OBVIOUS
    <3>2. QED BY <1>1, <3>1
  <2>4. QED BY <2>2, <2>3
<1>2. QED BY <1>1 DEF Measured

LEMMA LeastOnEvidence ==
    ASSUME NEW s \in {"domain_treasury", "domain_compliance"}, NEW r, ResultsOK(s, r), Least(r) >= 1
    PROVE  Measured(r) # {} /\ Measured(r) \subseteq {1, 2}
<1>1. Measured(r) \in SUBSET (0..2)
  BY MeasuredLevels
<1>2. Measured(r) # {} /\ Min(Measured(r)) >= 1
  BY DEF Least
<1>3. \A y \in Measured(r) : Min(Measured(r)) \in 0..2 /\ Min(Measured(r)) <= y
  <2>1. Measured(r) \in SUBSET Nat
    BY <1>1
  <2>2. QED BY <1>1, <1>2, <2>1, LeastOf
<1>4. QED BY <1>1, <1>2, <1>3

LEMMA GreatestOnEvidence ==
    ASSUME NEW r, ResultsOK("domain_customer_ops", r), Greatest(r) <= 1
    PROVE  Measured(r) # {} /\ Measured(r) \subseteq {0, 1}
<1>1. Measured(r) \in SUBSET (0..2)
  BY MeasuredLevels
<1>2. Measured(r) # {} /\ Max(Measured(r)) <= 1
  BY DEF Greatest
<1>3. \A y \in Measured(r) : Max(Measured(r)) \in 0..2 /\ y <= Max(Measured(r))
  BY <1>1, <1>2, GreatestOf
<1>4. QED BY <1>1, <1>2, <1>3

\* Three objectives whose mean score is 0.9 do not all disagree but for one.
LEMMA AutonomyOnEvidence ==
    ASSUME CodeSizes, NEW r, ResultsOK("consistency", r), Clears("mean_score", r), Total(r) = 3
    PROVE  100 * Count(r, {o \in DOMAIN r \ {Raised} : Cardinality(DOMAIN o.runs) = 1}) >= 180
<1> DEFINE A == {o \in DOMAIN r \ {Raised} : Cardinality(DOMAIN o.runs) = 1}
           D == DOMAIN r
           h == [o \in D |-> r[o] * Scored("consistency", o)]
<1>1. 100 * SumOf(h, D) >= 3240
  <2>1. SumOf(h, D) = Scores("consistency", r)
    <3>1. DOMAIN h = D
      OBVIOUS
    <3>2. SumFunction(h) = SumOf(h, D)
      <4> HIDE DEF h
      <4>1. QED BY <3>1 DEF SumFunction, SumOf
    <3>3. QED BY <3>2 DEF Scores
  <2>2. 100 * Scores("consistency", r) >= (90 * Full) * Total(r)
    BY DEF Clears, AtLeast
  <2>3. (90 * Full) * Total(r) = 3240
    BY DEF Full
  <2> HIDE DEF h
  <2>4. QED BY <2>1, <2>2, <2>3
<1>2. ASSUME NEW o \in D
      PROVE  /\ r[o] \in Nat
             /\ Scored("consistency", o) \in 0..12
             /\ o \notin A => Scored("consistency", o) <= 10
  <2>1. r[o] \in Nat
    BY DEF ResultsOK, FiniteBag, IsABag
  <2>2. CASE o = Raised
    BY <2>1, <2>2 DEF Scored
  <2>3. CASE o # Raised
    <3>1. Scored("consistency", o) = AgreementScore(o)
      BY <2>3 DEF Scored
    <3>2. RunsOK(o.runs) /\ Total(o.runs) = NRuns
      BY <2>3 DEF ResultsOK, Answer
    <3>3. /\ AgreementScore(o) \in 0..12
          /\ Cardinality(DOMAIN o.runs) # 1 => AgreementScore(o) <= 10
      BY <3>2, OddRunsScoreLess
    <3>4. QED BY <2>1, <2>3, <3>1, <3>3
  <2>4. QED BY <2>2, <2>3
<1>3. ASSUME NEW o \in D
      PROVE  /\ r[o] \in Nat /\ h[o] \in Nat
             /\ h[o] <= 10 * r[o] + (IF o \in A THEN 2 * r[o] ELSE 0)
  <2> DEFINE n == r[o]
             s == Scored("consistency", o)
  <2>1. n \in Nat /\ s \in 0..12 /\ (o \notin A => s <= 10) /\ h[o] = n * s
    BY <1>2
  <2> HIDE DEF n, s, h, A
  <2>2. n * s \in Nat /\ n * s <= 12 * n /\ (s <= 10 => n * s <= 10 * n)
    <3>1. s \in {0, 1, 2, 3, 4, 5, 6, 7, 8, 9, 10, 11, 12}
      BY <2>1
    <3>2. QED BY <2>1, <3>1
  <2>3. QED BY <2>1, <2>2 DEF n
<1>4. SumOf(h, D) <= 10 * SumOf(r, D) + 2 * SumOf(r, D \cap A)
  <2>1. IsFiniteSet(D)
    BY DEF ResultsOK, FiniteBag
  <2> HIDE DEF D, h, A
  <2>2. QED BY <1>3, <2>1, SumBound
<1>5. SumOf(r, D) = 3 /\ SumOf(r, D \cap A) = Count(r, A)
  BY DEF Total, SumFunction, SumOf, Count
<1>6. Count(r, A) \in Nat /\ SumOf(h, D) \in Nat
  <2>1. Count(r, A) \in Nat
    <3> HIDE DEF A
    <3>1. QED BY CountOfSome DEF ResultsOK
  <2>2. IsFiniteSet(D)
    BY DEF ResultsOK, FiniteBag
  <2>3. SumOf(h, D) \in Nat
    <3> HIDE DEF D, h, A
    <3>1. QED BY <1>3, <2>2, SumIsNatural
  <2>4. QED BY <2>1, <2>3
<1> HIDE DEF A, D, h
<1>7. 100 * Count(r, A) >= 180
  BY <1>1, <1>4, <1>5, <1>6
<1>8. QED BY <1>7 DEF A

LEMMA Evidence ==
    ASSUME CodeSizes, EvalInv
    PROVE  UnlockedOnEvidence
<1> SUFFICES ASSUME NEW b \in Unlocked
             PROVE  CASE b = "write-enabled tools" ->
                Share(95, "function_calls", LAMBDA o : o = [tool |-> "expected", exact |-> TRUE])
          [] b = "agent autonomy" ->
                Share(60, "consistency", LAMBDA o : Cardinality(DOMAIN o.runs) = 1)
          [] b = "risk simulator" ->
                Share(100, "domain_risk", LAMBDA o : o = [covered |-> TRUE, es |-> TRUE])
          [] b = "treasury recommendations" -> Cleared("domain_treasury", {1, 2})
          [] b = "automated alert triage" -> Cleared("domain_compliance", {1, 2})
          [] b = "staffing proposals" -> Cleared("domain_customer_ops", {0, 1})
  BY DEF UnlockedOnEvidence
<1>1. CASE b = "write-enabled tools"
  <2> DEFINE r == summaries["function_calls"].results
  <2>1. Clears("pass_rate", r) /\ ResultsOK("function_calls", r) /\ Total(r) = Size["function_calls"]
    BY <1>1, GatesOf, PassedIsOk
  <2>2. 100 * Count(r, {o \in DOMAIN r \ {Raised} : o = [tool |-> "expected", exact |-> TRUE]})
            >= 95 * Size["function_calls"]
    <3> HIDE DEF r
    <3>1. QED BY <2>1, ToolsOnEvidence
  <2>3. Share(95, "function_calls", LAMBDA o : o = [tool |-> "expected", exact |-> TRUE])
    BY <2>2 DEF Share
  <2>4. QED BY <1>1, <2>3
<1>2. CASE b = "agent autonomy"
  <2> DEFINE r == summaries["consistency"].results
  <2>1. Clears("mean_score", r) /\ ResultsOK("consistency", r) /\ Total(r) = Size["consistency"]
    BY <1>2, GatesOf, PassedIsOk
  <2>2. Size["consistency"] = 3
    BY DEF CodeSizes
  <2>3. 100 * Count(r, {o \in DOMAIN r \ {Raised} : Cardinality(DOMAIN o.runs) = 1}) >= 180
    <3> HIDE DEF r
    <3>1. QED BY <2>1, <2>2, AutonomyOnEvidence
  <2>4. 180 = 60 * Size["consistency"]
    BY <2>2
  <2>5. Share(60, "consistency", LAMBDA o : Cardinality(DOMAIN o.runs) = 1)
    BY <2>3, <2>4 DEF Share
  <2>6. QED BY <1>2, <2>5
<1>3. CASE b = "risk simulator"
  <2> DEFINE r == summaries["domain_risk"].results
  <2>1. Clears("es_present_rate", r) /\ ResultsOK("domain_risk", r) /\ Total(r) = Size["domain_risk"]
    BY <1>3, GatesOf, PassedIsOk
  <2>2. 100 * Count(r, {o \in DOMAIN r \ {Raised} : o = [covered |-> TRUE, es |-> TRUE]})
            >= 100 * Size["domain_risk"]
    <3> HIDE DEF r
    <3>1. QED BY <2>1, RiskOnEvidence
  <2>3. Share(100, "domain_risk", LAMBDA o : o = [covered |-> TRUE, es |-> TRUE])
    BY <2>2 DEF Share
  <2>4. QED BY <1>3, <2>3
<1>4. CASE b = "treasury recommendations"
  <2>1. /\ Clears("min_survival_days", summaries["domain_treasury"].results)
        /\ ResultsOK("domain_treasury", summaries["domain_treasury"].results)
    BY <1>4, GatesOf, PassedIsOk
  <2>2. Least(summaries["domain_treasury"].results) >= 1
    BY <2>1 DEF Clears
  <2>3. Cleared("domain_treasury", {1, 2})
    BY <2>1, <2>2, LeastOnEvidence DEF Cleared
  <2>4. QED BY <1>4, <2>3
<1>5. CASE b = "automated alert triage"
  <2>1. /\ Clears("recall", summaries["domain_compliance"].results)
        /\ ResultsOK("domain_compliance", summaries["domain_compliance"].results)
    BY <1>5, GatesOf, PassedIsOk
  <2>2. Least(summaries["domain_compliance"].results) >= 1
    BY <2>1 DEF Clears
  <2>3. Cleared("domain_compliance", {1, 2})
    BY <2>1, <2>2, LeastOnEvidence DEF Cleared
  <2>4. QED BY <1>5, <2>3
<1>6. CASE b = "staffing proposals"
  <2>1. /\ Clears("sla_breach_rate", summaries["domain_customer_ops"].results)
        /\ ResultsOK("domain_customer_ops", summaries["domain_customer_ops"].results)
    BY <1>6, GatesOf, PassedIsOk
  <2>2. Greatest(summaries["domain_customer_ops"].results) <= 1
    BY <2>1 DEF Clears
  <2>3. Cleared("domain_customer_ops", {0, 1})
    BY <2>1, <2>2, GreatestOnEvidence DEF Cleared
  <2>4. QED BY <1>6, <2>3
<1>7. QED BY <1>1, <1>2, <1>3, <1>4, <1>5, <1>6, GatesOf

\* harness.py release_gates, "no evidence, no promotion": with any benchmark and any
\* number of presets, and the three objectives and three runs that consistency.py
\* defaults to, what a gate blocks opens only on cases that went as wanted.
THEOREM GatesNeedEvidence == CodeSizes /\ Spec => []UnlockedOnEvidence
<1>1. CodeSizes /\ EvalInv => UnlockedOnEvidence
  BY Evidence
<1>2. CodeSizes => (CodeSizes)'
  BY DEF CodeSizes
<1>3. QED BY <1>1, <1>2, EvalInvariance, PTL

===============================================================================
