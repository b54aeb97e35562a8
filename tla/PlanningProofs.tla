---------------------------- MODULE PlanningProofs ----------------------------
(***************************************************************************)
(* Proofs about what plans a task: the harness it is given and how that    *)
(* evolves (HarnessEvolution), and the flow graph that routes it           *)
(* (GraphRouting).  They hold for every policy, every measurement and any  *)
(* number of rounds and rollbacks, and for every graph, any gates and      *)
(* flags and a trail of any length.                                        *)
(***************************************************************************)
EXTENDS HarnessEvolution, GraphRouting, FiniteSetTheorems, SequenceTheorems,
        WellFoundedInduction, TLAPS

-----------------------------------------------------------------------------
\* Induction and recursion over the natural numbers.  The library's theorems of
\* induction take an operator; these follow from the well-foundedness of < instead.

\* There is a least one among any natural numbers.
LEMMA LeastNumber ==
  ASSUME NEW T \in SUBSET Nat, T # {}
  PROVE  \E n \in T : \A m \in T : n <= m
<1> DEFINE less == OpToRel(<, Nat)
<1>1. \A x, y \in Nat : x < y => <<x, y>> \in less
  BY DEF OpToRel
<1> HIDE DEF less
<1>2. IsWellFoundedOn(less, Nat)
  BY NatLessThanWellFounded DEF less
<1>3. PICK n \in T : \A m \in T : ~ (<<m, n>> \in less)
  BY <1>2, WFMin
<1>4. \A m \in T : ~ (m < n)
  BY <1>1, <1>3
<1> QED BY <1>4

\* Induction, stated of sets: natural numbers that begin at 0 and go on are all of them.
LEMMA Counting ==
  ASSUME NEW T \in SUBSET Nat, 0 \in T, \A n \in T : n + 1 \in T
  PROVE  T = Nat
<1> SUFFICES ASSUME T # Nat PROVE FALSE
  OBVIOUS
<1> DEFINE rest == Nat \ T
<1>1. PICK n \in rest : \A m \in rest : n <= m
  BY LeastNumber
<1>2. n # 0 /\ n - 1 \in Nat /\ n - 1 \notin rest
  BY <1>1
<1> QED BY <1>1, <1>2

\* Recursion: a step can be taken any number of times.
LEMMA Iteration ==
  ASSUME NEW S, NEW a \in S, NEW step \in [S -> S]
  PROVE  \E f \in [Nat -> S] : f[0] = a /\ \A n \in Nat : f[n + 1] = step[f[n]]
<1> DEFINE Upto(n, f) == f \in [0..n -> S] /\ f[0] = a /\ \A k \in 0..(n - 1) : f[k + 1] = step[f[k]]
           T == {n \in Nat : \E f \in [0..n -> S] : Upto(n, f)}
<1>1. 0 \in T
  <2>1. Upto(0, [k \in 0..0 |-> a])
    OBVIOUS
  <2> QED BY <2>1
<1>2. ASSUME NEW n \in T PROVE n + 1 \in T
  <2>1. PICK f \in [0..n -> S] : Upto(n, f)
    OBVIOUS
  <2> DEFINE g == [k \in 0..(n + 1) |-> IF k = n + 1 THEN step[f[n]] ELSE f[k]]
  <2>2. g \in [0..(n + 1) -> S] /\ Upto(n + 1, g)
    BY <2>1
  <2>3. n + 1 \in Nat
    OBVIOUS
  <2> HIDE DEF g, Upto
  <2> QED BY <2>2, <2>3
<1>3. T = Nat
  <2> HIDE DEF T
  <2> QED BY <1>1, <1>2, Counting, T \subseteq Nat DEF T
<1> DEFINE F == [n \in Nat |-> CHOOSE f \in [0..n -> S] : Upto(n, f)]
<1>4. ASSUME NEW n \in Nat PROVE Upto(n, F[n])
  BY <1>3
<1> HIDE DEF F
<1>5. ASSUME NEW n \in Nat PROVE F[n + 1][n] = F[n][n]
  <2> DEFINE Same == {k \in Nat : k <= n => F[n + 1][k] = F[n][k]}
  <2>1. 0 \in Same
    BY <1>4
  <2>2. ASSUME NEW k \in Same PROVE k + 1 \in Same
    <3> CASE k + 1 <= n
      <4>1. F[n + 1][k + 1] = step[F[n + 1][k]] /\ F[n][k + 1] = step[F[n][k]]
        BY <1>4
      <4> QED BY <4>1
    <3> QED OBVIOUS
  <2> HIDE DEF Same
  <2>3. Same = Nat
    BY <2>1, <2>2, Counting, Same \subseteq Nat DEF Same
  <2> QED BY <2>3 DEF Same
<1> DEFINE h == [n \in Nat |-> F[n][n]]
<1>6. h \in [Nat -> S] /\ h[0] = a
  BY <1>4
<1>7. \A n \in Nat : h[n + 1] = step[h[n]]
  <2> TAKE n \in Nat
  <2>1. F[n + 1][n + 1] = step[F[n + 1][n]]
    BY <1>4
  <2> QED BY <2>1, <1>5
<1> QED BY <1>6, <1>7

-----------------------------------------------------------------------------
\* The inductive invariant.

\* A promotion: what it was promoted over is its parent, the gate let it through.
Passed(before, after) == after.success /\ QualityHolds(before, after) /\ CostHolds(before, after)

Promoted(parent, entry) ==
  /\ IsCandidate(parent.config, entry.config)
  /\ Cardinality(ChangedPrimitives(parent.config, entry.config)) <= Policy.max_changed_primitives
  /\ entry.before \in Metrics /\ entry.after \in Metrics
  /\ Passed(entry.before, entry.after)

\* The memory of the composed version.
Fits(c) ==
  /\ c.memory.characters >= 1
  /\ IF c.memory.enabled THEN c.memory.top_k >= 1 ELSE c.memory.top_k = 0
  /\ c.task_level = "L0" => ~c.memory.enabled
  /\ c.task_level = "L1" => c.memory.top_k <= 1 /\ c.memory.characters <= 4000
  /\ c.task_level = "L3" /\ c.memory.enabled => c.memory.top_k >= 5 /\ c.memory.characters >= 16000
  /\ c.flow # "delivery" => c.task_level = "L3"

Entries == {lineage[i] : i \in DOMAIN lineage}

LineageInv ==
  /\ lineage \in Seq(Entries) /\ lineage # <<>>
  /\ lineage[1].config.parent = <<>> /\ lineage[1].after \in Metrics /\ Fits(lineage[1].config)
  /\ \A i \in DOMAIN lineage : i # 1 => Promoted(lineage[i - 1], lineage[i])

\* The candidate file, and what the gate found of it.
PendingInv ==
  pending # <<>> =>
    /\ pending = <<File(pending[1].baseline, pending[1].config, pending[1].accepted,
                        pending[1].before, pending[1].after)>>
    /\ pending[1].accepted \in BOOLEAN
    /\ IsCandidate(pending[1].baseline, pending[1].config)
    /\ pending[1].accepted =>
         /\ pending[1].before \in Metrics /\ pending[1].after \in Metrics
         /\ Passed(pending[1].before, pending[1].after)
         /\ ChangeHolds(pending[1].baseline, pending[1].config)

\* What follows for each version from what holds of each promotion.
Descends(i) ==
  /\ \A f \in Identity : lineage[i].config[f] = lineage[1].config[f]
  /\ Cardinality(ChangedPrimitives(lineage[1].config, lineage[i].config))
       <= (i - 1) * Policy.max_changed_primitives
  /\ MeasuredOnce(i) => /\ QualityKept(i - 1, lineage[1].after, lineage[i].after)
                        /\ CostKept(i - 1, lineage[1].after, lineage[i].after)

DescentInv == \A i \in DOMAIN lineage : Descends(i)

Inv == LineageInv /\ PendingInv /\ DescentInv

-----------------------------------------------------------------------------
\* What the proofs need of sequences, sets and numbers.

\* A sequence is one of its own elements.
LEMMA SeqOfItsElements ==
  ASSUME NEW S, NEW s \in Seq(S)
  PROVE  s \in Seq({s[i] : i \in DOMAIN s})
<1> DEFINE T == {s[i] : i \in DOMAIN s}
<1>1. Len(s) \in Nat /\ s \in [1..Len(s) -> S] /\ DOMAIN s = 1..Len(s)
  BY LenProperties
<1>2. s \in [1..Len(s) -> T]
  BY <1>1
<1> QED BY <1>1, <1>2, SeqDef

\* What a new last entry of the lineage leaves as it was: propose, load and
\* promote only append.
LEMMA AppendedEntry ==
  ASSUME lineage \in Seq(Entries), NEW x, lineage' = Append(lineage, x)
  PROVE  /\ lineage' \in Seq(Entries') /\ lineage' # <<>> /\ Len(lineage) \in Nat
         /\ DOMAIN lineage = 1..Len(lineage) /\ DOMAIN lineage' = 1..(Len(lineage) + 1)
         /\ \A i \in DOMAIN lineage : lineage'[i] = lineage[i]
         /\ lineage'[Len(lineage) + 1] = x
<1> DEFINE S == Entries \cup {x}
<1>1. Len(lineage) \in Nat /\ DOMAIN lineage = 1..Len(lineage) /\ lineage \in Seq(S) /\ x \in S
  BY LenProperties, SeqDef
<1>2. /\ lineage' \in Seq(S) /\ lineage' # <<>> /\ DOMAIN lineage' = 1..(Len(lineage) + 1)
      /\ \A i \in DOMAIN lineage : lineage'[i] = lineage[i]
      /\ lineage'[Len(lineage) + 1] = x
  <2> HIDE DEF S
  <2> QED BY <1>1, AppendProperties
<1>3. lineage' \in Seq({lineage'[i] : i \in DOMAIN lineage'})
  <2> HIDE DEF S
  <2> QED BY <1>2, SeqOfItsElements
<1> QED BY <1>1, <1>2, <1>3 DEF Entries

\* What a rollback leaves: every entry but the last, each where it was.
LEMMA FrontEntries ==
  ASSUME lineage \in Seq(Entries), Len(lineage) > 1, lineage' = Front(lineage)
  PROVE  /\ lineage' \in Seq(Entries') /\ lineage' # <<>> /\ 1 \in DOMAIN lineage'
         /\ \A i \in DOMAIN lineage' : i \in DOMAIN lineage /\ lineage'[i] = lineage[i]
         /\ \A i \in DOMAIN lineage' : \A j \in 1..i : j \in DOMAIN lineage'
<1>1. Len(lineage) \in Nat /\ DOMAIN lineage = 1..Len(lineage)
  BY LenProperties
<1>2. /\ lineage' \in Seq(Entries) /\ Len(lineage') = Len(lineage) - 1
      /\ \A i \in 1..(Len(lineage) - 1) : lineage'[i] = lineage[i]
  BY <1>1 DEF Front
<1>3. DOMAIN lineage' = 1..(Len(lineage) - 1) /\ lineage' # <<>>
  BY <1>1, <1>2, LenProperties, EmptySeq
<1>4. lineage' \in Seq({lineage'[i] : i \in DOMAIN lineage'})
  <2>1. ASSUME NEW S, lineage' \in Seq(S) PROVE lineage' \in Seq({lineage'[i] : i \in DOMAIN lineage'})
    BY <2>1, SeqOfItsElements
  <2> QED BY <1>2, <2>1
<1> QED BY <1>1, <1>2, <1>3, <1>4 DEF Entries

\* There are four primitives; the changes over two rounds are at most the sum.
LEMMA ChangesAreFew ==
  ASSUME NEW a, NEW b
  PROVE  IsFiniteSet(ChangedPrimitives(a, b)) /\ Cardinality(ChangedPrimitives(a, b)) \in Nat
<1>1. IsFiniteSet({"planning_strategy", "recovery_strategy"})
  <2>1. IsFiniteSet({"planning_strategy"}) /\ IsFiniteSet({"recovery_strategy"})
    BY FS_Singleton
  <2>2. {"planning_strategy", "recovery_strategy"} = {"planning_strategy"} \cup {"recovery_strategy"}
    OBVIOUS
  <2> QED BY <2>1, <2>2, FS_Union
<1>2. IsFiniteSet({"memory", "reviewers"})
  <2>1. IsFiniteSet({"memory"}) /\ IsFiniteSet({"reviewers"})
    BY FS_Singleton
  <2>2. {"memory", "reviewers"} = {"memory"} \cup {"reviewers"}
    OBVIOUS
  <2> QED BY <2>1, <2>2, FS_Union
<1>3. Primitives = {"planning_strategy", "recovery_strategy"} \cup {"memory", "reviewers"}
  BY DEF Primitives, Evolvable
<1>4. IsFiniteSet(Primitives)
  BY <1>1, <1>2, <1>3, FS_Union
<1>5. ChangedPrimitives(a, b) \subseteq Primitives
  BY DEF ChangedPrimitives
<1>6. IsFiniteSet(ChangedPrimitives(a, b))
  BY <1>4, <1>5, FS_Subset
<1> QED BY <1>6, FS_CardinalityType

\* The primitives changed from a to c changed from a to b or from b to c.
LEMMA ChangesAddUp ==
  ASSUME NEW a, NEW b, NEW c
  PROVE  Cardinality(ChangedPrimitives(a, c))
           <= Cardinality(ChangedPrimitives(a, b)) + Cardinality(ChangedPrimitives(b, c))
<1> DEFINE ab == ChangedPrimitives(a, b)
           bc == ChangedPrimitives(b, c)
           ac == ChangedPrimitives(a, c)
<1>1. ac \subseteq ab \cup bc
  BY DEF ChangedPrimitives
<1>2. IsFiniteSet(ab) /\ IsFiniteSet(bc) /\ Cardinality(ab) \in Nat /\ Cardinality(bc) \in Nat
  BY ChangesAreFew
<1> HIDE DEF ab, bc, ac
<1>3. /\ IsFiniteSet(ab \cup bc)
      /\ Cardinality(ab \cup bc) = Cardinality(ab) + Cardinality(bc) - Cardinality(ab \cap bc)
  BY <1>2, FS_Union
<1>4. Cardinality(ab \cap bc) \in Nat
  <2>1. IsFiniteSet(ab \cap bc)
    BY <1>2, FS_Subset
  <2> QED BY <2>1, FS_CardinalityType
<1>5. Cardinality(ac) <= Cardinality(ab \cup bc) /\ Cardinality(ac) \in Nat
  <2>1. IsFiniteSet(ac) /\ Cardinality(ac) <= Cardinality(ab \cup bc)
    BY <1>1, <1>3, FS_Subset
  <2> QED BY <2>1, FS_CardinalityType
<1>6. Cardinality(ac) <= Cardinality(ab) + Cardinality(bc)
  BY <1>2, <1>3, <1>4, <1>5
<1> QED BY <1>6 DEF ab, bc, ac

\* A round adds its own tolerance to that of the rounds before.
LEMMA OneMore ==
  ASSUME NEW n \in Nat, NEW c \in Nat
  PROVE  /\ n * c \in Int /\ (n - 1) * c \in Int /\ n * c = (n - 1) * c + c
         /\ 4 * n * c \in Int /\ 4 * (n - 1) * c \in Int /\ 4 * n * c = 4 * (n - 1) * c + 4 * c
OBVIOUS

\* Powers are what their recursive definition says.
LEMMA PowerSteps ==
  ASSUME NEW b \in Nat
  PROVE  /\ Power(b) \in [Nat -> Nat] /\ Power(b)[0] = 1
         /\ \A n \in Nat : Power(b)[n + 1] = b * Power(b)[n]
<1> DEFINE Step(f) == [n \in Nat |-> IF n = 0 THEN 1 ELSE b * f[n - 1]]
           times == [x \in Nat |-> b * x]
<1>1. \E f : f \in [Nat -> Nat] /\ f = Step(f)
  <2>1. times \in [Nat -> Nat]
    OBVIOUS
  <2>2. PICK f \in [Nat -> Nat] : f[0] = 1 /\ \A n \in Nat : f[n + 1] = times[f[n]]
    <3> DEFINE values == Nat
               one == 1
    <3>1. times \in [values -> values] /\ one \in values
      BY <2>1
    <3>2. \E f \in [Nat -> values] : f[0] = one /\ \A n \in Nat : f[n + 1] = times[f[n]]
      <4> HIDE DEF times, values, one
      <4> QED BY <3>1, Iteration
    <3> QED BY <3>2
  <2>3. ASSUME NEW n \in Nat PROVE f[n] = IF n = 0 THEN 1 ELSE b * f[n - 1]
    <3>1. CASE n = 0
      BY <2>2, <3>1
    <3>2. CASE n # 0
      <4>1. n - 1 \in Nat /\ n - 1 + 1 = n
        BY <3>2
      <4>2. f[n] = times[f[n - 1]] /\ f[n - 1] \in Nat
        BY <2>2, <4>1
      <4> QED BY <3>2, <4>2
    <3> QED BY <3>1, <3>2
  <2> QED BY <2>2, <2>3
<1>2. Power(b) = CHOOSE f : f = Step(f)
  BY DEF Power
<1>3. Power(b) = Step(Power(b))
  <2> HIDE DEF Step
  <2> QED BY <1>1, <1>2
<1>4. Power(b)[0] = 1
  BY <1>3
<1>5. ASSUME NEW n \in Nat PROVE Power(b)[n + 1] = b * Power(b)[n]
  <2>1. n + 1 \in Nat /\ n + 1 # 0 /\ n + 1 - 1 = n
    OBVIOUS
  <2> QED BY <1>3, <2>1
<1> DEFINE T == {n \in Nat : Power(b)[n] \in Nat}
<1>6. T = Nat
  <2>1. 0 \in T /\ T \subseteq Nat
    BY <1>4
  <2>2. ASSUME NEW n \in T PROVE n + 1 \in T
    <3>1. Power(b)[n + 1] = b * Power(b)[n] /\ Power(b)[n] \in Nat
      BY <1>5
    <3>2. b * Power(b)[n] \in Nat
      BY <3>1
    <3> QED BY <3>1, <3>2
  <2> HIDE DEF T
  <2> QED BY <2>1, <2>2, Counting
<1>7. Power(b) \in [Nat -> Nat]
  <2>1. \A n \in Nat : Power(b)[n] \in Nat
    BY <1>6
  <2> QED BY <1>3, <2>1
<1> QED BY <1>4, <1>5, <1>7

\* Products: what is less stays less, and the order of factors is free.
LEMMA Products ==
  ASSUME NEW a \in Nat, NEW b \in Nat, NEW c \in Nat
  PROVE  /\ a * b \in Nat /\ a * b = b * a /\ a * (b * c) = (a * b) * c
         /\ a <= b => a * c <= b * c
OBVIOUS

-----------------------------------------------------------------------------
\* The composed version.

\* The memory of a composed version is in proportion to its level.
LEMMA ComposedFits ==
  ASSUME NEW flow \in {"discovery", "delivery", "postmortem"}, NEW request, NEW base \in BasePolicies,
         NEW retries
  PROVE  LET c == Compose(flow, request, base, retries) IN c.parent = <<>> /\ Fits(c)
<1> DEFINE c == Compose(flow, request, base, retries)
           level == Level(flow, request)
           memory == RouteMemory(level, base)
<1> SUFFICES c.parent = <<>> /\ Fits(c)
  OBVIOUS
<1>1. /\ c.parent = <<>> /\ c.flow = flow /\ c.task_level = level
      /\ c.memory = memory
  BY DEF Compose
<1>2. level \in {"L0", "L1", "L2", "L3"} /\ (flow # "delivery" => level = "L3")
  BY DEF Level, Classified
<1> HIDE DEF c, level
<1>3. base.enabled \in BOOLEAN /\ base.top_k \in Nat \ {0} /\ base.characters \in Nat \ {0}
  BY InputAssumption
<1>4. CASE level = "L0" \/ ~base.enabled
  <2>1. memory = MemoryOff
    <3>1. CASE level = "L0"
      BY <3>1 DEF RouteMemory
    <3>2. CASE ~base.enabled
      BY <3>2 DEF RouteMemory
    <3> QED BY <1>4, <3>1, <3>2
  <2>2. ~memory.enabled /\ memory.top_k = 0 /\ memory.characters = 1
    BY <2>1 DEF MemoryOff, Routing
  <2> HIDE DEF memory
  <2> QED BY <1>1, <1>2, <2>2 DEF Fits
<1>5. CASE level = "L1" /\ base.enabled
  <2>1. memory = Routing(TRUE, Lesser(base.top_k, 1), Lesser(base.characters, 4000))
    BY <1>5 DEF RouteMemory
  <2>2. /\ memory.enabled /\ memory.top_k = 1
        /\ memory.characters \in Nat /\ memory.characters >= 1 /\ memory.characters <= 4000
    <3> DEFINE n == Lesser(base.characters, 4000)
    <3>1. Lesser(base.top_k, 1) = 1
      BY <1>3 DEF Lesser
    <3>2. n \in Nat /\ n >= 1 /\ n <= 4000
      BY <1>3 DEF Lesser
    <3> QED BY <2>1, <3>1, <3>2 DEF Routing
  <2> HIDE DEF memory
  <2> QED BY <1>1, <1>2, <1>5, <2>2 DEF Fits
<1>6. CASE level = "L2" /\ base.enabled
  <2>1. memory = Routing(TRUE, base.top_k, base.characters)
    BY <1>6 DEF RouteMemory
  <2>2. /\ memory.enabled /\ memory.top_k \in Nat \ {0} /\ memory.characters \in Nat \ {0}
    BY <1>3, <2>1 DEF Routing
  <2> HIDE DEF memory
  <2> QED BY <1>1, <1>2, <1>6, <2>2 DEF Fits
<1>7. CASE level = "L3" /\ base.enabled
  <2>1. memory = Routing(TRUE, Greater(base.top_k, 5), Greater(base.characters, 16000))
    BY <1>7 DEF RouteMemory
  <2>2. /\ memory.enabled /\ memory.top_k \in Nat /\ memory.top_k >= 5
        /\ memory.characters \in Nat /\ memory.characters >= 16000
    BY <1>3, <2>1 DEF Routing, Greater
  <2> HIDE DEF memory
  <2> QED BY <1>1, <1>2, <1>7, <2>2 DEF Fits
<1> QED BY <1>2, <1>4, <1>5, <1>6, <1>7

\* The measurements are integers.
LEMMA MetricTypes ==
  ASSUME NEW m \in Metrics
  PROVE  /\ \A r \in Rates : m.rates[r] \in Int
         /\ Quality(m) \in Int /\ m.interventions \in Int
BY InputAssumption DEF Rates, Quality

\* The limits of the gate are natural numbers.
LEMMA PolicyTypes ==
  /\ Policy.max_quality_regression \in Nat /\ Policy.min_quality_improvement \in Nat
  /\ Policy.max_intervention_increase \in Nat /\ Policy.max_changed_primitives \in Nat
BY PolicyAssumption

\* A composed harness satisfies the invariant.
LEMMA Initially == Init => Inv
<1> SUFFICES ASSUME Init PROVE Inv
  OBVIOUS
<1>1. PICK flow \in {"discovery", "delivery", "postmortem"}, request \in SUBSET Words,
           base \in BasePolicies, retries \in BOOLEAN, m \in Metrics :
        lineage = <<[config |-> Compose(flow, request, base, retries), before |-> m, after |-> m]>>
  BY DEF Init
<1> DEFINE c == Compose(flow, request, base, retries)
<1>2. c.parent = <<>> /\ Fits(c)
  BY ComposedFits
<1> HIDE DEF c
<1>3. /\ lineage = <<[config |-> c, before |-> m, after |-> m]>>
      /\ DOMAIN lineage = {1} /\ lineage[1].config = c /\ lineage[1].after = m
  BY <1>1 DEF c
<1>4. lineage \in Seq(Entries) /\ lineage # <<>>
  BY <1>3 DEF Entries
<1>5. LineageInv
  BY <1>2, <1>3, <1>4 DEF LineageInv
<1>6. PendingInv
  BY DEF Init, PendingInv
<1>7. DescentInv
  <2>1. ChangedPrimitives(c, c) = {}
    BY DEF ChangedPrimitives
  <2>2. Cardinality(ChangedPrimitives(c, c)) <= (1 - 1) * Policy.max_changed_primitives
    BY <2>1, FS_EmptySet, PolicyTypes
  <2>3. QualityKept(1 - 1, m, m)
    BY PolicyTypes, MetricTypes DEF QualityKept, Rates
  <2>c. CostKept(1 - 1, m, m)
    <3>1. Power(100)[0] = 1
      BY 100 \in Nat, PowerSteps
    <3>2. Power(100 + Policy.max_cost_increase)[0] = 1
      <4>1. 100 + Policy.max_cost_increase \in Nat
        BY PolicyAssumption
      <4> QED BY <4>1, PowerSteps
    <3>3. m.cost \in Nat
      BY InputAssumption
    <3> QED BY <3>1, <3>2, <3>3 DEF CostKept
  <2>4. Descends(1)
    BY <1>3, <2>2, <2>3, <2>c DEF Descends
  <2> QED BY <1>3, <2>4 DEF DescentInv
<1> QED BY <1>5, <1>6, <1>7 DEF Inv

-----------------------------------------------------------------------------
\* The rounds.

\* What one gate allows is added to what the rounds before it did.
LEMMA QualityAddsUp ==
  ASSUME NEW n \in Nat, NEW first \in Metrics, NEW mid \in Metrics, NEW now \in Metrics,
         QualityKept(n - 1, first, mid), Passed(mid, now)
  PROVE  QualityKept(n, first, now)
<1> DEFINE loss == Policy.max_quality_regression
           gain == Policy.min_quality_improvement
           more == Policy.max_intervention_increase
<1>0. loss \in Nat /\ gain \in Nat /\ more \in Nat
  BY PolicyTypes
<1>1. /\ mid.rates["regression"] >= first.rates["regression"]
      /\ \A r \in Rates : mid.rates[r] >= first.rates[r] - (n - 1) * loss
      /\ Quality(mid) >= Quality(first) + 4 * (n - 1) * gain
      /\ mid.interventions <= first.interventions + (n - 1) * more
  BY DEF QualityKept
<1>2. /\ now.rates["regression"] >= mid.rates["regression"]
      /\ \A r \in Rates \ {"regression"} : now.rates[r] - mid.rates[r] >= -loss
      /\ Quality(now) - Quality(mid) >= 4 * gain
      /\ now.interventions <= mid.interventions + more
  BY DEF Passed, QualityHolds, CostHolds
<1>3. /\ n * loss \in Int /\ (n - 1) * loss \in Int /\ n * loss = (n - 1) * loss + loss
      /\ 4 * n * gain \in Int /\ 4 * (n - 1) * gain \in Int /\ 4 * n * gain = 4 * (n - 1) * gain + 4 * gain
      /\ n * more \in Int /\ (n - 1) * more \in Int /\ n * more = (n - 1) * more + more
  BY <1>0, OneMore
<1>4. \A m \in {first, mid, now} :
        /\ \A r \in Rates : m.rates[r] \in Int
        /\ Quality(m) \in Int /\ m.interventions \in Int
  BY MetricTypes
<1> HIDE DEF loss, gain, more
<1>5. now.rates["regression"] >= first.rates["regression"]
  BY <1>1, <1>2, <1>4 DEF Rates
<1>6. ASSUME NEW r \in Rates PROVE now.rates[r] >= first.rates[r] - n * loss
  <2>1. now.rates[r] >= mid.rates[r] - loss
    <3>1. CASE r = "regression"
      BY <1>0, <1>2, <1>4, <3>1
    <3>2. CASE r # "regression"
      BY <1>0, <1>2, <1>4, <3>2
    <3> QED BY <3>1, <3>2
  <2>2. /\ mid.rates[r] >= first.rates[r] - (n - 1) * loss
        /\ now.rates[r] \in Int /\ mid.rates[r] \in Int /\ first.rates[r] \in Int
    BY <1>1, <1>4
  <2> QED BY <1>0, <1>3, <2>1, <2>2
<1>7. Quality(now) >= Quality(first) + 4 * n * gain
  BY <1>0, <1>1, <1>2, <1>3, <1>4
<1>8. now.interventions <= first.interventions + n * more
  BY <1>0, <1>1, <1>2, <1>3, <1>4
<1> QED BY <1>5, <1>6, <1>7, <1>8 DEF QualityKept, loss, gain, more

\* What one gate allows the cost to grow by is compounded with what the rounds before it did.
LEMMA CostCompounds ==
  ASSUME NEW n \in Nat, NEW first \in Metrics, NEW mid \in Metrics, NEW now \in Metrics,
         CostKept(n, first, mid), Passed(mid, now)
  PROVE  CostKept(n + 1, first, now)
<1> DEFINE rate == 100 + Policy.max_cost_increase
           p == Power(100)[n]
           q == Power(rate)[n]
           a == first.cost
           b == mid.cost
           c == now.cost
<1>1. a \in Nat /\ b \in Nat /\ c \in Nat /\ rate \in Nat
  BY InputAssumption, PolicyAssumption
<1>2. p \in Nat /\ q \in Nat /\ Power(100)[n + 1] = 100 * p /\ Power(rate)[n + 1] = rate * q
  <2> HIDE DEF rate
  <2> QED BY <1>1, PowerSteps
<1>3. b * p <= a * q /\ 100 * c <= b * rate
  BY DEF CostKept, Passed, CostHolds
<1> HIDE DEF rate, p, q, a, b, c
<1>4. c * (100 * p) = (100 * c) * p
  BY <1>1, <1>2, Products
<1>5. (100 * c) * p <= (b * rate) * p
  BY <1>1, <1>2, <1>3, Products
<1>6. (b * rate) * p = (b * p) * rate
  BY <1>1, <1>2, Products
<1>7. (b * p) * rate <= (a * q) * rate
  BY <1>1, <1>2, <1>3, Products
<1>8. (a * q) * rate = a * (rate * q)
  BY <1>1, <1>2, Products
<1>9. /\ c * (100 * p) \in Nat /\ (100 * c) * p \in Nat /\ (b * rate) * p \in Nat
      /\ (b * p) * rate \in Nat /\ (a * q) * rate \in Nat /\ a * (rate * q) \in Nat
  BY <1>1, <1>2
<1>10. c * (100 * p) <= a * (rate * q)
  BY <1>4, <1>5, <1>6, <1>7, <1>8, <1>9
<1> QED BY <1>2, <1>10 DEF CostKept, rate, p, q, a, b, c

\* A promotion adds a version that descends from the one in force.
LEMMA PromoteKeeps ==
  ASSUME Inv, Promote
  PROVE  Inv'
<1>a. PICK n : n = Len(lineage)
  OBVIOUS
<1> DEFINE file == pending[1]
           entry == [config |-> file.config, before |-> file.before, after |-> file.after]
<1>0. LineageInv /\ PendingInv /\ DescentInv
  BY DEF Inv
<1>1. /\ pending # <<>> /\ file.accepted /\ file.baseline = lineage[n].config
      /\ lineage' = Append(lineage, entry) /\ pending' = <<>>
  BY <1>a DEF Promote, Baseline, Last
<1>2. /\ IsCandidate(lineage[n].config, file.config)
      /\ file.before \in Metrics /\ file.after \in Metrics /\ Passed(file.before, file.after)
      /\ Cardinality(ChangedPrimitives(lineage[n].config, file.config)) <= Policy.max_changed_primitives
  BY <1>0, <1>1, PolicyTypes DEF PendingInv, ChangeHolds
<1>3. entry.config = file.config /\ entry.before = file.before /\ entry.after = file.after
  OBVIOUS
<1> HIDE DEF entry
<1>4. /\ lineage' \in Seq(Entries') /\ lineage' # <<>> /\ n \in Nat /\ n # 0
      /\ DOMAIN lineage = 1..n /\ DOMAIN lineage' = 1..(n + 1)
      /\ \A i \in 1..n : lineage'[i] = lineage[i]
      /\ lineage'[n + 1] = entry
  BY <1>a, <1>0, <1>1, AppendedEntry, EmptySeq DEF LineageInv
<1>5. Promoted(lineage[n], entry)
  BY <1>2, <1>3 DEF Promoted
<1> HIDE DEF file
<1>6. LineageInv'
  <2>1. ASSUME NEW i \in 1..(n + 1), i # 1 PROVE Promoted(lineage'[i - 1], lineage'[i])
    <3>1. CASE i = n + 1
      <4>1. i - 1 = n /\ n \in 1..n
        BY <1>4, <3>1
      <4> QED BY <1>4, <1>5, <3>1, <4>1
    <3>2. CASE i # n + 1
      <4>1. i \in 1..n /\ i - 1 \in 1..n
        BY <1>4, <2>1, <3>2
      <4> QED BY <1>0, <1>4, <2>1, <4>1 DEF LineageInv
    <3> QED BY <3>1, <3>2
  <2>2. lineage'[1] = lineage[1]
    BY <1>4
  <2> QED BY <1>0, <1>4, <2>1, <2>2 DEF LineageInv
<1>7. \A i \in 1..n : MeasuredOnce(i)' = MeasuredOnce(i)
  BY <1>4 DEF MeasuredOnce
<1>8. Descends(n + 1)'
  <2>0. n \in 1..n /\ 1 \in 1..n /\ lineage'[1] = lineage[1] /\ Descends(n)
    BY <1>0, <1>4 DEF DescentInv
  <2>1. \A f \in Identity : entry.config[f] = lineage[1].config[f]
    BY <1>2, <1>3, <2>0 DEF Descends, IsCandidate
  <2>2. Cardinality(ChangedPrimitives(lineage[1].config, entry.config))
          <= (n + 1 - 1) * Policy.max_changed_primitives
    <3>1. /\ Cardinality(ChangedPrimitives(lineage[1].config, lineage[n].config))
               <= (n - 1) * Policy.max_changed_primitives
          /\ Cardinality(ChangedPrimitives(lineage[n].config, entry.config))
               <= Policy.max_changed_primitives
      BY <1>2, <1>3, <2>0 DEF Descends
    <3>2. /\ (n - 1) * Policy.max_changed_primitives \in Int /\ n * Policy.max_changed_primitives \in Int
          /\ n * Policy.max_changed_primitives
               = (n - 1) * Policy.max_changed_primitives + Policy.max_changed_primitives
      BY <1>4, PolicyTypes, OneMore
    <3> DEFINE all == Cardinality(ChangedPrimitives(lineage[1].config, entry.config))
               old == Cardinality(ChangedPrimitives(lineage[1].config, lineage[n].config))
               new == Cardinality(ChangedPrimitives(lineage[n].config, entry.config))
    <3>3. all \in Nat /\ old \in Nat /\ new \in Nat /\ all <= old + new
      BY ChangesAreFew, ChangesAddUp
    <3> HIDE DEF all, old, new
    <3>4. all <= n * Policy.max_changed_primitives
      BY <3>1, <3>2, <3>3, PolicyTypes DEF old, new
    <3>5. n + 1 - 1 = n
      BY <1>4
    <3> QED BY <3>4, <3>5 DEF all
  <2>3. ASSUME MeasuredOnce(n + 1)'
        PROVE  /\ QualityKept(n + 1 - 1, lineage[1].after, entry.after)
               /\ CostKept(n + 1 - 1, lineage[1].after, entry.after)
    <3>1. entry.before = lineage[n].after /\ MeasuredOnce(n)
      <4>1. \A j \in 2..(n + 1) : lineage'[j].before = lineage'[j - 1].after
        BY <2>3 DEF MeasuredOnce
      <4>2. lineage'[n + 1].before = lineage'[n].after
        BY <1>4, <4>1
      <4>3. \A j \in 2..n : lineage[j].before = lineage[j - 1].after
        BY <1>4, <4>1
      <4> QED BY <1>4, <2>0, <4>2, <4>3 DEF MeasuredOnce
    <3>2. /\ QualityKept(n - 1, lineage[1].after, lineage[n].after)
          /\ CostKept(n - 1, lineage[1].after, lineage[n].after)
      BY <2>0, <3>1 DEF Descends
    <3>3. /\ lineage[1].after \in Metrics /\ lineage[n].after \in Metrics
          /\ entry.after \in Metrics /\ Passed(lineage[n].after, entry.after)
      BY <1>0, <1>2, <1>3, <1>4, <3>1 DEF LineageInv
    <3>4. QualityKept(n, lineage[1].after, entry.after)
      BY <1>4, <3>2, <3>3, QualityAddsUp
    <3>5. CostKept(n, lineage[1].after, entry.after)
      <4>1. n - 1 \in Nat /\ n - 1 + 1 = n
        BY <1>4
      <4>2. CostKept(n - 1 + 1, lineage[1].after, entry.after)
        BY <3>2, <3>3, <4>1, CostCompounds
      <4> QED BY <4>1, <4>2
    <3>6. n + 1 - 1 = n
      BY <1>4
    <3> QED BY <3>4, <3>5, <3>6
  <2> QED BY <1>4, <2>0, <2>1, <2>2, <2>3 DEF Descends
<1>9. DescentInv'
  <2>1. ASSUME NEW i \in 1..n PROVE Descends(i)'
    <3>1. Descends(i) /\ lineage'[i] = lineage[i] /\ lineage'[1] = lineage[1]
      BY <1>0, <1>4 DEF DescentInv
    <3> QED BY <1>7, <3>1 DEF Descends
  <2>2. \A i \in DOMAIN lineage' : i \in 1..n \/ i = n + 1
    BY <1>4
  <2> QED BY <1>8, <2>1, <2>2 DEF DescentInv
<1>10. PendingInv'
  BY <1>1 DEF PendingInv
<1> QED BY <1>6, <1>9, <1>10 DEF Inv

\* A rollback takes the last version away, and leaves the candidate where it is.
LEMMA RollbackKeeps ==
  ASSUME Inv, Rollback
  PROVE  Inv'
<1>0. LineageInv /\ PendingInv /\ DescentInv /\ pending' = pending
  BY DEF Inv, Rollback
<1>1. /\ lineage' \in Seq(Entries') /\ lineage' # <<>> /\ 1 \in DOMAIN lineage'
      /\ \A i \in DOMAIN lineage' : i \in DOMAIN lineage /\ lineage'[i] = lineage[i]
      /\ \A i \in DOMAIN lineage' : \A j \in 1..i : j \in DOMAIN lineage'
      /\ DOMAIN lineage = 1..Len(lineage) /\ Len(lineage) \in Nat
  BY <1>0, FrontEntries, LenProperties DEF LineageInv, Rollback
<1>2. \A i \in DOMAIN lineage' : i \in Nat /\ i >= 1
  BY <1>1
<1>3. LineageInv'
  <2>1. ASSUME NEW i \in DOMAIN lineage', i # 1 PROVE Promoted(lineage'[i - 1], lineage'[i])
    <3>1. i - 1 \in 1..i
      BY <1>2, <2>1
    <3>2. i - 1 \in DOMAIN lineage' /\ lineage'[i - 1] = lineage[i - 1]
      BY <1>1, <3>1
    <3> QED BY <1>0, <1>1, <2>1, <3>2 DEF LineageInv
  <2> QED BY <1>0, <1>1, <2>1 DEF LineageInv
<1>4. ASSUME NEW i \in DOMAIN lineage' PROVE MeasuredOnce(i)' => MeasuredOnce(i)
  <2>1. ASSUME NEW j \in 2..i
        PROVE  lineage'[j] = lineage[j] /\ lineage'[j - 1] = lineage[j - 1]
    <3>1. j \in 1..i /\ j - 1 \in 1..i
      BY <1>2, <2>1
    <3> QED BY <1>1, <3>1
  <2> QED BY <2>1 DEF MeasuredOnce
<1>5. DescentInv'
  <2>1. ASSUME NEW i \in DOMAIN lineage' PROVE Descends(i)'
    <3>1. Descends(i) /\ lineage'[i] = lineage[i] /\ lineage'[1] = lineage[1]
      BY <1>0, <1>1 DEF DescentInv
    <3> QED BY <1>4, <3>1 DEF Descends
  <2> QED BY <2>1 DEF DescentInv
<1>6. PendingInv'
  BY <1>0 DEF PendingInv
<1> QED BY <1>3, <1>5, <1>6 DEF Inv

\* Nothing else touches the lineage.
LEMMA LineageKept ==
  ASSUME LineageInv, DescentInv, lineage' = lineage
  PROVE  LineageInv' /\ DescentInv'
<1>1. LineageInv'
  BY DEF LineageInv, Entries
<1>2. DescentInv'
  BY DEF DescentInv, Descends, MeasuredOnce
<1> QED BY <1>1, <1>2

\* A candidate file is written, by the optimizer or by hand: it has passed the
\* constructor and no gate.
LEMMA SubmitKeeps ==
  ASSUME Inv, Propose \/ LoadFile
  PROVE  Inv'
<1>1. lineage' = lineage /\ LineageInv /\ DescentInv
  BY DEF Inv, Propose, LoadFile
<1>2. PICK config : IsCandidate(Baseline, config) /\ Submit(Baseline, config)
  <2>1. CASE Propose
    BY <2>1 DEF Propose
  <2>2. CASE LoadFile
    BY <2>2 DEF LoadFile
  <2> QED BY <2>1, <2>2
<1> DEFINE file == File(Baseline, config, FALSE, Last(lineage).after, Last(lineage).after)
<1>3. pending' = <<file>>
  BY <1>2 DEF Submit, File
<1>4. /\ file.baseline = Baseline /\ file.config = config /\ file.accepted = FALSE
      /\ file = File(file.baseline, file.config, file.accepted, file.before, file.after)
  BY DEF File
<1> HIDE DEF file
<1>5. PendingInv'
  BY <1>2, <1>3, <1>4 DEF PendingInv
<1> QED BY <1>1, <1>5, LineageKept DEF Inv

\* The gate accepts a candidate with the measurements that carry it, or drops it.
LEMMA GateKeeps ==
  ASSUME Inv, Gate
  PROVE  Inv'
<1> DEFINE file == pending[1]
<1>0. /\ lineage' = lineage /\ LineageInv /\ DescentInv /\ PendingInv /\ pending # <<>>
  BY DEF Inv, Gate
<1>1. PICK before \in Metrics, after \in Metrics :
        pending' = IF /\ after.success
                      /\ QualityHolds(before, after)
                      /\ CostHolds(before, after)
                      /\ ChangeHolds(file.baseline, file.config)
                     THEN <<File(file.baseline, file.config, TRUE, before, after)>>
                     ELSE <<>>
  BY DEF Gate
<1>2. CASE pending' = <<>>
  BY <1>0, <1>2, LineageKept DEF Inv, PendingInv
<1>3. CASE pending' # <<>>
  <2> DEFINE new == File(file.baseline, file.config, TRUE, before, after)
  <2>1. Passed(before, after) /\ ChangeHolds(file.baseline, file.config)
    BY <1>1, <1>3 DEF Passed
  <2>4. pending' = <<new>>
    BY <1>1, <1>3
  <2>5. /\ new.baseline = file.baseline /\ new.config = file.config /\ new.accepted = TRUE
        /\ new.before = before /\ new.after = after
        /\ new = File(new.baseline, new.config, new.accepted, new.before, new.after)
    BY DEF File
  <2>6. IsCandidate(file.baseline, file.config)
    BY <1>0 DEF PendingInv
  <2> HIDE DEF new, file
  <2>7. PendingInv'
    BY <2>1, <2>4, <2>5, <2>6 DEF PendingInv
  <2> QED BY <1>0, <2>7, LineageKept DEF Inv
<1> QED BY <1>2, <1>3

\* Every step keeps the invariant.
LEMMA Inductive == Inv /\ [Next]_vars => Inv'
<1>1. ASSUME Inv, Discard PROVE Inv'
  BY <1>1, LineageKept DEF Inv, Discard, PendingInv
<1>2. ASSUME Inv, UNCHANGED vars PROVE Inv'
  <2>1. PendingInv'
    BY <1>2 DEF Inv, PendingInv, vars
  <2> QED BY <1>2, <2>1, LineageKept DEF Inv, vars
<1> QED BY <1>1, <1>2, SubmitKeeps, GateKeeps, PromoteKeeps, RollbackKeeps DEF Next

\* The inductive invariant holds in every reachable state.
LEMMA Invariant == Spec => []Inv
BY Initially, Inductive, PTL DEF Spec

-----------------------------------------------------------------------------
\* The theorems.

\* Whatever was proposed, loaded, gated, promoted and rolled back, the version in
\* force descends from the composed one in gated rounds.
THEOREM LineageGoverned == Spec => []LineageIsGoverned
<1>1. Inv => LineageIsGoverned
  <2> SUFFICES ASSUME Inv, NEW i \in DOMAIN lineage
      PROVE  /\ lineage[i].config.parent = IF i = 1 THEN <<>> ELSE <<lineage[i - 1].config>>
             /\ \A f \in Identity : lineage[i].config[f] = lineage[1].config[f]
             /\ Cardinality(ChangedPrimitives(lineage[1].config, lineage[i].config))
                  <= (i - 1) * Policy.max_changed_primitives
    BY DEF LineageIsGoverned
  <2>1. lineage[i].config.parent = IF i = 1 THEN <<>> ELSE <<lineage[i - 1].config>>
    BY DEF Inv, LineageInv, Promoted, IsCandidate
  <2> QED BY <2>1 DEF Inv, DescentInv, Descends
<1> QED BY <1>1, Invariant, PTL

\* The memory of the composed version fits its level, and so does that of every
\* later one that has not been given another.
THEOREM MemoryFits == Spec => []MemoryFitsLevel
<1>1. Inv => MemoryFitsLevel
  <2> SUFFICES ASSUME Inv, NEW i \in DOMAIN lineage,
                      lineage[i].config.memory = lineage[1].config.memory
      PROVE  Fits(lineage[i].config)
    BY DEF MemoryFitsLevel, Fits
  <2>1. Fits(lineage[1].config) /\ \A f \in Identity : lineage[i].config[f] = lineage[1].config[f]
    BY DEF Inv, LineageInv, DescentInv, Descends
  <2>2. lineage[i].config.flow = lineage[1].config.flow
    BY <2>1 DEF Identity
  <2>3. lineage[i].config.task_level = lineage[1].config.task_level
    BY <2>1 DEF Identity
  <2> DEFINE c == lineage[i].config
             first == lineage[1].config
  <2>4. c.memory = first.memory /\ c.flow = first.flow /\ c.task_level = first.task_level
    BY <2>2, <2>3
  <2> HIDE DEF c, first
  <2>5. Fits(first) => Fits(c)
    BY <2>4 DEF Fits
  <2> QED BY <2>1, <2>5 DEF c, first
<1> QED BY <1>1, Invariant, PTL

\* Any number of rounds, each gated with what the one before had measured, loses no
\* more quality than the tolerances of its rounds add up to, none of the regression
\* suite, and has succeeded; its cost has grown by no more than those of its rounds
\* compound to.
THEOREM RoundsKeepQuality == Spec => []RoundsDoNotErode
<1>1. Inv => RoundsDoNotErode
  <2> SUFFICES ASSUME Inv, NEW i \in DOMAIN lineage, i > 1, MeasuredOnce(i)
      PROVE  /\ lineage[i].after.success
             /\ QualityKept(i - 1, lineage[1].after, lineage[i].after)
             /\ CostKept(i - 1, lineage[1].after, lineage[i].after)
    BY DEF RoundsDoNotErode
  <2>1. i \in Nat /\ i # 1
    BY LenProperties DEF Inv, LineageInv
  <2>2. Promoted(lineage[i - 1], lineage[i]) /\ Descends(i)
    BY <2>1 DEF Inv, LineageInv, DescentInv
  <2> QED BY <2>2 DEF Promoted, Passed, Descends
<1> QED BY <1>1, Invariant, PTL

-----------------------------------------------------------------------------
\* Flow graphs.

\* The trail of a run.

Lines == {trail[i] : i \in DOMAIN trail}

TrailInv == trail \in Seq(Lines) /\ (open => trail # <<>>) /\ StageIsEarned

\* Clean: the trail reads, and the graph is the one the run began with.
Clean == Spoilt \notin Lines /\ ~replaced

\* A line is written: the trail stays one, and if it can be read afterwards, it could
\* be read before and the line is its last.
LEMMA WrittenLine ==
  ASSUME trail \in Seq(Lines), open => trail # <<>>, NEW line, NEW cut, Write(line, cut)
  PROVE  /\ trail' \in Seq(Lines') /\ trail' # <<>>
         /\ Spoilt \notin Lines' =>
              /\ Spoilt \notin Lines /\ line # Spoilt
              /\ Len(trail) \in Nat /\ DOMAIN trail = 1..Len(trail)
              /\ DOMAIN trail' = 1..(Len(trail) + 1)
              /\ \A i \in 1..Len(trail) : trail'[i] = trail[i]
              /\ trail'[Len(trail) + 1] = line
<1> DEFINE S == Lines \cup {line, Spoilt}
<1>0. Len(trail) \in Nat /\ DOMAIN trail = 1..Len(trail) /\ trail \in Seq(S)
  BY LenProperties, SeqDef
<1>1. CASE ~open
  <2>1. trail' = Append(trail, line) /\ line \in S
    BY <1>1 DEF Write
  <2>2. /\ trail' \in Seq(S) /\ DOMAIN trail' = 1..(Len(trail) + 1)
        /\ \A i \in 1..Len(trail) : trail'[i] = trail[i]
        /\ trail'[Len(trail) + 1] = line /\ trail' # <<>>
    <3> HIDE DEF S
    <3> QED BY <1>0, <2>1, AppendProperties
  <2>3. trail' \in Seq(Lines')
    <3> HIDE DEF S
    <3> QED BY <2>2, SeqOfItsElements DEF Lines
  <2>4. Lines \cup {line} \subseteq Lines'
    BY <1>0, <2>2 DEF Lines
  <2> QED BY <1>0, <2>2, <2>3, <2>4
<1>2. CASE open
  <2>1. trail' = Append(Front(trail), Spoilt)
    BY <1>2 DEF Write
  <2>2. Front(trail) \in Seq(S) /\ Spoilt \in S
    <3>1. Len(trail) - 1 \in 0..Len(trail)
      BY <1>0, <1>2, EmptySeq, LenProperties
    <3> HIDE DEF S
    <3> QED BY <1>0, <3>1, SubSeqProperties DEF Front, S
  <2>3. /\ trail' \in Seq(S) /\ Len(Front(trail)) \in Nat /\ trail' # <<>>
        /\ DOMAIN trail' = 1..(Len(Front(trail)) + 1) /\ trail'[Len(Front(trail)) + 1] = Spoilt
    <3> HIDE DEF S
    <3> QED BY <2>1, <2>2, AppendProperties, LenProperties
  <2>4. trail' \in Seq(Lines')
    <3> HIDE DEF S
    <3> QED BY <2>3, SeqOfItsElements DEF Lines
  <2>5. Spoilt \in Lines'
    BY <2>3 DEF Lines
  <2> QED BY <2>3, <2>4, <2>5
<1> QED BY <1>1, <1>2

\* What earned a stage is still there when the trail is longer.
LEMMA StillEarned ==
  ASSUME NEW g, document = g, NEW s, NEW old, NEW new, DOMAIN old \subseteq DOMAIN new,
         \A i \in DOMAIN old : new[i] = old[i], EarnedBy(old, s)
  PROVE  EarnedBy(new, s)
BY DEF EarnedBy

\* The first lines of a trail.
LEMMA Begins ==
  ASSUME NEW S, NEW s \in Seq(S), NEW k \in 0..Len(s)
  PROVE  DOMAIN SubSeq(s, 1, k) = 1..k /\ \A i \in 1..k : SubSeq(s, 1, k)[i] = s[i]
BY LenProperties, SubSeqProperties

\* A new line that can be read, of a run whose graph was not replaced, was asked at a
\* stage the trail had earned; what it leads to, it earned.
LEMMA LineKeeps ==
  ASSUME TrailInv, NEW line, NEW cut, Write(line, cut), line.stage = stage,
         UNCHANGED <<document, replaced>>,
         \/ stage' = stage
         \/ stage' = line.next /\ document.nodes[stage].gate \subseteq line.artifacts
  PROVE  TrailInv'
<1>0. trail \in Seq(Lines) /\ trail' \in Seq(Lines') /\ trail' # <<>> /\ (open => trail # <<>>)
  BY WrittenLine DEF TrailInv
<1> SUFFICES ASSUME Clean'
             PROVE  /\ EarnedBy(trail, stage)'
                    /\ \A i \in DOMAIN trail' : EarnedBy(SubSeq(trail, 1, i - 1), trail[i].stage)'
  BY <1>0 DEF TrailInv, StageIsEarned, Clean, Lines, ToSet
<1> DEFINE n == Len(trail)
<1>1. /\ Clean /\ n \in Nat /\ DOMAIN trail = 1..n /\ DOMAIN trail' = 1..(n + 1)
      /\ \A i \in 1..n : trail'[i] = trail[i]
      /\ trail'[n + 1] = line
  BY <1>0, WrittenLine DEF Clean
<1>2. /\ EarnedBy(trail, stage)
      /\ \A i \in 1..n : EarnedBy(SubSeq(trail, 1, i - 1), trail[i].stage)
  BY <1>1 DEF TrailInv, StageIsEarned, Clean, Lines, ToSet
<1>3. EarnedBy(trail, stage)'
  BY <1>1, <1>2 DEF EarnedBy
<1>4. ASSUME NEW i \in 1..(n + 1)
      PROVE  EarnedBy(SubSeq(trail, 1, i - 1), trail[i].stage)'
  <2>1. Len(trail') = n + 1 /\ i - 1 \in 0..n
    BY <1>0, <1>1, LenProperties
  <2>2. /\ DOMAIN SubSeq(trail', 1, i - 1) = 1..(i - 1)
        /\ \A k \in 1..(i - 1) : SubSeq(trail', 1, i - 1)[k] = trail[k]
    BY <1>0, <1>1, <2>1, Begins
  <2>3. CASE i = n + 1
    BY <1>1, <1>2, <2>2, <2>3 DEF EarnedBy
  <2>4. CASE i # n + 1
    <3>1. /\ i \in 1..n /\ DOMAIN SubSeq(trail, 1, i - 1) = 1..(i - 1)
          /\ \A k \in 1..(i - 1) : SubSeq(trail, 1, i - 1)[k] = trail[k]
      BY <1>0, <1>1, <2>1, <2>4, Begins
    <3>2. EarnedBy(SubSeq(trail, 1, i - 1), trail[i].stage)
      BY <1>2, <3>1
    <3> QED BY <1>1, <2>2, <3>1, <3>2 DEF EarnedBy
  <2> QED BY <2>3, <2>4
<1> QED BY <1>1, <1>3, <1>4

\* The gate of a stage that is left is in place.
LEMMA LeavesWithGate ==
  ASSUME Callable, NEW decision, decision = Route(FromDict(document), stage, present, flags),
         decision.next # NoStage
  PROVE  document.nodes[stage].gate \subseteq present
<1>1. FromDict(document).nodes[stage].gate = document.nodes[stage].gate
  BY DEF Callable, FromDict
<1>2. FromDict(document).nodes[stage].gate \ present = {}
  BY DEF Route, Decision
<1> QED BY <1>1, <1>2

LEMMA TrailInductive == TrailInv /\ [RunNext]_runVars => TrailInv'
<1> SUFFICES ASSUME TrailInv, [RunNext]_runVars PROVE TrailInv'
  OBVIOUS
<1> DEFINE decision == Route(FromDict(document), stage, present, flags)
           line == LineOf(decision)
<1>0. line.stage = stage /\ line.artifacts = present /\ line.next = decision.next
  BY DEF LineOf
<1>1. CASE RecordRoute
  <2>1. /\ Callable /\ Write(line, FALSE) /\ UNCHANGED <<document, replaced>>
        /\ stage' = IF decision.next = NoStage THEN stage ELSE decision.next
    BY <1>1 DEF RecordRoute
  <2> HIDE DEF line
  <2>2. stage' = stage \/ (stage' = line.next /\ document.nodes[stage].gate \subseteq line.artifacts)
    BY <1>0, <2>1, LeavesWithGate
  <2> QED BY <1>0, <2>1, <2>2, LineKeeps
<1>2. CASE RecordCut
  <2>1. UNCHANGED <<document, replaced, stage>>
    BY <1>2 DEF RecordCut
  <2>2. (\E cut \in BOOLEAN : Write(line, cut)) \/ Write(Spoilt, TRUE)
    BY <1>2 DEF RecordCut
  <2> HIDE DEF line
  <2>3. ASSUME NEW cut \in BOOLEAN, Write(line, cut) PROVE TrailInv'
    BY <1>0, <2>1, <2>3, LineKeeps
  <2>4. CASE Write(Spoilt, TRUE)
    BY <2>4, WrittenLine DEF TrailInv, StageIsEarned, Lines, ToSet
  <2> QED BY <2>2, <2>3, <2>4
<1>3. CASE UNCHANGED <<document, replaced, stage, trail, open>>
  BY <1>3 DEF TrailInv, StageIsEarned, EarnedBy, Lines
<1>4. CASE Replace
  BY <1>4 DEF Replace, TrailInv, StageIsEarned, Lines
<1> QED BY <1>1, <1>2, <1>3, <1>4 DEF RunNext, runVars, Produce, SetFlag

\* A trail that reads cleanly accounts for where a run is.
THEOREM StageEarned == RunSpec => []StageIsEarned
<1>1. RunInit => TrailInv
  BY EmptySeq DEF RunInit, TrailInv, StageIsEarned, EarnedBy, Lines
<1>2. TrailInv => StageIsEarned
  BY DEF TrailInv
<1> QED BY <1>1, <1>2, TrailInductive, PTL DEF RunSpec

-----------------------------------------------------------------------------
\* What a path of edges reaches.

IsGraph(g) ==
  /\ IsFiniteSet(DOMAIN g.nodes)
  /\ \A n \in DOMAIN g.nodes : g.nodes[n].edges \in Seq([to: STRING, when: STRING, want: BOOLEAN])

\* What the worklist may hold: stages, and names that may or may not be one.
Names(g) == STRING \cup {g.start}
Worklists(g) == [found: SUBSET DOMAIN g.nodes, pending: Seq(Names(g))]

Targets(g, n) == [i \in DOMAIN g.nodes[n].edges |-> g.nodes[n].edges[i].to]
PlacesOf(g, F) == UNION {{n} \X DOMAIN g.nodes[n].edges : n \in F}

\* The documents are graphs when they are read.
LEMMA Read ==
  ASSUME NEW d \in Documents
  PROVE  IsGraph(FromDict(d)) /\ DOMAIN FromDict(d).nodes = DOMAIN d.nodes
<1>1. /\ DOMAIN FromDict(d).nodes = DOMAIN d.nodes
      /\ \A n \in DOMAIN d.nodes : FromDict(d).nodes[n].edges = Edges(d.nodes[n])
  BY DEF FromDict
<1> QED BY <1>1, RoutingAssumption DEF IsGraph

\* What a stage pushes is as long as the list of its edges.
LEMMA TargetsTyped ==
  ASSUME NEW g, IsGraph(g), NEW n \in DOMAIN g.nodes
  PROVE  /\ Targets(g, n) \in Seq(Names(g)) /\ Len(Targets(g, n)) = Len(g.nodes[n].edges)
         /\ Len(g.nodes[n].edges) \in Nat /\ DOMAIN g.nodes[n].edges = 1..Len(g.nodes[n].edges)
<1> DEFINE edges == g.nodes[n].edges
           E == [to: STRING, when: STRING, want: BOOLEAN]
<1>1. edges \in Seq(E)
  BY DEF IsGraph
<1>2. Len(edges) \in Nat /\ DOMAIN edges = 1..Len(edges) /\ edges \in [1..Len(edges) -> E]
  <2> HIDE DEF edges, E
  <2> QED BY <1>1, LenProperties
<1> HIDE DEF edges
<1>3. [i \in DOMAIN edges |-> edges[i].to] \in [1..Len(edges) -> Names(g)]
  BY <1>2 DEF Names
<1> DEFINE targets == [i \in DOMAIN edges |-> edges[i].to]
<1>4. targets \in Seq(Names(g)) /\ DOMAIN targets = 1..Len(edges)
  BY <1>2, <1>3, SeqDef
<1>5. Len(targets) = Len(edges)
  <2> HIDE DEF targets
  <2> QED BY <1>2, <1>4, LenProperties
<1> QED BY <1>2, <1>4, <1>5 DEF edges, Targets

\* What is left of a sequence without its last element.
LEMMA FrontOfSeq ==
  ASSUME NEW S, NEW s \in Seq(S), s # <<>>
  PROVE  /\ Front(s) \in Seq(S) /\ Len(s) \in Nat /\ Len(s) > 0 /\ Len(Front(s)) = Len(s) - 1
         /\ Range(s) = Range(Front(s)) \cup {Last(s)}
<1> DEFINE n == Len(s)
           rest == Front(s)
<1>1. n \in Nat /\ n > 0 /\ DOMAIN s = 1..n /\ s \in [1..n -> S]
  BY LenProperties, EmptySeq
<1>2. /\ rest \in Seq(S) /\ Len(rest) = IF 1 <= n - 1 THEN n - 1 - 1 + 1 ELSE 0
      /\ \A i \in 1..(n - 1 - 1 + 1) : rest[i] = s[1 + i - 1]
  BY <1>1, SubSeqProperties DEF Front
<1> HIDE DEF n, rest
<1>3. Len(rest) = n - 1 /\ DOMAIN rest = 1..(n - 1)
  BY <1>1, <1>2, LenProperties
<1>4. \A i \in 1..(n - 1) : rest[i] = s[i]
  <2>1. \A i \in 1..(n - 1) : i \in 1..(n - 1 - 1 + 1) /\ 1 + i - 1 = i
    BY <1>1
  <2> QED BY <1>2, <2>1
<1>5. \A i \in 1..n : i \in 1..(n - 1) \/ i = n
  BY <1>1
<1>6. n \in 1..n /\ \A i \in 1..(n - 1) : i \in 1..n
  BY <1>1
<1>7. Range(s) = Range(rest) \cup {s[n]}
  BY <1>1, <1>3, <1>4, <1>5, <1>6 DEF Range
<1> QED BY <1>1, <1>2, <1>3, <1>7 DEF Last, n, rest

\* One iteration drops the name pushed last, or finds it as a stage.
Drops(g, w, new, current) ==
  /\ current \in w.found \/ current \notin DOMAIN g.nodes
  /\ new.found = w.found
  /\ Range(w.pending) = Range(new.pending) \cup {current}
  /\ Len(new.pending) = Len(w.pending) - 1

Finds(g, w, new, current) ==
  /\ current \notin w.found /\ current \in DOMAIN g.nodes
  /\ new.found = w.found \cup {current}
  /\ Range(new.pending) \cup {current} = Range(w.pending) \cup Range(Targets(g, current))
  /\ Len(new.pending) = Len(w.pending) - 1 + Len(g.nodes[current].edges)

LEMMA Visited ==
  ASSUME NEW g, IsGraph(g), NEW w \in Worklists(g), w.pending # <<>>,
         NEW new, new = Visit(g, w)
  PROVE  /\ new \in Worklists(g) /\ Len(w.pending) \in Nat /\ Len(new.pending) \in Nat
         /\ \E current \in Range(w.pending) : Drops(g, w, new, current) \/ Finds(g, w, new, current)
<1> DEFINE current == Last(w.pending)
           rest == Front(w.pending)
<1>1. w.pending \in Seq(Names(g)) /\ w.found \in SUBSET DOMAIN g.nodes
  BY DEF Worklists
<1>2. /\ rest \in Seq(Names(g)) /\ Len(w.pending) \in Nat /\ Len(w.pending) > 0
      /\ Len(rest) = Len(w.pending) - 1
      /\ Range(w.pending) = Range(rest) \cup {current}
  BY <1>1, FrontOfSeq
<1>3. current \in Range(w.pending)
  BY <1>2
<1>4. new = IF current \in w.found \/ current \notin DOMAIN g.nodes
              THEN [w EXCEPT !.pending = rest]
              ELSE [found |-> w.found \cup {current}, pending |-> rest \o Targets(g, current)]
  BY DEF Visit, Targets
<1> HIDE DEF rest, current
<1>5. CASE current \in w.found \/ current \notin DOMAIN g.nodes
  <2>1. new = [w EXCEPT !.pending = rest]
    BY <1>4, <1>5
  <2>2. new.found = w.found /\ new.pending = rest /\ new \in Worklists(g)
    BY <1>1, <1>2, <2>1 DEF Worklists
  <2>3. Len(new.pending) = Len(w.pending) - 1 /\ Len(new.pending) \in Nat
    BY <1>2, <2>2
  <2>4. Drops(g, w, new, current)
    BY <1>2, <1>5, <2>2, <2>3 DEF Drops
  <2> QED BY <1>2, <1>3, <2>2, <2>3, <2>4
<1>6. CASE ~(current \in w.found \/ current \notin DOMAIN g.nodes)
  <2>1. new = [found |-> w.found \cup {current}, pending |-> rest \o Targets(g, current)]
    BY <1>4, <1>6
  <2>2. /\ Targets(g, current) \in Seq(Names(g)) /\ Len(g.nodes[current].edges) \in Nat
        /\ Len(Targets(g, current)) = Len(g.nodes[current].edges)
    BY <1>6, TargetsTyped
  <2>3. new.found = w.found \cup {current} /\ new.pending = rest \o Targets(g, current)
    BY <2>1
  <2> DEFINE targets == Targets(g, current)
  <2> HIDE DEF targets
  <2>t. targets \in Seq(Names(g)) /\ new.pending = rest \o targets
    BY <2>2, <2>3 DEF targets
  <2>4. /\ new.pending \in Seq(Names(g)) /\ Len(new.pending) = Len(rest) + Len(targets)
        /\ Range(new.pending) = Range(rest) \cup Range(targets)
    <3>1. rest \o targets \in Seq(Names(g)) /\ Len(rest \o targets) = Len(rest) + Len(targets)
      BY <1>2, <2>t, ConcatProperties
    <3>2. Range(rest \o targets) = Range(rest) \cup Range(targets)
      BY <1>2, <2>t, RangeConcatenation
    <3> QED BY <2>t, <3>1, <3>2
  <2>5. new \in Worklists(g)
    BY <1>1, <1>6, <2>1, <2>3, <2>4 DEF Worklists
  <2>6. Len(new.pending) = Len(w.pending) - 1 + Len(g.nodes[current].edges) /\ Len(new.pending) \in Nat
    <3>1. Len(targets) = Len(g.nodes[current].edges)
      BY <2>2 DEF targets
    <3>2. Len(rest) = Len(w.pending) - 1 /\ Len(w.pending) \in Nat /\ Len(w.pending) > 0
      BY <1>2
    <3>3. Len(new.pending) = Len(rest) + Len(targets)
      BY <2>4
    <3>4. Len(g.nodes[current].edges) \in Nat
      BY <2>2
    <3> DEFINE a == Len(w.pending)
               b == Len(rest)
               c == Len(targets)
               d == Len(g.nodes[current].edges)
               e == Len(new.pending)
    <3>5. c = d /\ b = a - 1 /\ a \in Nat /\ a > 0 /\ e = b + c /\ d \in Nat
      BY <3>1, <3>2, <3>3, <3>4
    <3> HIDE DEF a, b, c, d, e
    <3>6. e = a - 1 + d /\ e \in Nat
      BY <3>5
    <3> QED BY <3>6 DEF a, d, e
  <2>7. Range(new.pending) \cup {current} = Range(w.pending) \cup Range(Targets(g, current))
    BY <1>2, <2>4 DEF targets
  <2>8. Finds(g, w, new, current)
    BY <1>6, <2>3, <2>6, <2>7 DEF Finds
  <2> QED BY <1>2, <1>3, <2>5, <2>6, <2>8
<1> QED BY <1>5, <1>6

\* A stage that is found adds its edges to those the worklist has been through.
LEMMA PlacesGrow ==
  ASSUME NEW g, IsGraph(g), NEW F \in SUBSET DOMAIN g.nodes
  PROVE  /\ IsFiniteSet(PlacesOf(g, F)) /\ Cardinality(PlacesOf(g, F)) \in Nat
         /\ Cardinality(PlacesOf(g, F)) <= Cardinality(Places(g))
         /\ \A n \in DOMAIN g.nodes \ F :
              Cardinality(PlacesOf(g, F \cup {n})) = Cardinality(PlacesOf(g, F)) + Len(g.nodes[n].edges)
<1> DEFINE P(n) == {n} \X DOMAIN g.nodes[n].edges
<1>1. ASSUME NEW n \in DOMAIN g.nodes
      PROVE  IsFiniteSet(P(n)) /\ Cardinality(P(n)) = Len(g.nodes[n].edges)
  <2>1. Len(g.nodes[n].edges) \in Nat /\ DOMAIN g.nodes[n].edges = 1..Len(g.nodes[n].edges)
    BY TargetsTyped
  <2> DEFINE D == DOMAIN g.nodes[n].edges
             m == Len(g.nodes[n].edges)
  <2>2. IsFiniteSet(D) /\ Cardinality(D) = m
    <3> HIDE DEF m
    <3>1. IsFiniteSet(1..m) /\ Cardinality(1..m) = IF 1 > m THEN 0 ELSE m - 1 + 1
      BY <2>1, FS_Interval DEF m
    <3> QED BY <2>1, <3>1 DEF m
  <2>3. IsFiniteSet({n}) /\ Cardinality({n}) = 1
    BY FS_Singleton
  <2>4. IsFiniteSet({n} \X D) /\ Cardinality({n} \X D) = 1 * m
    <3> HIDE DEF D, m
    <3> QED BY <2>2, <2>3, FS_Product
  <2> QED BY <2>1, <2>4
<1>2. ASSUME NEW H \in SUBSET DOMAIN g.nodes
      PROVE  IsFiniteSet(PlacesOf(g, H)) /\ Cardinality(PlacesOf(g, H)) \in Nat
  <2> DEFINE all == {P(n) : n \in H}
  <2>1. IsFiniteSet(H)
    BY FS_Subset DEF IsGraph
  <2>2. IsFiniteSet(all)
    <3> DEFINE f == [n \in H |-> P(n)]
    <3>1. f \in Surjection(H, all)
      <4> HIDE DEF P
      <4> QED BY DEF Surjection
    <3> HIDE DEF f, all
    <3> QED BY <2>1, <3>1, FS_Surjection
  <2>3. \A T \in all : IsFiniteSet(T)
    BY <1>1
  <2>4. IsFiniteSet(UNION all)
    <3> HIDE DEF all
    <3> QED BY <2>2, <2>3, FS_UNION
  <2>5. PlacesOf(g, H) = UNION all
    BY DEF PlacesOf
  <2> QED BY <2>4, <2>5, FS_CardinalityType
<1>3. PlacesOf(g, DOMAIN g.nodes) = Places(g)
  BY DEF PlacesOf, Places
<1>4. PlacesOf(g, F) \subseteq PlacesOf(g, DOMAIN g.nodes)
  BY DEF PlacesOf
<1>5. Cardinality(PlacesOf(g, F)) <= Cardinality(Places(g))
  BY <1>2, <1>3, <1>4, FS_Subset
<1>6. ASSUME NEW n \in DOMAIN g.nodes \ F
      PROVE  Cardinality(PlacesOf(g, F \cup {n})) = Cardinality(PlacesOf(g, F)) + Len(g.nodes[n].edges)
  <2>1. PlacesOf(g, F \cup {n}) = PlacesOf(g, F) \cup P(n)
    BY DEF PlacesOf
  <2>2. PlacesOf(g, F) \cap P(n) = {}
    BY DEF PlacesOf
  <2> DEFINE A == PlacesOf(g, F)
             B == P(n)
  <2>3. IsFiniteSet(A) /\ IsFiniteSet(B) /\ Cardinality(B) = Len(g.nodes[n].edges) /\ Cardinality(A) \in Nat
    BY <1>1, <1>2
  <2>4. A \cap B = {}
    BY <2>2
  <2> HIDE DEF A, B
  <2>5. Cardinality(A \cup B) = Cardinality(A) + Cardinality(B) - Cardinality(A \cap B)
    BY <2>3, FS_Union
  <2>6. Cardinality(A \cap B) = 0
    BY <2>4, FS_EmptySet
  <2>7. Len(g.nodes[n].edges) \in Nat
    BY TargetsTyped
  <2>8. Cardinality(A \cup B) = Cardinality(A) + Len(g.nodes[n].edges)
    BY <2>3, <2>5, <2>6, <2>7
  <2> QED BY <2>1, <2>8 DEF A, B
<1> QED BY <1>2, <1>5, <1>6

\* The recursive function is what its equations say, and stays a worklist.
LEMMA WorkSteps ==
  ASSUME NEW g, IsGraph(g)
  PROVE  /\ Work(g)[0] = [found |-> {}, pending |-> <<g.start>>]
         /\ \A k \in Nat : Work(g)[k] \in Worklists(g) /\ Work(g)[k + 1] = Visit(g, Work(g)[k])
<1> DEFINE begin == [found |-> {}, pending |-> <<g.start>>]
           Step(f) == [k \in Nat |-> IF k = 0 THEN begin ELSE Visit(g, f[k - 1])]
           S == Worklists(g)
           step == [w \in S |-> Visit(g, w)]
<1>1. begin \in S
  BY DEF Worklists, Names
<1>2. ASSUME NEW w \in S PROVE Visit(g, w) \in S
  <2>1. CASE w.pending = <<>>
    BY <2>1 DEF Visit
  <2>2. CASE w.pending # <<>>
    BY <2>2, Visited
  <2> QED BY <2>1, <2>2
<1>3. \E f : f = Step(f)
  <2>1. step \in [S -> S]
    BY <1>2
  <2>2. PICK f \in [Nat -> S] : f[0] = begin /\ \A n \in Nat : f[n + 1] = step[f[n]]
    <3> HIDE DEF S, step, begin
    <3> QED BY <1>1, <2>1, Iteration
  <2>3. ASSUME NEW k \in Nat PROVE f[k] = IF k = 0 THEN begin ELSE Visit(g, f[k - 1])
    <3>1. CASE k = 0
      BY <2>2, <3>1
    <3>2. CASE k # 0
      <4>1. k - 1 \in Nat /\ k - 1 + 1 = k
        BY <3>2
      <4>2. f[k] = step[f[k - 1]] /\ f[k - 1] \in S
        BY <2>2, <4>1
      <4> QED BY <3>2, <4>2
    <3> QED BY <3>1, <3>2
  <2> QED BY <2>2, <2>3
<1>4. Work(g) = CHOOSE f : f = Step(f)
  BY DEF Work
<1>5. Work(g) = Step(Work(g))
  <2> HIDE DEF Step
  <2> QED BY <1>3, <1>4
<1>6. Work(g)[0] = begin
  BY <1>5
<1>7. ASSUME NEW k \in Nat PROVE Work(g)[k + 1] = Visit(g, Work(g)[k])
  <2>1. k + 1 \in Nat /\ k + 1 # 0 /\ k + 1 - 1 = k
    OBVIOUS
  <2> QED BY <1>5, <2>1
<1> DEFINE T == {k \in Nat : Work(g)[k] \in S}
<1>8. 0 \in T
  BY <1>1, <1>6
<1>9. ASSUME NEW k \in T PROVE k + 1 \in T
  <2> HIDE DEF S
  <2> QED BY <1>2, <1>7
<1>10. T = Nat
  <2>1. T \subseteq Nat
    OBVIOUS
  <2> HIDE DEF T
  <2> QED BY <1>8, <1>9, <2>1, Counting
<1> QED BY <1>6, <1>7, <1>10

\* Where the worklist is after k iterations: whatever it found or has pending and is a
\* stage lies in every set that holds the start and is closed under edges; every target
\* of what it found is found or pending; and unless nothing is pending, each iteration has
\* taken one of the names pushed so far.
Searched(g, k) ==
  LET w == Work(g)[k] IN
  /\ \A C \in SUBSET DOMAIN g.nodes :
       (g.start \in C /\ \A n \in C : Range(Targets(g, n)) \cap DOMAIN g.nodes \subseteq C)
         => (w.found \cup Range(w.pending)) \cap DOMAIN g.nodes \subseteq C
  /\ g.start \in w.found \cup Range(w.pending)
  /\ \A n \in w.found : Range(Targets(g, n)) \cap DOMAIN g.nodes \subseteq w.found \cup Range(w.pending)
  /\ w.pending # <<>> => k + Len(w.pending) = 1 + Cardinality(PlacesOf(g, w.found))

LEMMA SearchInductive ==
  ASSUME NEW g, IsGraph(g), g.start \in DOMAIN g.nodes
  PROVE  \A k \in Nat : Searched(g, k)
<1> DEFINE T == {k \in Nat : Searched(g, k)}
<1>1. Searched(g, 0)
  <2> DEFINE w == Work(g)[0]
             one == <<g.start>>
  <2>1. w.found = {} /\ w.pending = one
    <3>1. Work(g)[0] = [found |-> {}, pending |-> one]
      BY WorkSteps
    <3> HIDE DEF one
    <3> QED BY <3>1
  <2>2. one \in Seq({g.start}) /\ Len(one) = 1 /\ Range(one) = {g.start}
    BY DEF Range
  <2>3. Cardinality(PlacesOf(g, {})) = 0
    <3>1. PlacesOf(g, {}) = {}
      BY DEF PlacesOf
    <3> QED BY <3>1, FS_EmptySet
  <2> HIDE DEF w, one
  <2>4. 0 + Len(w.pending) = 1 + Cardinality(PlacesOf(g, w.found))
    BY <2>1, <2>2, <2>3
  <2>5. /\ \A C \in SUBSET DOMAIN g.nodes : g.start \in C => (w.found \cup Range(w.pending)) \cap DOMAIN g.nodes \subseteq C
        /\ g.start \in w.found \cup Range(w.pending)
        /\ w.found = {}
    BY <2>1, <2>2
  <2> QED BY <2>4, <2>5 DEF Searched, w
<1>2. ASSUME NEW k \in T PROVE k + 1 \in T
  <2> DEFINE w == Work(g)[k]
             new == Work(g)[k + 1]
  <2>1. k \in Nat /\ k + 1 \in Nat /\ Searched(g, k)
    OBVIOUS
  <2>2. w \in Worklists(g) /\ new = Visit(g, w)
    BY <2>1, WorkSteps
  <2>3. CASE w.pending = <<>>
    <3>1. new = w
      BY <2>2, <2>3 DEF Visit
    <3> QED BY <2>1, <2>3, <3>1 DEF Searched
  <2>4. CASE w.pending # <<>>
    <3> HIDE DEF w, new
    <3>1. Len(w.pending) \in Nat /\ Len(new.pending) \in Nat
      BY <2>2, <2>4, Visited
    <3>2. w.found \in SUBSET DOMAIN g.nodes
      BY <2>2 DEF Worklists
    <3>3. /\ \A C \in SUBSET DOMAIN g.nodes :
               (g.start \in C /\ \A n \in C : Range(Targets(g, n)) \cap DOMAIN g.nodes \subseteq C)
                 => (w.found \cup Range(w.pending)) \cap DOMAIN g.nodes \subseteq C
          /\ g.start \in w.found \cup Range(w.pending)
          /\ \A n \in w.found : Range(Targets(g, n)) \cap DOMAIN g.nodes \subseteq w.found \cup Range(w.pending)
          /\ k + Len(w.pending) = 1 + Cardinality(PlacesOf(g, w.found))
      BY <2>1, <2>4 DEF Searched, w
    <3>4. PICK current \in Range(w.pending) : Drops(g, w, new, current) \/ Finds(g, w, new, current)
      BY <2>2, <2>4, Visited
    <3>5. CASE Drops(g, w, new, current)
      <4>1. (w.found \cup Range(w.pending)) \cap DOMAIN g.nodes = (new.found \cup Range(new.pending)) \cap DOMAIN g.nodes
        BY <3>2, <3>5 DEF Drops
      <4>2. k + 1 + Len(new.pending) = 1 + Cardinality(PlacesOf(g, new.found))
        <5> DEFINE a == Len(w.pending)
                   b == Len(new.pending)
                   c == Cardinality(PlacesOf(g, w.found))
        <5>1. k \in Nat /\ a \in Nat /\ b = a - 1 /\ k + a = 1 + c /\ c \in Nat /\ new.found = w.found
          BY <2>1, <3>1, <3>2, <3>3, <3>5, PlacesGrow DEF Drops
        <5> HIDE DEF a, b, c
        <5>2. k + 1 + b = 1 + c
          BY <5>1
        <5> QED BY <5>1, <5>2 DEF b, c
      <4>3. g.start \in new.found \cup Range(new.pending)
        BY <3>3, <4>1
      <4>4. \A n \in new.found : Range(Targets(g, n)) \cap DOMAIN g.nodes \subseteq new.found \cup Range(new.pending)
        BY <3>2, <3>3, <3>5, <4>1 DEF Drops
      <4>5. Searched(g, k + 1)
        BY <3>3, <4>1, <4>2, <4>3, <4>4 DEF Searched, new
      <4> QED BY <2>1, <4>5
    <3>6. CASE Finds(g, w, new, current)
      <4>1. new.found \cup Range(new.pending) = w.found \cup Range(w.pending) \cup Range(Targets(g, current))
        BY <3>6 DEF Finds
      <4>2. k + 1 + Len(new.pending) = 1 + Cardinality(PlacesOf(g, new.found))
        <5> DEFINE a == Len(w.pending)
                   b == Len(new.pending)
                   c == Cardinality(PlacesOf(g, w.found))
                   d == Len(g.nodes[current].edges)
                   e == Cardinality(PlacesOf(g, new.found))
        <5>1. k \in Nat /\ a \in Nat /\ b = a - 1 + d /\ k + a = 1 + c
          BY <2>1, <3>1, <3>3, <3>6 DEF Finds
        <5>2. e = c + d /\ c \in Nat
          BY <3>2, <3>6, PlacesGrow DEF Finds
        <5>3. d \in Nat
          BY <3>6, TargetsTyped DEF Finds
        <5> HIDE DEF a, b, c, d, e
        <5>4. k + 1 + b = 1 + e
          BY <5>1, <5>2, <5>3
        <5> QED BY <5>4 DEF b, e
      <4>3. ASSUME NEW C \in SUBSET DOMAIN g.nodes, g.start \in C,
                   \A n \in C : Range(Targets(g, n)) \cap DOMAIN g.nodes \subseteq C
            PROVE  (new.found \cup Range(new.pending)) \cap DOMAIN g.nodes \subseteq C
        <5>1. (w.found \cup Range(w.pending)) \cap DOMAIN g.nodes \subseteq C
          BY <3>3, <4>3
        <5>2. current \in C
          BY <3>6, <5>1 DEF Finds
        <5> QED BY <4>1, <4>3, <5>1, <5>2
      <4>4. g.start \in new.found \cup Range(new.pending)
        BY <3>3, <4>1
      <4>5. \A n \in new.found : Range(Targets(g, n)) \cap DOMAIN g.nodes \subseteq new.found \cup Range(new.pending)
        BY <3>3, <3>6, <4>1 DEF Finds
      <4>6. Searched(g, k + 1)
        BY <4>2, <4>3, <4>4, <4>5 DEF Searched, new
      <4> QED BY <2>1, <4>6
    <3> QED BY <3>4, <3>5, <3>6
  <2> QED BY <2>3, <2>4
<1>3. T = Nat
  <2>1. 0 \in T /\ T \subseteq Nat
    BY <1>1
  <2> HIDE DEF T
  <2> QED BY <1>2, <2>1, Counting
<1> QED BY <1>3

\* The worklist is empty when it ends.
LEMMA SearchEnds ==
  ASSUME NEW g, IsGraph(g), g.start \in DOMAIN g.nodes
  PROVE  /\ Reachable(g) \in SUBSET DOMAIN g.nodes /\ g.start \in Reachable(g)
         /\ \A n \in Reachable(g) : Range(Targets(g, n)) \cap DOMAIN g.nodes \subseteq Reachable(g)
         /\ \A C \in SUBSET DOMAIN g.nodes :
              (g.start \in C /\ \A n \in C : Range(Targets(g, n)) \cap DOMAIN g.nodes \subseteq C)
                => Reachable(g) \subseteq C
<1> DEFINE K == 1 + Cardinality(Places(g))
           w == Work(g)[K]
<1>1. K \in Nat
  <2>1. PlacesOf(g, DOMAIN g.nodes) = Places(g)
    BY DEF PlacesOf, Places
  <2>2. Cardinality(Places(g)) \in Nat
    BY <2>1, PlacesGrow
  <2> QED BY <2>2
<1>2. w \in Worklists(g) /\ Searched(g, K) /\ Reachable(g) = w.found
  BY <1>1, WorkSteps, SearchInductive DEF Reachable
<1>3. w.found \in SUBSET DOMAIN g.nodes /\ w.pending \in Seq(Names(g))
  BY <1>2 DEF Worklists
<1>4. w.pending = <<>>
  <2> SUFFICES ASSUME w.pending # <<>> PROVE FALSE
    OBVIOUS
  <2>1. K + Len(w.pending) = 1 + Cardinality(PlacesOf(g, w.found))
    BY <1>2 DEF Searched
  <2>2. /\ Cardinality(PlacesOf(g, w.found)) \in Nat
        /\ Cardinality(PlacesOf(g, w.found)) <= Cardinality(Places(g))
    BY <1>3, PlacesGrow
  <2>3. Len(w.pending) \in Nat \ {0}
    BY <1>3, EmptySeq
  <2> DEFINE a == Cardinality(Places(g))
             b == Cardinality(PlacesOf(g, w.found))
             c == Len(w.pending)
  <2>4. a \in Nat
    <3>1. PlacesOf(g, DOMAIN g.nodes) = Places(g)
      BY DEF PlacesOf, Places
    <3> QED BY <3>1, PlacesGrow
  <2>5. 1 + a + c = 1 + b /\ b \in Nat /\ b <= a /\ c \in Nat \ {0}
    BY <2>1, <2>2, <2>3
  <2> HIDE DEF a, b, c
  <2> QED BY <2>4, <2>5
<1>5. Range(w.pending) = {}
  <2>1. \A s : s = <<>> => Range(s) = {}
    BY DEF Range
  <2> QED BY <1>4, <2>1
<1> HIDE DEF K
<1> QED BY <1>2, <1>3, <1>5 DEF Searched

\* The worklist finds the least set that holds the start and is closed under edges.
LEMMA Exact ==
  ASSUME NEW g, IsGraph(g), g.start \in DOMAIN g.nodes, NEW arcs,
         arcs = {a \in Stages(g) \X Stages(g) : \E e \in EdgesOf(g, a[1]) : e.to = a[2]}
  PROVE  Reachable(g) = ClosureOf(DOMAIN g.nodes, g.start, arcs)
<1> DEFINE S == DOMAIN g.nodes
           Closed(C) == \A n \in C : Range(Targets(g, n)) \cap S \subseteq C
<1>1. ASSUME NEW n \in S, NEW m \in S
      PROVE  m \in Range(Targets(g, n)) <=> \E e \in EdgesOf(g, n) : e.to = m
  BY DEF Range, Targets, EdgesOf, ToSet
<1>2. \A n, m \in S : <<n, m>> \in arcs <=> m \in Range(Targets(g, n))
  BY <1>1 DEF Stages
<1>3. ASSUME NEW C \in SUBSET S
      PROVE  Closed(C) <=> \A a \in arcs : a[1] \in C => a[2] \in C
  <2>1. ASSUME Closed(C), NEW a \in arcs, a[1] \in C PROVE a[2] \in C
    <3>1. a = <<a[1], a[2]>> /\ a[1] \in S /\ a[2] \in S
      BY DEF Stages
    <3>2. a[2] \in Range(Targets(g, a[1]))
      BY <1>2, <3>1
    <3> QED BY <2>1, <3>1, <3>2
  <2>2. ASSUME \A a \in arcs : a[1] \in C => a[2] \in C, NEW n \in C, NEW m \in Range(Targets(g, n)) \cap S
        PROVE  m \in C
    <3>1. <<n, m>> \in arcs
      BY <1>2
    <3> QED BY <2>2, <3>1
  <2> QED BY <2>1, <2>2
<1>4. /\ Reachable(g) \in SUBSET S /\ g.start \in Reachable(g) /\ Closed(Reachable(g))
      /\ \A C \in SUBSET S : g.start \in C /\ Closed(C) => Reachable(g) \subseteq C
  BY SearchEnds
<1> HIDE DEF Closed
<1>5. ASSUME NEW n \in ClosureOf(S, g.start, arcs) PROVE n \in Reachable(g)
  <2>1. \A a \in arcs : a[1] \in Reachable(g) => a[2] \in Reachable(g)
    BY <1>3, <1>4
  <2> QED BY <1>4, <1>5, <2>1 DEF ClosureOf
<1>6. ASSUME NEW n \in Reachable(g) PROVE n \in ClosureOf(S, g.start, arcs)
  <2>1. ASSUME NEW C \in SUBSET S, g.start \in C, \A a \in arcs : a[1] \in C => a[2] \in C
        PROVE  n \in C
    BY <1>3, <1>4, <2>1
  <2> QED BY <1>4, <2>1 DEF ClosureOf
<1> QED BY <1>5, <1>6

\* The graph of a run is one of the documents, whichever replaced the one it began with.
LEMMA DocumentKnown == RunSpec => [](document \in Documents)
<1>1. RunInit => document \in Documents
  BY DEF RunInit
<1>2. document \in Documents /\ [RunNext]_runVars => (document \in Documents)'
  BY RoutingAssumption DEF RunNext, RecordRoute, RecordCut, Produce, SetFlag, Replace, runVars
<1> QED BY <1>1, <1>2, PTL DEF RunSpec

\* The worklist of the validation finds exactly the stages a path of edges leads to.
THEOREM ReachabilityExact == RunSpec => []ReachabilityIsExact
<1>1. document \in Documents => ReachabilityIsExact
  <2> SUFFICES ASSUME document \in Documents PROVE ReachabilityIsExact
    OBVIOUS
  <2> DEFINE g == FromDict(document)
             arcs == {a \in Stages(g) \X Stages(g) : \E e \in EdgesOf(g, a[1]) : e.to = a[2]}
  <2>1. IsGraph(g)
    BY Read
  <2>2. g.start \in DOMAIN g.nodes => Reachable(g) = ClosureOf(DOMAIN g.nodes, g.start, arcs)
    <3> HIDE DEF g
    <3> QED BY <2>1, Exact
  <2> QED BY <2>2 DEF ReachabilityIsExact
<1> QED BY <1>1, DocumentKnown, PTL

-----------------------------------------------------------------------------
\* What routing can follow.

\* The conditions of the edges are flags, or none.
LEMMA ReadConditions ==
  ASSUME NEW d \in Documents, NEW n \in DOMAIN d.nodes, NEW i \in DOMAIN FromDict(d).nodes[n].edges
  PROVE  LET e == FromDict(d).nodes[n].edges[i] IN
         /\ e.want \in BOOLEAN
         /\ e.when \in Flags \/ (e.when \in Unconditional /\ e.want)
<1>1. FromDict(d).nodes[n].edges = Edges(d.nodes[n])
  BY DEF FromDict
<1> DEFINE edges == Edges(d.nodes[n])
           E == [to: STRING, when: STRING, want: BOOLEAN]
<1>2. edges \in Seq(E) /\ \A j \in DOMAIN edges : edges[j].when \in Flags \/ (edges[j].when \in Unconditional /\ edges[j].want)
  BY RoutingAssumption
<1>3. edges[i] \in E
  <2> HIDE DEF edges, E
  <2> QED BY <1>1, <1>2, LenProperties DEF edges
<1> QED BY <1>1, <1>2, <1>3

\* Nothing before an edge of an unshadowed stage need match, so that edge can decide.
LEMMA EdgeDecides ==
  ASSUME NEW d \in Documents, NEW g, g = FromDict(d), Valid(g), Unshadowed(g),
         NEW n \in DOMAIN g.nodes, NEW i \in DOMAIN g.nodes[n].edges
  PROVE  \E fl \in [Flags -> BOOLEAN] : Choose(g, n, fl) = g.nodes[n].edges[i].to
<1> DEFINE edges == g.nodes[n].edges
           fl == [f \in Flags |-> IF f = edges[i].when THEN edges[i].want
                                  ELSE \E j \in DOMAIN edges : j < i /\ edges[j].when = f /\ ~edges[j].want]
<1>1. IsGraph(g) /\ DOMAIN g.nodes = DOMAIN d.nodes
  BY Read
<1>2. Len(edges) \in Nat /\ DOMAIN edges = 1..Len(edges)
  BY <1>1, TargetsTyped
<1>3. \A j \in DOMAIN edges : /\ edges[j].want \in BOOLEAN
                              /\ edges[j].when \in Flags \/ (edges[j].when \in Unconditional /\ edges[j].want)
  BY <1>1, ReadConditions
<1>4. \A j, k \in DOMAIN edges : j # k => <<edges[j].when, edges[j].want>> # <<edges[k].when, edges[k].want>>
  BY DEF Valid, NodeValid, Condition
<1>5. \A j, k \in DOMAIN edges : j < k => /\ edges[j].when \notin Unconditional
                                          /\ edges[j].when = edges[k].when => Len(edges) = 2
  BY DEF Unshadowed
<1>0. i \in DOMAIN edges
  OBVIOUS
<1>6. fl \in [Flags -> BOOLEAN]
  BY <1>3
<1> HIDE DEF edges
<1>7. Matches(edges[i], fl)
  BY <1>0, <1>3 DEF Matches
<1>8. ASSUME NEW j \in DOMAIN edges, j < i PROVE ~Matches(edges[j], fl)
  <2>1. edges[j].when \in Flags /\ edges[j].when \notin Unconditional /\ edges[j].want \in BOOLEAN
    BY <1>0, <1>3, <1>5, <1>8
  <2>2. fl[edges[j].when] # edges[j].want
    <3>1. CASE edges[j].when = edges[i].when
      <4>1. edges[j].want # edges[i].want
        BY <1>0, <1>2, <1>4, <1>8, <3>1
      <4> QED BY <2>1, <3>1, <4>1
    <3>2. CASE edges[j].when # edges[i].when
      <4>1. CASE ~edges[j].want
        BY <1>8, <2>1, <3>2, <4>1
      <4>2. CASE edges[j].want
        <5>1. ASSUME NEW k \in DOMAIN edges, k < i, edges[k].when = edges[j].when, ~edges[k].want PROVE FALSE
          <6>1. k # j
            BY <4>2, <5>1
          <6>2. Len(edges) = 2
            BY <1>2, <1>5, <5>1, <6>1
          <6> QED BY <1>0, <1>2, <1>8, <5>1, <6>1, <6>2
        <5> QED BY <2>1, <3>2, <4>2, <5>1
      <4> QED BY <4>1, <4>2
    <3> QED BY <3>1, <3>2
  <2> QED BY <2>1, <2>2 DEF Matches
<1> HIDE DEF fl
<1>9. i \in Hits(g, n, fl) /\ Hits(g, n, fl) \subseteq DOMAIN edges /\ \A j \in Hits(g, n, fl) : i <= j
  BY <1>2, <1>7, <1>8 DEF Hits, edges
<1>10. Min(Hits(g, n, fl)) = i
  <2>1. \A j \in Hits(g, n, fl) : j \in Nat
    BY <1>2, <1>9
  <2> QED BY <1>9, <2>1 DEF Min
<1>11. Choose(g, n, fl) = edges[i].to
  BY <1>9, <1>10 DEF Choose, edges
<1> QED BY <1>6, <1>11 DEF edges

\* Every stage of a valid graph without shadowed edges can be routed to.
LEMMA Routable ==
  ASSUME NEW d \in Documents, NEW g, g = FromDict(d), Valid(g), Unshadowed(g), NEW routes,
         routes = {a \in Stages(g) \X Stages(g) :
                     \E fl \in [Flags -> BOOLEAN] : Route(g, a[1], g.nodes[a[1]].gate, fl).next = a[2]}
  PROVE  ClosureOf(DOMAIN g.nodes, g.start, routes) = DOMAIN g.nodes
<1> DEFINE S == DOMAIN g.nodes
           arcs == {a \in Stages(g) \X Stages(g) : \E e \in EdgesOf(g, a[1]) : e.to = a[2]}
<1>1. IsGraph(g) /\ g.start \in S /\ S \subseteq Reachable(g)
  BY Read DEF Valid
<1>2. S \subseteq ClosureOf(S, g.start, arcs)
  BY <1>1, Exact
<1>3. ASSUME NEW a \in arcs PROVE a[1] = a[2] \/ a \in routes
  <2>1. /\ a = <<a[1], a[2]>> /\ a[1] \in S /\ a[2] \in S
        /\ \E e \in EdgesOf(g, a[1]) : e.to = a[2]
    BY DEF Stages
  <2>2. PICK i \in DOMAIN g.nodes[a[1]].edges : g.nodes[a[1]].edges[i].to = a[2]
    BY <2>1 DEF EdgesOf, ToSet
  <2>3. CASE a[1] \in g.terminal
    BY <2>1, <2>2, <2>3 DEF Valid, NodeValid
  <2>4. CASE a[1] \notin g.terminal
    <3>1. PICK fl \in [Flags -> BOOLEAN] : Choose(g, a[1], fl) = a[2]
      BY <2>1, <2>2, EdgeDecides
    <3>2. Route(g, a[1], g.nodes[a[1]].gate, fl).next = a[2]
      BY <2>1, <2>4, <3>1 DEF Route, Decision
    <3> QED BY <2>1, <3>2 DEF Stages
  <2> QED BY <2>3, <2>4
<1> HIDE DEF arcs
<1>4. ASSUME NEW n \in S, NEW C \in SUBSET S, g.start \in C, \A a \in routes : a[1] \in C => a[2] \in C
      PROVE  n \in C
  <2>1. \A a \in arcs : a[1] \in C => a[2] \in C
    BY <1>3, <1>4
  <2>2. n \in ClosureOf(S, g.start, arcs)
    BY <1>2
  <2> QED BY <1>4, <2>1, <2>2 DEF ClosureOf
<1> QED BY <1>4 DEF ClosureOf

\* In a valid graph without shadowed edges the stages that validation found are those
\* that routing can get to.
THEOREM StagesRoutable == RunSpec => []EveryStageCanBeRouted
<1>1. document \in Documents => EveryStageCanBeRouted
  <2> SUFFICES ASSUME document \in Documents PROVE EveryStageCanBeRouted
    OBVIOUS
  <2> DEFINE g == FromDict(document)
             routes == {a \in Stages(g) \X Stages(g) :
                          \E fl \in [Flags -> BOOLEAN] : Route(g, a[1], g.nodes[a[1]].gate, fl).next = a[2]}
  <2>1. Valid(g) /\ Unshadowed(g) => ClosureOf(DOMAIN g.nodes, g.start, routes) = DOMAIN g.nodes
    BY Routable
  <2> QED BY <2>1 DEF EveryStageCanBeRouted
<1> QED BY <1>1, DocumentKnown, PTL

=============================================================================
